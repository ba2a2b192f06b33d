---------------------- MODULE KeycloakControllerProofs ----------------------
(***************************************************************************)
(* Proofs about KeycloakController: a Keycloak may be deleted and asked    *)
(* for again any number of times, with any number of edits, faults and     *)
(* crashes, while passes still work on copies of the one before.           *)
(***************************************************************************)
EXTENDS KeycloakController, TLAPS

(* A pass works under an authID that was given out, but for the one that   *)
(* is about to take one.                                                   *)
PassNamed ==
    /\ pass.kc.id \in Ids \cup {NoId}
    /\ pass.pc \in Steps \ {"identify"} => pass.kc.id # NoId

TypeInv == TypeOK /\ PassNamed

-----------------------------------------------------------------------------
(* Facts about the operators the actions are built from.                   *)

LEMMA StepsCovered ==
    /\ Kinds \subseteq Steps \ {"identify"}
    /\ {"identify", "pod", "realm", "store"} \subseteq Steps
    /\ "idle" \notin Steps
    /\ \A k \in Kinds : k \notin {"identify", "pod", "realm", "store"}
  BY DEF Steps, Kinds, Exposures

LEMMA AfterType ==
    ASSUME NEW k \in Kinds, NEW openshift \in BOOLEAN
    PROVE  After(k, openshift) \in (Kinds \cup {"pod"})
  BY DEF After, Kinds, Exposures

LEMMA AbsentType == ASSUME NEW rv \in Nat PROVE Absent(rv) \in Keycloak
  BY DEF Absent, Keycloak, NoId

LEMMA IdleType ==
    Idle \in Passes /\ Idle.pc = "idle" /\ Idle.kc = Absent(0) /\ Idle.kc.id = NoId
  BY AbsentType DEF Idle, Passes, Absent, NoId

LEMMA SpendType ==
    ASSUME left \in [Budgets -> Nat], NEW b \in Budgets, Spend(b)
    PROVE  left' \in [Budgets -> Nat]
  BY DEF Spend

LEMMA FaultType ==
    ASSUME left \in [Budgets -> Nat], NEW kind, Fault(kind)
    PROVE  left' \in [Budgets -> Nat]
  BY SpendType DEF Fault, Budgets

LEMMA CommitMoves ==
    ASSUME NEW new \in Keycloak, new.rv = kc.rv, Commit(new)
    PROVE  kc' = kc \/ kc' = [new EXCEPT !.rv = new.rv + 1]
  BY DEF Commit

LEMMA NextRevision ==
    ASSUME NEW new \in Keycloak
    PROVE  LET next == [new EXCEPT !.rv = new.rv + 1]
           IN  /\ next \in Keycloak
               /\ next.rv = new.rv + 1 /\ next.live = new.live /\ next.id = new.id
               /\ next.url = new.url /\ next.realm = new.realm
  BY DEF Keycloak

(* The two writes of the worker: what they change, if they change anything.*)
LEMMA NamingType ==
    ASSUME kc \in Keycloak, nextId \in Nat, Commit([kc EXCEPT !.id = nextId])
    PROVE  /\ kc' \in Keycloak
           /\ kc' = kc \/ (/\ kc'.rv = kc.rv + 1 /\ kc'.live = kc.live
                           /\ kc'.id = nextId
                           /\ kc'.url = kc.url /\ kc'.realm = kc.realm)
  <1> DEFINE named == [kc EXCEPT !.id = nextId]
  <1>1. /\ named \in Keycloak /\ named.rv = kc.rv /\ named.live = kc.live
        /\ named.id = nextId /\ named.url = kc.url /\ named.realm = kc.realm
    BY DEF Keycloak
  <1>2. kc' = kc \/ kc' = [named EXCEPT !.rv = named.rv + 1]
    BY <1>1, CommitMoves
  <1> HIDE DEF named
  <1> QED
    BY <1>1, <1>2, NextRevision

LEMMA StoringType ==
    ASSUME kc \in Keycloak, NEW url \in BOOLEAN, NEW realm \in BOOLEAN,
           Commit([kc EXCEPT !.url = url, !.realm = realm])
    PROVE  /\ kc' \in Keycloak
           /\ kc' = kc \/ (/\ kc'.rv = kc.rv + 1 /\ kc'.live = kc.live
                           /\ kc'.id = kc.id
                           /\ kc'.url = url /\ kc'.realm = realm)
  <1> DEFINE stored == [kc EXCEPT !.url = url, !.realm = realm]
  <1>1. /\ stored \in Keycloak /\ stored.rv = kc.rv /\ stored.live = kc.live
        /\ stored.id = kc.id /\ stored.url = url /\ stored.realm = realm
    BY DEF Keycloak
  <1>2. kc' = kc \/ kc' = [stored EXCEPT !.rv = stored.rv + 1]
    BY <1>1, CommitMoves
  <1> HIDE DEF stored
  <1> QED
    BY <1>1, <1>2, NextRevision

LEMMA RangesNest ==
    ASSUME NEW m \in Nat, NEW n \in Nat, m >= n
    PROVE  1 .. (n - 1) \subseteq 1 .. (m - 1)
  OBVIOUS

LEMMA RangeEnds == ASSUME NEW n \in Nat \ {0} PROVE n \in 1 .. (n + 1 - 1)
  OBVIOUS

(* Authids given out before stay given out, the next one is added to them. *)
LEMMA IdsGrow ==
    ASSUME nextId \in Nat \ {NoId}, nextId' \in {nextId, nextId + 1}
    PROVE  /\ Ids \subseteq Ids'
           /\ nextId' = nextId + 1 => nextId \in Ids'
  <1>1. nextId \in Nat /\ nextId + 1 \in Nat /\ nextId + 1 >= nextId /\ nextId >= nextId
    BY DEF NoId
  <1>2. CASE nextId' = nextId
    BY <1>1, <1>2 DEF Ids
  <1>3. CASE nextId' = nextId + 1
    <2>1. 1 .. (nextId - 1) \subseteq 1 .. (nextId + 1 - 1)
      BY <1>1, RangesNest
    <2>2. nextId \in 1 .. (nextId + 1 - 1)
      BY RangeEnds DEF NoId
    <2> QED
      BY <1>3, <2>1, <2>2 DEF Ids
  <1> QED
    BY <1>2, <1>3

LEMMA IdsNamed == NoId \notin Ids
  BY DEF Ids, NoId

(* A pass that ended, or only went on under the same copy. *)
LEMMA EndedType ==
    ASSUME pass' = Idle
    PROVE  pass' \in Passes /\ PassNamed'
  BY IdleType, StepsCovered DEF PassNamed

LEMMA GotoType ==
    ASSUME TypeInv, pass.pc \in Steps \ {"identify"}, nextId' = nextId,
           NEW step \in Steps, Goto(step)
    PROVE  pass' \in Passes /\ PassNamed'
  <1>1. pass \in Passes
    BY DEF TypeInv, TypeOK
  <1>2. pass' = [pass EXCEPT !.pc = step]
    BY DEF Goto
  <1>3. pass'.kc = pass.kc /\ pass' \in Passes
    BY <1>1, <1>2 DEF Passes
  <1> QED
    BY <1>3 DEF TypeInv, PassNamed, Ids

-----------------------------------------------------------------------------
(* Type correctness.                                                       *)

LEMMA StartPassType == ASSUME TypeInv, StartPass PROVE TypeInv'
  <1>1. /\ seen \in Keycloak /\ seen.id \in Ids \cup {NoId} /\ pass \in Passes
        /\ left \in [Budgets -> Nat]
    BY DEF TypeInv, TypeOK
  <1>2. left' \in [Budgets -> Nat]
    BY <1>1, FaultType DEF StartPass
  <1>3. ASSUME NEW detected \in {OnOpenShift, FALSE},
               pass' = [pc |-> FirstStep(seen), kc |-> seen, openshift |-> detected]
        PROVE  pass' \in Passes /\ PassNamed'
    <2>1. detected \in BOOLEAN
      BY OpenShiftAssumption
    <2>2. FirstStep(seen) \in Steps /\ (FirstStep(seen) # "identify" => seen.id # NoId)
      BY DEF FirstStep, Steps, Kinds
    <2>3. pass' \in Passes /\ pass'.kc = seen /\ pass'.pc = FirstStep(seen)
      BY <1>1, <1>3, <2>1, <2>2 DEF Passes
    <2> QED
      BY <1>1, <2>2, <2>3 DEF PassNamed, Ids, StartPass, resource
  <1>4. pass' \in Passes /\ PassNamed'
    <2>1. CASE pass' = Idle
      BY <2>1, EndedType
    <2>2. CASE UNCHANGED pass
      BY <1>1, <2>2 DEF TypeInv, PassNamed, Ids, StartPass, resource
    <2>3. CASE \E detected \in {OnOpenShift, FALSE} :
                 pass' = [pc |-> FirstStep(seen), kc |-> seen, openshift |-> detected]
      BY <1>3, <2>3
    <2> QED
      BY <2>1, <2>2, <2>3 DEF StartPass
  <1>5. queued' \in BOOLEAN
    BY DEF TypeInv, TypeOK, StartPass
  <1> QED
    BY <1>2, <1>4, <1>5 DEF TypeInv, TypeOK, StartPass, resource, workload,
       caches, Ids

LEMMA IdentifyType == ASSUME TypeInv, Identify PROVE TypeInv'
  <1>1. /\ kc \in Keycloak /\ nextId \in Nat \ {NoId} /\ nextId >= 1
        /\ kc.id \in Ids \cup {NoId} /\ left \in [Budgets -> Nat]
    BY DEF TypeInv, TypeOK, NoId
  <1>2. pass' = Idle /\ queued' = TRUE
    BY DEF Identify, Requeue
  <1>3. left' \in [Budgets -> Nat]
    BY <1>1, FaultType DEF Identify
  <1>4. /\ kc' \in Keycloak /\ nextId' \in Nat \ {NoId} /\ nextId' \in {nextId, nextId + 1}
        /\ kc'.id = kc.id \/ (kc'.id = nextId /\ nextId' = nextId + 1)
    <2>1. CASE Commit([kc EXCEPT !.id = nextId]) /\ nextId' = nextId + 1
      <3>1. kc' \in Keycloak /\ kc'.id \in {kc.id, nextId}
        BY <1>1, <2>1, NamingType
      <3>2. nextId + 1 \in Nat \ {NoId}
        BY <1>1 DEF NoId
      <3> QED
        BY <2>1, <3>1, <3>2
    <2>2. CASE UNCHANGED resource
      BY <1>1, <2>2 DEF resource
    <2> QED
      BY <2>1, <2>2 DEF Identify
  <1>5. Ids \subseteq Ids' /\ kc'.id \in Ids' \cup {NoId}
    BY <1>1, <1>4, IdsGrow
  <1> QED
    BY <1>2, <1>3, <1>4, <1>5, EndedType
       DEF TypeInv, TypeOK, Identify, workload, caches

(* What a pass does with an object leaves its copy of the Keycloak alone,  *)
(* but for the access URL.                                                 *)
SamePassBut(url) ==
    /\ pass' \in Passes /\ pass'.pc \in Kinds \cup {"pod"}
    /\ pass'.openshift = pass.openshift
    /\ pass'.kc.live = pass.kc.live /\ pass'.kc.rv = pass.kc.rv /\ pass'.kc.id = pass.kc.id
    /\ pass'.kc.realm = pass.kc.realm /\ pass'.kc.url = url

LEMMA EnsureMoves ==
    ASSUME TypeInv, NEW k \in Kinds, Ensure(k)
    PROVE  \/ pass' = Idle
           \/ /\ pass'.pc = After(k, pass.openshift)
              /\ SamePassBut(pass.kc.url) \/ SamePassBut(pass.kc.url \/ k \in Exposures)
  <1>1. pass \in Passes /\ pass.pc = k /\ pass.kc \in Keycloak /\ pass.openshift \in BOOLEAN
    BY DEF TypeInv, TypeOK, Ensure, Passes
  <1> DEFINE next == After(k, pass.openshift)
             noted == pass.kc.url \/ k \in Exposures
  <1>2. next \in Kinds \cup {"pod"} /\ next \in Steps
    BY <1>1, AfterType, StepsCovered
  <1>3. CASE pass' = [pass EXCEPT !.pc = next]
    <2>1. pass' \in Passes /\ pass'.pc = next /\ pass'.kc = pass.kc
          /\ pass'.openshift = pass.openshift
      BY <1>1, <1>2, <1>3 DEF Passes
    <2> QED
      BY <1>2, <2>1 DEF SamePassBut
  <1>4. CASE pass' = [pass EXCEPT !.pc = next, !.kc.url = noted]
    <2>1. [pass.kc EXCEPT !.url = noted] \in Keycloak
      BY <1>1 DEF Keycloak
    <2>2. pass' = [pass EXCEPT !.pc = next, !.kc = [pass.kc EXCEPT !.url = noted]]
      BY <1>1, <1>4 DEF Passes
    <2>3. pass' \in Passes /\ pass'.pc = next /\ pass'.kc = [pass.kc EXCEPT !.url = noted]
          /\ pass'.openshift = pass.openshift
      BY <1>1, <1>2, <2>1, <2>2 DEF Passes
    <2> QED
      BY <1>1, <1>2, <2>3 DEF SamePassBut, Keycloak
  <1> QED
    BY <1>1, <1>3, <1>4 DEF Ensure, Ensured, Advance, Goto, Requeue

LEMMA EnsureType == ASSUME TypeInv, NEW k \in Kinds, Ensure(k) PROVE TypeInv'
  <1>1. /\ pass \in Passes /\ pass.pc = k /\ left \in [Budgets -> Nat]
        /\ k \in Steps \ {"identify"}
    BY StepsCovered DEF TypeInv, TypeOK, Ensure
  <1>2. pass.kc.id \in Ids
    BY <1>1 DEF TypeInv, PassNamed
  <1>3. objs' \subseteq Ids \X Kinds /\ news' \in BOOLEAN
    <2>1. Add(k) \/ UNCHANGED <<objs, news>>
      BY DEF Ensure
    <2>2. objs' \subseteq Ids \X Kinds
      BY <1>2, <2>1 DEF Add, Key, TypeInv, TypeOK
    <2>3. news' \in BOOLEAN
      BY <2>1 DEF Add, TypeInv, TypeOK
    <2> QED
      BY <2>2, <2>3
  <1>4. left' \in [Budgets -> Nat]
    BY <1>1, FaultType DEF Ensure
  <1>5. nextId' = nextId /\ Ids' = Ids
    BY DEF Ensure, resource, Ids
  <1>6. pass' \in Passes /\ PassNamed'
    <2>1. CASE pass' = Idle
      BY <2>1, EndedType
    <2>2. ASSUME NEW url, SamePassBut(url)
          PROVE  pass' \in Passes /\ PassNamed'
      BY <1>2, <1>5, <2>2, IdsNamed DEF PassNamed, SamePassBut
    <2> QED
      BY <2>1, <2>2, EnsureMoves
  <1>7. queued' \in BOOLEAN
    BY DEF Ensure, Ensured, Advance, Goto, Requeue, TypeInv, TypeOK
  <1> QED
    BY <1>3, <1>4, <1>5, <1>6, <1>7 DEF TypeInv, TypeOK, Ensure, resource, workload, caches

LEMMA CheckPodType == ASSUME TypeInv, CheckPod \/ PodUnread PROVE TypeInv'
  <1>1. pass \in Passes /\ pass.pc = "pod" /\ left \in [Budgets -> Nat]
        /\ pass.kc \in Keycloak /\ pass.pc \in Steps \ {"identify"}
    BY StepsCovered DEF TypeInv, TypeOK, CheckPod, PodUnread, Passes
  <1>2. nextId' = nextId /\ Ids' = Ids
    BY DEF CheckPod, PodUnread, resource, Ids
  <1>3. left' \in [Budgets -> Nat]
    BY <1>1, SpendType DEF CheckPod, PodUnread, Budgets
  <1>4. pass' \in Passes /\ PassNamed'
    <2>1. CASE Goto("store")
      BY <1>1, <1>2, <2>1, GotoType, StepsCovered
    <2>2. CASE pass' = [pass EXCEPT !.pc = "realm", !.kc.realm = TRUE]
      <3>1. [pass.kc EXCEPT !.realm = TRUE] \in Keycloak
            /\ [pass.kc EXCEPT !.realm = TRUE].id = pass.kc.id
        BY <1>1 DEF Keycloak
      <3>2. pass' = [pass EXCEPT !.pc = "realm", !.kc = [pass.kc EXCEPT !.realm = TRUE]]
        BY <1>1, <2>2 DEF Passes
      <3>3. pass' \in Passes /\ pass'.kc.id = pass.kc.id
        BY <1>1, <3>1, <3>2, StepsCovered DEF Passes
      <3> QED
        BY <1>1, <1>2, <3>3 DEF TypeInv, PassNamed
    <2> QED
      BY <2>1, <2>2 DEF CheckPod, PodUnread
  <1>5. queued' \in BOOLEAN
    BY DEF CheckPod, PodUnread, Goto, TypeInv, TypeOK
  <1> QED
    BY <1>2, <1>3, <1>4, <1>5 DEF TypeInv, TypeOK, CheckPod, PodUnread, resource, workload, caches

LEMMA InstallRealmType == ASSUME TypeInv, InstallRealm PROVE TypeInv'
  <1>1. /\ pass \in Passes /\ pass.pc \in Steps \ {"identify"} /\ left \in [Budgets -> Nat]
    BY StepsCovered DEF TypeInv, TypeOK, InstallRealm
  <1>2. nextId' = nextId /\ Ids' = Ids
    BY DEF InstallRealm, resource, Ids
  <1>3. left' \in [Budgets -> Nat]
    BY <1>1, FaultType DEF InstallRealm
  <1>4. realms' \subseteq Ids /\ bodiless' \subseteq Ids
    BY <1>1 DEF InstallRealm, TypeInv, TypeOK, PassNamed
  <1>5. pass' \in Passes /\ PassNamed'
    BY <1>1, <1>2, GotoType, EndedType, StepsCovered DEF InstallRealm, Requeue
  <1>6. queued' \in BOOLEAN
    BY DEF InstallRealm, Goto, Requeue, TypeInv, TypeOK
  <1> QED
    BY <1>2, <1>3, <1>4, <1>5, <1>6 DEF TypeInv, TypeOK, InstallRealm, resource, caches

LEMMA StoreStatusType == ASSUME TypeInv, StoreStatus PROVE TypeInv'
  <1>1. /\ kc \in Keycloak /\ kc.id \in Ids \cup {NoId} /\ left \in [Budgets -> Nat]
        /\ pass.kc.url \in BOOLEAN /\ pass.kc.realm \in BOOLEAN
    BY DEF TypeInv, TypeOK, Passes, Keycloak
  <1>2. Ids' = Ids
    BY DEF StoreStatus, Ids
  <1>3. left' \in [Budgets -> Nat]
    BY <1>1, FaultType DEF StoreStatus
  <1>4. kc' \in Keycloak /\ kc'.id \in Ids \cup {NoId}
    <2>1. CASE Commit([kc EXCEPT !.url = pass.kc.url, !.realm = pass.kc.realm])
      BY <1>1, <2>1, StoringType
    <2>2. CASE UNCHANGED kc
      BY <1>1, <2>2
    <2> QED
      BY <2>1, <2>2 DEF StoreStatus
  <1>5. pass' = Idle /\ queued' \in BOOLEAN
    BY DEF StoreStatus, Settle, Requeue, TypeInv, TypeOK
  <1>6. pass' \in Passes /\ PassNamed'
    BY <1>5, EndedType
  <1> QED
    BY <1>2, <1>3, <1>4, <1>5, <1>6 DEF TypeInv, TypeOK, StoreStatus, workload, caches

LEMMA WorkerType == ASSUME TypeInv, WorkerStep PROVE TypeInv'
  BY IdentifyType, EnsureType, CheckPodType, InstallRealmType, StoreStatusType DEF WorkerStep

(* Events, the cluster and the operator's restart leave every Keycloak as  *)
(* it is.                                                                  *)
Machinery ==
    \/ InformerSync \/ DeploymentSync \/ PodsSync
    \/ \E o \in objs : PodProgress(o[1]) \/ GarbageCollect(o[1])
    \/ Report \/ Resync \/ Crash

LEMMA MachineryType == ASSUME TypeInv, Machinery PROVE TypeInv'
  <1>1. Ids' = Ids /\ nextId' = nextId /\ kc' = kc
    BY DEF Machinery, InformerSync, DeploymentSync, PodsSync, PodProgress, GarbageCollect,
           Report, Resync, Crash, resource, Ids
  <1>2. CachedNow \subseteq Ids
    BY DEF CachedNow, TypeInv, TypeOK
  <1>3. CASE InformerSync \/ DeploymentSync \/ PodsSync \/ Report \/ Resync
    BY <1>1, <1>2, <1>3 DEF InformerSync, DeploymentSync, PodsSync, Report, Resync, resource,
       workload, caches, TypeInv, TypeOK, PassNamed
  <1>4. ASSUME NEW o \in objs, PodProgress(o[1]) PROVE TypeInv'
    <2>1. o[1] \in Ids
      BY DEF TypeInv, TypeOK
    <2>2. pods' \subseteq Ids \X Phases
      BY <1>4, <2>1 DEF PodProgress, Phases, TypeInv, TypeOK
    <2> QED
      BY <1>1, <1>4, <2>2 DEF PodProgress, resource, caches, TypeInv, TypeOK, PassNamed
  <1>5. ASSUME NEW o \in objs, GarbageCollect(o[1]) PROVE TypeInv'
    <2>1. news' \in BOOLEAN
      BY <1>5 DEF GarbageCollect, TypeInv, TypeOK
    <2>2. /\ objs' \subseteq Ids \X Kinds /\ pods' \subseteq Ids \X Phases
          /\ realms' \subseteq Ids
      BY <1>5 DEF GarbageCollect, TypeInv, TypeOK
    <2> QED
      BY <1>1, <1>5, <2>1, <2>2 DEF GarbageCollect, resource, caches, TypeInv, TypeOK, PassNamed
  <1>6. CASE Crash
    <2>1. left' \in [Budgets -> Nat]
      BY <1>6, FaultType DEF Crash, TypeInv, TypeOK
    <2>2. pass' \in Passes /\ PassNamed' /\ kc.live \in BOOLEAN
      BY <1>6, EndedType DEF Crash, TypeInv, TypeOK, Keycloak
    <2> QED
      BY <1>1, <1>2, <1>6, <2>1, <2>2 DEF Crash, resource, workload, TypeInv, TypeOK
  <1> QED
    BY <1>3, <1>4, <1>5, <1>6 DEF Machinery

(* What users write: a new revision, of the same Keycloak, of none, or of  *)
(* one without an authID and a status.                                     *)
UserStep == UserCreate \/ UserEdit \/ UserDelete

LEMMA UserMoves ==
    ASSUME kc \in Keycloak, UserStep
    PROVE  /\ kc' \in Keycloak /\ kc'.rv = kc.rv + 1
           /\ \/ /\ kc'.live = kc.live /\ kc'.id = kc.id
                 /\ kc'.url = kc.url /\ kc'.realm = kc.realm
              \/ /\ ~kc.live \/ ~kc'.live
                 /\ kc'.id = NoId /\ kc'.url = FALSE /\ kc'.realm = FALSE
  <1>1. kc.rv \in Nat /\ kc.rv + 1 \in Nat
    BY DEF Keycloak
  <1>2. Absent(kc.rv + 1) \in Keycloak
    BY <1>1, AbsentType
  <1>3. CASE UserCreate
    BY <1>1, <1>2, <1>3 DEF UserCreate, Absent, Keycloak
  <1>4. CASE UserEdit
    BY <1>1, <1>4 DEF UserEdit, Keycloak
  <1>5. CASE UserDelete
    BY <1>1, <1>2, <1>5 DEF UserDelete, Absent
  <1> QED
    BY <1>3, <1>4, <1>5 DEF UserStep

LEMMA UserType == ASSUME TypeInv, UserStep PROVE TypeInv'
  <1>1. Ids' = Ids /\ pass' = pass
    BY DEF UserStep, UserCreate, UserEdit, UserDelete, Ids
  <1>2. kc' \in Keycloak /\ kc'.id \in Ids \cup {NoId}
    BY UserMoves DEF TypeInv, TypeOK
  <1>3. left' \in [Budgets -> Nat]
    BY SpendType DEF UserStep, UserCreate, UserEdit, UserDelete, Budgets, TypeInv, TypeOK
  <1> QED
    BY <1>1, <1>2, <1>3 DEF UserStep, UserCreate, UserEdit, UserDelete, workload, caches,
       TypeInv, TypeOK, PassNamed

LEMMA TypeStuttering == ASSUME TypeInv, UNCHANGED vars PROVE TypeInv'
  BY DEF TypeInv, TypeOK, PassNamed, Ids, vars

LEMMA InitType == Init => TypeInv
  <1> SUFFICES ASSUME Init PROVE TypeInv
    OBVIOUS
  <1>1. Absent(0) \in Keycloak /\ Absent(0).id = NoId
    BY AbsentType DEF Absent
  <1>2. left \in [Budgets -> Nat]
    BY BoundAssumption DEF Init, Budgets
  <1>3. pass \in Passes /\ PassNamed
    BY IdleType, StepsCovered DEF Init, PassNamed
  <1>4. nextId \in Nat \ {NoId}
    BY DEF Init, NoId
  <1> QED
    BY <1>1, <1>2, <1>3, <1>4 DEF Init, TypeInv, TypeOK

(* Every step is of the pass, of a user, of the machinery, or of nobody. *)
LEMMA NextCases ==
    ASSUME [Next]_vars
    PROVE  StartPass \/ WorkerStep \/ Machinery \/ UserStep \/ UNCHANGED vars
  BY DEF Next, Machinery, UserStep

LEMMA TypeStep == ASSUME TypeInv, [Next]_vars PROVE TypeInv'
  BY NextCases, StartPassType, WorkerType, MachineryType, UserType, TypeStuttering

LEMMA TypeInvariant == Spec => []TypeInv
  BY InitType, TypeStep, PTL DEF Spec

(* No step takes a variable out of its type, and what exists, in the API   *)
(* server, in a cache or in a server's database, carries an authID that    *)
(* was given out.                                                          *)
THEOREM KeycloakTypeCorrect == Spec => []TypeOK
  <1>1. TypeInv => TypeOK
    BY DEF TypeInv
  <1> QED
    BY <1>1, TypeInvariant, PTL

-----------------------------------------------------------------------------
(* Copies trail the stored Keycloak, and revisions tell them from it.      *)

(* No copy is ahead; one of the stored revision has the stored authID, and *)
(* at least what the stored status has.                                    *)
CopiesTrail ==
    /\ seen.rv <= kc.rv /\ (seen.rv = kc.rv => seen = kc)
    /\ pass.kc.rv <= kc.rv
    /\ pass.pc # "idle" /\ pass.kc.rv = kc.rv =>
          /\ pass.kc.id = kc.id
          /\ (kc.url => pass.kc.url) /\ (kc.realm => pass.kc.realm)
    /\ pass.pc = "identify" => pass.kc.id = NoId

(* The pass goes on under its copy, to which it may have added. *)
WentOn ==
    /\ pass.pc \in Steps \ {"identify"} /\ pass'.pc \in Steps \ {"identify"}
    /\ pass'.kc.rv = pass.kc.rv /\ pass'.kc.id = pass.kc.id
    /\ (pass.kc.url => pass'.kc.url) /\ (pass.kc.realm => pass'.kc.realm)

LEMMA GotoGoesOn ==
    ASSUME TypeInv, pass.pc \in Steps \ {"identify"}, NEW step \in Steps \ {"identify"},
           Goto(step)
    PROVE  WentOn /\ pass'.kc = pass.kc /\ pass'.pc = step
  <1>1. pass' = [pass EXCEPT !.pc = step] /\ pass \in Passes
    BY DEF Goto, TypeInv, TypeOK
  <1>2. pass'.pc = step /\ pass'.kc = pass.kc
    BY <1>1 DEF Passes
  <1> QED
    BY <1>2 DEF WentOn

(* What CheckPod does where it finds the pod running. *)
LEMMA CheckPodMoves ==
    ASSUME TypeInv, CheckPod \/ PodUnread
    PROVE  /\ pass.pc = "pod"
           /\ \/ WentOn /\ pass'.kc = pass.kc /\ pass'.pc = "store"
              \/ WentOn /\ pass'.pc = "realm"
  <1>1. pass.pc = "pod" /\ pass \in Passes /\ pass.kc \in Keycloak
    BY DEF CheckPod, PodUnread, TypeInv, TypeOK, Passes
  <1>2. CASE Goto("store")
    BY <1>1, <1>2, GotoGoesOn, StepsCovered
  <1>3. CASE pass' = [pass EXCEPT !.pc = "realm", !.kc.realm = TRUE]
    <2>1. /\ [pass.kc EXCEPT !.realm = TRUE].rv = pass.kc.rv
          /\ [pass.kc EXCEPT !.realm = TRUE].id = pass.kc.id
          /\ [pass.kc EXCEPT !.realm = TRUE].url = pass.kc.url
          /\ [pass.kc EXCEPT !.realm = TRUE].realm = TRUE
      BY <1>1 DEF Keycloak
    <2>2. pass'.pc = "realm" /\ pass'.kc = [pass.kc EXCEPT !.realm = TRUE]
      BY <1>1, <1>3 DEF Passes
    <2> QED
      BY <1>1, <2>1, <2>2, StepsCovered DEF WentOn
  <1> QED
    BY <1>1, <1>2, <1>3 DEF CheckPod, PodUnread

LEMMA WorkerGoesOn ==
    ASSUME TypeInv, WorkerStep
    PROVE  pass' = Idle \/ WentOn
  <1>1. CASE Identify \/ StoreStatus
    BY <1>1 DEF Identify, StoreStatus, Requeue, Settle
  <1>2. ASSUME NEW k \in Kinds, Ensure(k) PROVE pass' = Idle \/ WentOn
    <2>1. pass.pc = k /\ k \in Steps \ {"identify"}
      BY <1>2, StepsCovered DEF Ensure
    <2>2. ASSUME SamePassBut(pass.kc.url) \/ SamePassBut(pass.kc.url \/ k \in Exposures)
          PROVE  WentOn
      BY <2>1, <2>2, StepsCovered DEF SamePassBut, WentOn
    <2> QED
      BY <1>2, <2>2, EnsureMoves
  <1>3. CASE CheckPod \/ PodUnread
    BY <1>3, CheckPodMoves
  <1>4. CASE InstallRealm
    BY <1>4, GotoGoesOn, StepsCovered DEF InstallRealm, Requeue
  <1> QED
    BY <1>1, <1>2, <1>3, <1>4 DEF WorkerStep

(* Every change of the stored Keycloak moves its revision; its authID only *)
(* ever becomes a new one, or none.                                        *)
LEMMA KeycloakMoves ==
    ASSUME TypeInv, [Next]_vars
    PROVE  /\ kc' = kc \/ kc'.rv = kc.rv + 1
           /\ kc'.id \in {kc.id, nextId, NoId}
  <1>1. kc \in Keycloak /\ nextId \in Nat /\ pass \in Passes
        /\ pass.kc.url \in BOOLEAN /\ pass.kc.realm \in BOOLEAN
    BY DEF TypeInv, TypeOK, Passes, Keycloak
  <1>2. CASE UNCHANGED kc
    BY <1>2
  <1>3. CASE Identify
    BY <1>1, <1>2, <1>3, NamingType DEF Identify, resource
  <1>4. CASE StoreStatus
    BY <1>1, <1>2, <1>4, StoringType DEF StoreStatus
  <1>5. CASE UserStep
    BY <1>1, <1>5, UserMoves
  <1>6. UNCHANGED kc \/ Identify \/ StoreStatus \/ UserStep
    BY NextCases DEF StartPass, WorkerStep, Ensure, CheckPod, PodUnread, InstallRealm, Machinery,
       InformerSync, DeploymentSync, PodsSync, PodProgress, GarbageCollect, Report, Resync,
       Crash, resource, vars
  <1> QED
    BY <1>2, <1>3, <1>4, <1>5, <1>6

LEMMA TrailStep == ASSUME TypeInv, CopiesTrail, [Next]_vars PROVE CopiesTrail'
  <1>1. /\ kc \in Keycloak /\ seen \in Keycloak /\ pass \in Passes /\ pass.kc \in Keycloak
        /\ kc.rv \in Nat /\ seen.rv \in Nat /\ pass.kc.rv \in Nat
    BY DEF TypeInv, TypeOK, Passes, Keycloak
  <1>2. Idle.pc = "idle" /\ Idle.kc.rv = 0
    BY IdleType DEF Absent
  <1>3. kc' = kc \/ kc'.rv = kc.rv + 1
    BY KeycloakMoves
  <1>4. CASE StartPass
    <2>1. kc' = kc /\ seen' = seen
      BY <1>4 DEF StartPass, resource, caches
    <2>2. CASE pass' = Idle \/ pass' = pass
      BY <1>1, <1>2, <2>1, <2>2 DEF CopiesTrail
    <2>3. ASSUME NEW detected \in {OnOpenShift, FALSE},
                 pass' = [pc |-> FirstStep(seen), kc |-> seen, openshift |-> detected]
          PROVE  CopiesTrail'
      <3>1. FirstStep(seen) = "identify" => seen.id = NoId
        BY DEF FirstStep
      <3>2. pass'.kc = seen /\ pass'.pc = FirstStep(seen)
        BY <2>3
      <3> QED
        BY <1>1, <2>1, <3>1, <3>2 DEF CopiesTrail
    <2> QED
      BY <1>4, <2>2, <2>3 DEF StartPass
  <1>5. CASE WorkerStep
    <2>1. seen' = seen
      BY <1>5 DEF WorkerStep, Identify, Ensure, CheckPod, PodUnread, InstallRealm, StoreStatus,
         caches
    <2>2. CASE pass' = Idle
      BY <1>1, <1>2, <1>3, <2>1, <2>2 DEF CopiesTrail
    <2>3. CASE WentOn
      BY <1>1, <1>3, <2>1, <2>3, StepsCovered DEF CopiesTrail, WentOn
    <2> QED
      BY <1>5, <2>2, <2>3, WorkerGoesOn
  <1>6. CASE Machinery
    <2>1. kc' = kc /\ seen' \in {seen, kc} /\ pass' \in {pass, Idle}
      BY <1>6 DEF Machinery, InformerSync, DeploymentSync, PodsSync, PodProgress, GarbageCollect,
         Report, Resync, Crash, resource, caches
    <2> QED
      BY <1>1, <1>2, <2>1 DEF CopiesTrail
  <1>7. CASE UserStep
    <2>1. seen' = seen /\ pass' = pass /\ kc'.rv = kc.rv + 1
      BY <1>1, <1>7, UserMoves DEF UserStep, UserCreate, UserEdit, UserDelete, caches
    <2> QED
      BY <1>1, <2>1 DEF CopiesTrail
  <1>8. CASE UNCHANGED vars
    BY <1>8 DEF vars, CopiesTrail
  <1> QED
    BY <1>4, <1>5, <1>6, <1>7, <1>8, NextCases

LEMMA InitTrail == Init => CopiesTrail
  <1> SUFFICES ASSUME Init PROVE CopiesTrail
    OBVIOUS
  <1>1. pass.pc = "idle" /\ pass.kc.rv = 0 /\ kc.rv = 0 /\ seen = kc
    BY IdleType DEF Init, Absent
  <1> QED
    BY <1>1 DEF CopiesTrail

LEMMA TrailInvariant == Spec => [](TypeInv /\ CopiesTrail)
  <1>1. TypeInv /\ CopiesTrail /\ [Next]_vars => (TypeInv /\ CopiesTrail)'
    BY TypeStep, TrailStep
  <1> QED
    BY <1>1, InitType, InitTrail, PTL DEF Spec

(* A write that is accepted is of the stored revision: its pass knows the  *)
(* stored authID and has all that the stored status has.                   *)
LEMMA AcceptedWrites ==
    ASSUME TypeInv, CopiesTrail, [Next]_vars
    PROVE  \/ ~kc.live \/ ~kc'.live
           \/ /\ kc.id # NoId => kc'.id = kc.id
              /\ (kc.url => kc'.url) /\ (kc.realm => kc'.realm)
  <1>1. kc \in Keycloak /\ nextId \in Nat /\ pass.kc.url \in BOOLEAN /\ pass.kc.realm \in BOOLEAN
    BY DEF TypeInv, TypeOK, Passes, Keycloak
  <1>2. CASE UNCHANGED kc
    BY <1>2
  <1>3. CASE Identify
    <2>1. CASE UNCHANGED resource
      BY <1>2, <2>1 DEF resource
    <2>2. CASE Accepts /\ Commit([kc EXCEPT !.id = nextId])
      <3>1. kc.id = NoId
        BY <1>3, <2>2 DEF Identify, Accepts, CopiesTrail
      <3> QED
        BY <1>1, <2>2, <3>1, NamingType
    <2> QED
      BY <1>3, <2>1, <2>2 DEF Identify
  <1>4. CASE StoreStatus
    <2>1. CASE Accepts /\ Commit([kc EXCEPT !.url = pass.kc.url, !.realm = pass.kc.realm])
      <3>1. (kc.url => pass.kc.url) /\ (kc.realm => pass.kc.realm)
        BY <1>4, <2>1 DEF StoreStatus, Accepts, CopiesTrail
      <3> QED
        BY <1>1, <2>1, <3>1, StoringType
    <2> QED
      BY <1>2, <1>4, <2>1 DEF StoreStatus
  <1>5. CASE UserStep
    BY <1>1, <1>5, UserMoves
  <1>6. UNCHANGED kc \/ Identify \/ StoreStatus \/ UserStep
    BY NextCases DEF StartPass, WorkerStep, Ensure, CheckPod, PodUnread, InstallRealm, Machinery,
       InformerSync, DeploymentSync, PodsSync, PodProgress, GarbageCollect, Report, Resync,
       Crash, resource, vars
  <1> QED
    BY <1>2, <1>3, <1>4, <1>5, <1>6

(* setKeycloakAuthID never names a Keycloak that has a name, although the  *)
(* copy it decides on may be of an earlier revision, or of an earlier      *)
(* Keycloak.                                                               *)
THEOREM AuthIDNeverChanges == Spec => AuthIDStable
  <1>1. TypeInv /\ CopiesTrail /\ [Next]_vars
          => [kc.live /\ kc'.live /\ kc.id # NoId => kc'.id = kc.id]_vars
    BY AcceptedWrites
  <1> QED
    BY <1>1, TrailInvariant, PTL DEF Spec, AuthIDStable

(* No pass takes back the access URL or the realm an earlier one stored.   *)
THEOREM StatusNeverTakenBack == Spec => StatusKept
  <1>1. TypeInv /\ CopiesTrail /\ [Next]_vars
          => [kc.live /\ kc'.live => (kc.url => kc'.url) /\ (kc.realm => kc'.realm)]_vars
    BY AcceptedWrites
  <1> QED
    BY <1>1, TrailInvariant, PTL DEF Spec, StatusKept

-----------------------------------------------------------------------------
(* What is recorded as installed was acknowledged by the server itself.    *)

(* A copy that has the realm speaks of a server that acknowledged it, if   *)
(* it speaks of the Keycloak that is stored.                               *)
Recorded(copy) ==
    copy.realm => copy.id # NoId /\ (copy.id = kc.id => kc.id \in Acknowledged)

(* Only the pass about to install the realm is ahead of the server.        *)
RealmInv ==
    /\ Recorded(kc) /\ Recorded(seen)
    /\ pass.pc # "realm" => Recorded(pass.kc)

(* What the server of the stored Keycloak acknowledged stays so. *)
LEMMA RealmsKept ==
    ASSUME TypeInv, [Next]_vars
    PROVE  kc.id \in Acknowledged => kc.id \in Acknowledged'
  <1>1. CASE InstallRealm
    BY <1>1 DEF InstallRealm, Acknowledged
  <1>2. ASSUME NEW o \in objs, GarbageCollect(o[1])
        PROVE  kc.id \in Acknowledged => kc.id \in Acknowledged'
    BY <1>2 DEF GarbageCollect, Acknowledged
  <1>3. UNCHANGED Acknowledged \/ InstallRealm \/ \E o \in objs : GarbageCollect(o[1])
    BY NextCases DEF StartPass, WorkerStep, Identify, Ensure, CheckPod, PodUnread, StoreStatus,
       Machinery, InformerSync, DeploymentSync, PodsSync, PodProgress, Report, Resync, Crash,
       UserStep, UserCreate, UserEdit, UserDelete, workload, Acknowledged, vars
  <1> QED
    BY <1>1, <1>2, <1>3

(* What a copy says goes on to hold, for no Keycloak takes its authID. *)
LEMMA RecordedKept ==
    ASSUME TypeInv, [Next]_vars,
           NEW id \in Ids \cup {NoId}, NEW realm,
           realm => id # NoId /\ (id = kc.id => kc.id \in Acknowledged)
    PROVE  realm => id # NoId /\ (id = kc'.id => kc'.id \in Acknowledged')
  <1>1. kc'.id \in {kc.id, nextId, NoId}
    BY KeycloakMoves
  <1>2. nextId \notin Ids
    BY DEF Ids, TypeInv, TypeOK
  <1>3. nextId # NoId
    BY DEF TypeInv, TypeOK
  <1> QED
    BY <1>1, <1>2, <1>3, RealmsKept

LEMMA RealmStep == ASSUME TypeInv, CopiesTrail, RealmInv, [Next]_vars PROVE RealmInv'
  <1>1. /\ kc \in Keycloak /\ pass.kc.url \in BOOLEAN /\ pass.kc.realm \in BOOLEAN
        /\ {kc.id, seen.id, pass.kc.id} \subseteq Ids \cup {NoId}
    BY DEF TypeInv, TypeOK, PassNamed, Passes, Keycloak
  <1>2. Recorded(kc)'
    <2>1. CASE kc'.realm = kc.realm /\ kc'.id = kc.id
      BY <1>1, <2>1, RecordedKept DEF Recorded, RealmInv
    <2>2. CASE kc'.realm = FALSE
      BY <2>2 DEF Recorded
    <2>3. CASE StoreStatus /\ Accepts /\ kc'.realm = pass.kc.realm /\ kc'.id = kc.id
      <3>1. Recorded(pass.kc) /\ pass.kc.id = kc.id
        BY <2>3 DEF StoreStatus, Accepts, CopiesTrail, RealmInv
      <3> QED
        BY <1>1, <2>3, <3>1, RecordedKept DEF Recorded
    <2>4. CASE Identify /\ Accepts /\ kc'.realm = kc.realm
      <3>1. kc.id = NoId
        BY <2>4 DEF Identify, Accepts, CopiesTrail
      <3> QED
        BY <2>4, <3>1 DEF Recorded, RealmInv
    <2>5. CASE Identify
      BY <1>1, <2>1, <2>4, <2>5, NamingType DEF Identify, resource, TypeInv, TypeOK
    <2>6. CASE StoreStatus
      BY <1>1, <2>1, <2>3, <2>6, StoringType DEF StoreStatus
    <2>7. CASE UserStep
      BY <1>1, <2>1, <2>2, <2>7, UserMoves
    <2>8. UNCHANGED kc \/ Identify \/ StoreStatus \/ UserStep
      BY NextCases DEF StartPass, WorkerStep, Ensure, CheckPod, PodUnread, InstallRealm,
         Machinery, InformerSync, DeploymentSync, PodsSync, PodProgress, GarbageCollect, Report,
         Resync, Crash, resource, vars
    <2> QED
      BY <2>1, <2>5, <2>6, <2>7, <2>8
  <1>3. Recorded(seen)'
    <2>1. seen' = seen \/ seen' = kc'
      BY NextCases DEF StartPass, WorkerStep, Identify, Ensure, CheckPod, PodUnread,
         InstallRealm, StoreStatus, Machinery, InformerSync, DeploymentSync, PodsSync,
         PodProgress, GarbageCollect, Report, Resync, Crash, UserStep, UserCreate, UserEdit,
         UserDelete, caches, resource, vars
    <2> QED
      BY <1>1, <1>2, <2>1, RecordedKept DEF Recorded, RealmInv
  <1>4. pass'.pc # "realm" => Recorded(pass.kc)'
    <2>1. CASE pass' = Idle
      BY <2>1, IdleType DEF Recorded, Absent
    <2>2. CASE pass' = pass
      BY <1>1, <2>2, RecordedKept DEF Recorded, RealmInv
    <2>3. CASE pass.pc # "realm" /\ pass'.kc.id = pass.kc.id /\ pass'.kc.realm = pass.kc.realm
      BY <1>1, <2>3, RecordedKept DEF Recorded, RealmInv
    <2>4. CASE pass'.kc = seen
      BY <1>1, <2>4, RecordedKept DEF Recorded, RealmInv
    <2>5. CASE pass'.pc = "realm"
      BY <2>5
    <2>6. CASE InstallRealm
      <3>1. CASE Goto("store") /\ pass.kc.id \in Acknowledged'
        <4>1. pass'.kc = pass.kc /\ pass.kc.id # NoId /\ kc' = kc
          BY <2>6, <3>1, GotoGoesOn, StepsCovered
             DEF InstallRealm, TypeInv, PassNamed, resource
        <4> QED
          BY <3>1, <4>1 DEF Recorded
      <3> QED
        BY <2>1, <2>6, <3>1 DEF InstallRealm, Requeue, Acknowledged
    <2>7. CASE CheckPod \/ PodUnread
      BY <2>3, <2>5, <2>7, CheckPodMoves
    <2>8. ASSUME NEW k \in Kinds, Ensure(k)
          PROVE  pass'.pc # "realm" => Recorded(pass.kc)'
      <3>1. pass.pc # "realm"
        BY <2>8, StepsCovered DEF Ensure
      <3> QED
        BY <2>1, <2>3, <2>8, <3>1, EnsureMoves DEF SamePassBut
    <2>9. CASE StartPass
      <3>1. ASSUME NEW detected \in {OnOpenShift, FALSE},
                   pass' = [pc |-> FirstStep(seen), kc |-> seen, openshift |-> detected]
            PROVE  pass'.kc = seen
        BY <3>1
      <3> QED
        BY <2>1, <2>2, <2>4, <2>9, <3>1 DEF StartPass
    <2>10. \/ pass' = Idle \/ pass' = pass \/ StartPass \/ InstallRealm \/ CheckPod \/ PodUnread
           \/ \E k \in Kinds : Ensure(k)
      BY NextCases DEF WorkerStep, Identify, StoreStatus, Requeue, Settle, Machinery,
         InformerSync, DeploymentSync, PodsSync, PodProgress, GarbageCollect, Report, Resync,
         Crash, UserStep, UserCreate, UserEdit, UserDelete, vars
    <2> QED
      BY <2>1, <2>2, <2>6, <2>7, <2>8, <2>9, <2>10
  <1> QED
    BY <1>2, <1>3, <1>4 DEF RealmInv

LEMMA InitRealm == Init => RealmInv
  <1> SUFFICES ASSUME Init PROVE RealmInv
    OBVIOUS
  <1>1. ~kc.realm /\ ~seen.realm /\ ~pass.kc.realm
    BY IdleType DEF Init, Absent
  <1> QED
    BY <1>1 DEF RealmInv, Recorded

(* Whatever pod the pass looked at, and whatever copy it started from: a   *)
(* realm that the status records is on the server of that authID, or that  *)
(* server answered its creation without a body.                            *)
THEOREM RecordedRealmsAcknowledged == Spec => []RealmAcknowledged
  <1>1. TypeInv /\ CopiesTrail /\ RealmInv /\ [Next]_vars => RealmInv'
    BY RealmStep
  <1>2. RealmInv => RealmAcknowledged
    BY DEF RealmInv, Recorded, Acknowledged, RealmAcknowledged
  <1> QED
    BY <1>1, <1>2, InitRealm, TrailInvariant, PTL DEF Spec

-----------------------------------------------------------------------------
(* The deployment has what its pod needs.                                  *)

Backing == {"ServiceAccount", "UserSecret", "PVC"}

(* What of it a pass has made, or has found, when it comes to a step. *)
Made(step) ==
    CASE step = "ServiceAccount" -> {}
      [] step = "UserSecret" -> {"ServiceAccount"}
      [] step \in {"TLSSecret", "PVC"} -> {"ServiceAccount", "UserSecret"}
      [] OTHER -> Backing

(* It still is there, if the pass works for the Keycloak that is stored. *)
PassBacked ==
    pass.pc \in Kinds /\ pass.kc.id = kc.id =>
        \A k \in Made(pass.pc) : <<kc.id, k>> \in objs

LEMMA MadeGrows ==
    ASSUME NEW k \in Kinds, NEW openshift \in BOOLEAN
    PROVE  Made(After(k, openshift)) \subseteq Made(k) \cup ({k} \ {"Deployment"})
  BY DEF Made, After, Kinds, Exposures, Backing

(* The garbage collector takes nothing of the stored Keycloak. *)
LEMMA ObjectsKept ==
    ASSUME TypeInv, [Next]_vars, NEW k, <<kc.id, k>> \in objs
    PROVE  <<kc.id, k>> \in objs'
  <1>1. ASSUME NEW j \in Kinds, Ensure(j) PROVE <<kc.id, k>> \in objs'
    BY <1>1 DEF Ensure, Add
  <1>2. ASSUME NEW o \in objs, GarbageCollect(o[1]) PROVE <<kc.id, k>> \in objs'
    BY <1>2 DEF GarbageCollect
  <1>3. \/ UNCHANGED objs
        \/ \E j \in Kinds : Ensure(j)
        \/ \E o \in objs : GarbageCollect(o[1])
    BY NextCases DEF StartPass, WorkerStep, Identify, CheckPod, PodUnread, InstallRealm,
       StoreStatus, Machinery, InformerSync, DeploymentSync, PodsSync, PodProgress, Report,
       Resync, Crash, UserStep, UserCreate, UserEdit, UserDelete, vars
  <1> QED
    BY <1>1, <1>2, <1>3

(* An authID that was given out does not become the stored one later. *)
LEMMA StoredBefore ==
    ASSUME TypeInv, [Next]_vars, NEW id \in Ids, id = kc'.id
    PROVE  id = kc.id
  <1>1. kc'.id \in {kc.id, nextId, NoId}
    BY KeycloakMoves
  <1>2. nextId \notin Ids
    BY DEF Ids, TypeInv, TypeOK
  <1> QED
    BY <1>1, <1>2, IdsNamed

(* A pass that goes on from an object leaves it made. *)
LEMMA EnsuredIsThere ==
    ASSUME TypeInv, NEW k \in Kinds, Ensure(k), pass' # Idle, k # "Deployment"
    PROVE  <<pass.kc.id, k>> \in objs'
  BY DEF Ensure, Add, Found, Key, Requeue

LEMMA PassBackedStep == ASSUME TypeInv, PassBacked, [Next]_vars PROVE PassBacked'
  <1>1. pass \in Passes /\ pass.openshift \in BOOLEAN /\ pass.kc \in Keycloak
    BY DEF TypeInv, TypeOK, Passes
  <1>2. CASE pass' = Idle
    BY <1>2, IdleType, StepsCovered DEF PassBacked
  <1>3. CASE pass' = pass
    <2> SUFFICES ASSUME pass.pc \in Kinds, pass.kc.id = kc'.id
                 PROVE  \A k \in Made(pass.pc) : <<kc'.id, k>> \in objs'
      BY <1>3 DEF PassBacked
    <2>1. pass.kc.id \in Ids
      BY StepsCovered DEF TypeInv, PassNamed
    <2>2. pass.kc.id = kc.id
      BY <2>1, StoredBefore
    <2> QED
      BY <2>2, ObjectsKept DEF PassBacked
  <1>4. ASSUME NEW k \in Kinds, Ensure(k), pass' # Idle
        PROVE  PassBacked'
    <2>1. /\ kc' = kc /\ pass.pc = k /\ pass'.kc.id = pass.kc.id
          /\ pass'.pc = After(k, pass.openshift)
      BY <1>4, EnsureMoves DEF Ensure, resource, SamePassBut
    <2> SUFFICES ASSUME pass.kc.id = kc.id, NEW j \in Made(pass'.pc)
                 PROVE  <<kc.id, j>> \in objs'
      BY <2>1 DEF PassBacked
    <2>2. j \in Made(k) \/ (j = k /\ k # "Deployment")
      BY <1>1, <2>1, MadeGrows
    <2>3. CASE j \in Made(k)
      BY <2>1, <2>3, ObjectsKept DEF PassBacked
    <2>4. CASE j = k /\ k # "Deployment"
      BY <1>4, <2>4, EnsuredIsThere
    <2> QED
      BY <2>2, <2>3, <2>4
  <1>5. CASE StartPass
    <2>1. ASSUME NEW detected \in {OnOpenShift, FALSE},
                 pass' = [pc |-> FirstStep(seen), kc |-> seen, openshift |-> detected]
          PROVE  PassBacked'
      <3>1. pass'.pc \in {"identify", "ServiceAccount"}
        BY <2>1 DEF FirstStep
      <3>2. Made("ServiceAccount") = {}
        BY DEF Made
      <3> QED
        BY <3>1, <3>2, StepsCovered DEF PassBacked
    <2> QED
      BY <1>2, <1>3, <1>5, <2>1 DEF StartPass
  <1>6. CASE pass'.pc \in {"realm", "store"}
    BY <1>6, StepsCovered DEF PassBacked
  <1>7. CASE CheckPod \/ PodUnread
    BY <1>6, <1>7, CheckPodMoves
  <1>8. CASE InstallRealm
    BY <1>2, <1>6, <1>8, GotoGoesOn, StepsCovered DEF InstallRealm, Requeue
  <1>9. \/ pass' = Idle \/ pass' = pass \/ StartPass \/ InstallRealm \/ CheckPod \/ PodUnread
        \/ \E k \in Kinds : Ensure(k)
    BY NextCases DEF WorkerStep, Identify, StoreStatus, Requeue, Settle, Machinery,
       InformerSync, DeploymentSync, PodsSync, PodProgress, GarbageCollect, Report, Resync,
       Crash, UserStep, UserCreate, UserEdit, UserDelete, vars
  <1> QED
    BY <1>2, <1>3, <1>4, <1>5, <1>7, <1>8, <1>9

LEMMA PodBackedStep == ASSUME TypeInv, PassBacked, PodBacked, [Next]_vars PROVE PodBacked'
  <1> SUFFICES ASSUME <<kc'.id, "Deployment">> \in objs', NEW k \in Backing
               PROVE  <<kc'.id, k>> \in objs'
    BY DEF PodBacked, Backing
  <1>1. kc'.id = kc.id /\ kc.id \in Ids
    <2>1. TypeInv'
      BY TypeStep
    <2>2. CASE objs' \subseteq objs
      <3>1. kc'.id \in Ids
        BY <2>2 DEF TypeInv, TypeOK
      <3> QED
        BY <3>1, StoredBefore
    <2>3. ASSUME NEW j \in Kinds, Ensure(j) PROVE kc'.id = kc.id /\ kc.id \in Ids
      <3>1. kc' = kc /\ Ids' = Ids
        BY <2>3 DEF Ensure, resource, Ids
      <3> QED
        BY <2>1, <3>1 DEF TypeInv, TypeOK
    <2>4. objs' \subseteq objs \/ \E j \in Kinds : Ensure(j)
      BY NextCases DEF StartPass, WorkerStep, Identify, CheckPod, PodUnread, InstallRealm,
         StoreStatus, Machinery, InformerSync, DeploymentSync, PodsSync, PodProgress,
         GarbageCollect, Report, Resync, Crash, UserStep, UserCreate, UserEdit, UserDelete, vars
    <2> QED
      BY <2>2, <2>3, <2>4
  <1>2. CASE <<kc.id, "Deployment">> \in objs
    BY <1>1, <1>2, ObjectsKept DEF PodBacked, Backing
  <1>3. CASE <<kc.id, "Deployment">> \notin objs
    <2>1. Ensure("Deployment") /\ pass.kc.id = kc.id
      <3>1. ASSUME NEW j \in Kinds, Ensure(j) PROVE j = "Deployment" /\ pass.kc.id = kc.id
        BY <1>1, <1>3, <3>1 DEF Ensure, Add, Key
      <3>2. objs' \subseteq objs \/ \E j \in Kinds : Ensure(j)
        BY NextCases DEF StartPass, WorkerStep, Identify, CheckPod, PodUnread, InstallRealm,
           StoreStatus, Machinery, InformerSync, DeploymentSync, PodsSync, PodProgress,
           GarbageCollect, Report, Resync, Crash, UserStep, UserCreate, UserEdit, UserDelete,
           vars
      <3> QED
        BY <1>1, <1>3, <3>1, <3>2
    <2>2. pass.pc = "Deployment" /\ "Deployment" \in Kinds /\ Made("Deployment") = Backing
      BY <2>1 DEF Ensure, Made, Kinds
    <2>3. <<kc.id, k>> \in objs
      BY <2>1, <2>2 DEF PassBacked
    <2> QED
      BY <1>1, <2>3, ObjectsKept
  <1> QED
    BY <1>2, <1>3

LEMMA InitBacked == Init => PassBacked /\ PodBacked
  BY IdleType, StepsCovered DEF Init, PassBacked, PodBacked

(* The pod of a Keycloak finds its service account, its user secret and    *)
(* its volume, although the collector may be clearing an earlier Keycloak  *)
(* of the same name while the pass makes them.                             *)
THEOREM DeploymentsAreBacked == Spec => []PodBacked
  <1>1. TypeInv /\ PassBacked /\ PodBacked /\ [Next]_vars => (PassBacked /\ PodBacked)'
    BY PassBackedStep, PodBackedStep
  <1> QED
    BY <1>1, InitBacked, TrailInvariant, PTL DEF Spec

=============================================================================
