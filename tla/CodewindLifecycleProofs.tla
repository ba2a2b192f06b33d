---------------------- MODULE CodewindLifecycleProofs ----------------------
(***************************************************************************)
(* The proof that the reconciler, with everything that may go wrong around *)
(* it, keeps the promise of CodewindLifecycle. Every step does one of six  *)
(* things to the life of one Codewind, or changes the permissions in       *)
(* force, or is of no interest there; the invariants of the guard and of   *)
(* the bring-up give the abstract step its guard.                          *)
(***************************************************************************)
EXTENDS CodewindQueueProofs

(* The bindings there can be on this platform. *)
Permissions == ClusterBindings \cap Needs(OnOpenShift)

(* Nothing is left of a Codewind that is gone. *)
Blank(x) ==
    ~x.live /\ x.ws = NoWorkspace /\ x.fin = {} /\ x.deleting = FALSE /\ x.status = ""

(* The part of a Codewind the life cycle speaks of. *)
SameLife(x, y) ==
    /\ x.live = y.live /\ x.ws = y.ws /\ x.fin = y.fin
    /\ x.deleting = y.deleting /\ x.status = y.status

(* What is gone is blank, and without a guard nothing is served; no        *)
(* binding is made that the platform does not need.                        *)
LifeHolds ==
    /\ \A c \in CRs : /\ ~cr[c].live => Blank(cr[c])
                      /\ cr[c].fin = {} => cr[c].status = ""
    /\ \A o \in objs : o[2] \in ClusterBindings => o[2] \in Permissions

(* All that the steps of the life cycle rest on. *)
LifeInv ==
    /\ TypeOK /\ CopiesTrail /\ GuardHolds /\ BringUpHolds
    /\ DeletionPending /\ PassPurpose /\ LifeHolds

-----------------------------------------------------------------------------
(* What a step does to the life of Codewind c.                             *)

Appeared(c) ==
    /\ ~cr[c].live /\ cr'[c].live
    /\ cr'[c].ws = NoWorkspace /\ cr'[c].fin = {}
    /\ cr'[c].deleting = FALSE /\ cr'[c].status = ""

Identified(c) ==
    /\ cr[c].live /\ cr[c].ws = NoWorkspace
    /\ cr'[c].live /\ cr'[c].ws = nextWs /\ nextWs' = nextWs + 1
    /\ cr[c].fin = {} /\ cr'[c].fin = {}
    /\ cr'[c].deleting = cr[c].deleting /\ cr'[c].status = cr[c].status

GuardAdded(c) ==
    /\ cr[c].live /\ cr[c].ws # NoWorkspace /\ cr[c].fin = {}
    /\ cr'[c].live /\ cr'[c].ws = cr[c].ws /\ cr'[c].fin # {}
    /\ cr'[c].deleting = cr[c].deleting /\ cr'[c].status = cr[c].status

Completed(c) ==
    /\ cr[c].live /\ cr[c].ws # NoWorkspace /\ cr[c].fin # {}
    /\ ~cr[c].deleting /\ cr[c].status = ""
    /\ \A b \in Permissions : <<cr[c].ws, b>> \in objs
    /\ cr'[c].live /\ cr'[c].ws = cr[c].ws /\ cr'[c].fin = cr[c].fin
    /\ cr'[c].deleting = cr[c].deleting /\ cr'[c].status = "Complete"

DeletionAsked(c) ==
    /\ cr[c].live /\ cr[c].ws # NoWorkspace /\ cr[c].fin # {} /\ ~cr[c].deleting
    /\ cr'[c].live /\ cr'[c].ws = cr[c].ws /\ cr'[c].fin = cr[c].fin
    /\ cr'[c].deleting = TRUE /\ cr'[c].status = cr[c].status

Gone(c) ==
    /\ cr[c].live /\ (cr[c].fin = {} \/ cr[c].deleting)
    /\ \A o \in objs : o[2] \in ClusterBindings => o[1] # cr[c].ws
    /\ Blank(cr'[c])

LifeStep(c) ==
    /\ \A d \in CRs : d # c => cr'[d] = cr[d]
    /\ UNCHANGED objs
    /\ \/ Identified(c)
       \/ /\ UNCHANGED nextWs
          /\ \/ SameLife(cr'[c], cr[c]) \/ Appeared(c) \/ GuardAdded(c)
             \/ Completed(c) \/ DeletionAsked(c) \/ Gone(c)

(* What a write leaves is the life it writes, or nothing. *)
LEMMA CommitLife ==
    ASSUME cr \in [CRs -> Codewind], NEW c \in CRs, NEW new \in Codewind, Commit(c, new)
    PROVE  \/ Blank(cr'[c]) /\ new.deleting /\ new.fin = {}
           \/ SameLife(cr'[c], new)
  <1>1. Blank(Absent(new.rv + 1))
    BY DEF Absent, Blank
  <1>2. LET stored == [new EXCEPT !.rv = @ + 1] IN SameLife(stored, new)
    BY DEF Codewind, SameLife
  <1>3. SameLife(new, new)
    BY DEF SameLife
  <1> QED
    BY <1>1, <1>2, <1>3, CommitStores

LEMMA CommitOthers ==
    ASSUME cr \in [CRs -> Codewind], NEW c \in CRs, NEW new, Commit(c, new)
    PROVE  \A d \in CRs : d # c => cr'[d] = cr[d]
  BY DEF Commit

LEMMA SameStep ==
    ASSUME NEW c \in CRs, UNCHANGED <<cr, objs, nextWs>> PROVE LifeStep(c)
  BY DEF LifeStep, SameLife

-----------------------------------------------------------------------------
(* The writes of the worker, one by one.                                   *)

LEMMA IdentifyLife == ASSUME LifeInv, Identify PROVE LifeStep(pass.cr)
  <1> DEFINE c == pass.cr
             new == [cr[c] EXCEPT !.ws = nextWs]
  <1>1. /\ pass.pc = "identify" /\ pass.pc # "idle" /\ pass.cw.ws = NoWorkspace
        /\ TypeOK /\ CopiesTrail /\ GuardHolds /\ DeletionPending
    BY DEF Identify, CopiesTrail, LifeInv
  <1>2. c \in CRs /\ cr \in [CRs -> Codewind] /\ new \in Codewind /\ objs' = objs
    BY <1>1, WriteType DEF TypeOK, Identify
  <1>3. CASE UNCHANGED <<cr, nextWs>>
    BY <1>2, <1>3, SameStep
  <1>4. CASE Accepts(c, pass.cw) /\ Commit(c, new) /\ nextWs' = nextWs + 1
    <2>1. cr[c].ws = NoWorkspace /\ cr[c].live
      BY <1>1, <1>4, AcceptedAgrees DEF SameCopy
    <2>2. cr[c].fin = {} /\ ~cr[c].deleting
      BY <1>1, <1>2, <2>1 DEF GuardHolds, GuardNamed, DeletionPending
    <2>3. /\ new.live = cr[c].live /\ new.deleting = cr[c].deleting /\ new.fin = cr[c].fin
          /\ new.ws = nextWs /\ new.status = cr[c].status
      BY <1>2 DEF Codewind
    <2> HIDE DEF new
    <2>4. SameLife(cr'[c], new)
      BY <1>2, <1>4, <2>2, <2>3, CommitLife
    <2>5. Identified(c)
      BY <1>4, <2>1, <2>2, <2>3, <2>4 DEF SameLife, Identified
    <2> QED
      BY <1>2, <1>4, <2>5, CommitOthers DEF LifeStep
  <1> QED
    BY <1>3, <1>4 DEF Identify

LEMMA AddFinalizerLife == ASSUME LifeInv, AddFinalizer PROVE LifeStep(pass.cr)
  <1> DEFINE c == pass.cr
             new == [cr[c] EXCEPT !.fin = {OwnFinalizer}]
  <1>1. /\ pass.pc = "finalizer" /\ pass.pc # "idle"
        /\ TypeOK /\ CopiesTrail /\ GuardHolds
    BY DEF AddFinalizer, LifeInv
  <1>2. /\ c \in CRs /\ cr \in [CRs -> Codewind] /\ new \in Codewind
        /\ objs' = objs /\ nextWs' = nextWs
    BY <1>1, WriteType DEF TypeOK, AddFinalizer
  <1>3. CASE UNCHANGED cr
    BY <1>2, <1>3, SameStep
  <1>4. CASE pass.cw.fin = {} /\ Accepts(c, pass.cw) /\ Commit(c, new)
    <2>1. /\ cr[c].fin = {} /\ cr[c].ws # NoWorkspace /\ cr[c].live
      BY <1>1, <1>4, AcceptedAgrees DEF SameCopy, GuardHolds, PassGuarded
    <2>2. /\ new.live = cr[c].live /\ new.deleting = cr[c].deleting /\ new.fin # {}
          /\ new.ws = cr[c].ws /\ new.status = cr[c].status
      BY <1>2 DEF Codewind
    <2> HIDE DEF new
    <2>3. SameLife(cr'[c], new)
      BY <1>2, <1>4, <2>2, CommitLife
    <2>4. GuardAdded(c)
      BY <2>1, <2>2, <2>3 DEF SameLife, GuardAdded
    <2> QED
      BY <1>2, <1>4, <2>4, CommitOthers DEF LifeStep
  <1> QED
    BY <1>3, <1>4, AddFinalizerWrites

(* The status is stored by a pass that has granted every binding. *)
LEMMA PublishLife == ASSUME LifeInv, Publish PROVE LifeStep(pass.cr)
  <1> DEFINE c == pass.cr
             new == [cr[c] EXCEPT !.status = pass.cw.status, !.url = pass.cw.url]
  <1>1. /\ pass.pc = "publish" /\ pass.pc # "idle" /\ Bringing(pass)
        /\ pass.pc \in GrantSteps
        /\ TypeOK /\ CopiesTrail /\ GuardHolds /\ BringUpHolds /\ PassPurpose
    BY DEF Publish, LifeInv, Bringing, GrantSteps
  <1>2. /\ c \in CRs /\ cr \in [CRs -> Codewind] /\ new \in Codewind
        /\ objs' = objs /\ nextWs' = nextWs
    BY <1>1, WriteType DEF TypeOK, Publish
  <1>3. CASE UNCHANGED cr
    BY <1>2, <1>3, SameStep
  <1>4. CASE Accepts(c, pass.cw) /\ Commit(c, new)
    <2>1. /\ cr[c].live /\ cr[c].ws = pass.cw.ws /\ ~cr[c].deleting
      BY <1>1, <1>4, AcceptedAgrees DEF SameCopy, PassPurpose
    <2>2. cr[c].fin # {} /\ cr[c].ws # NoWorkspace
      BY <1>1, <1>2 DEF GuardHolds, PassGuarded, GuardNamed
    <2>3. pass.cw.status = "Complete"
      BY <1>1, DeploymentsLate DEF BringUpHolds, PassSound
    <2>4. \A b \in Permissions : <<cr[c].ws, b>> \in objs
      <3>1. UsedIn(cr, pass.cw.ws)
        BY <1>2, <2>1, <2>2 DEF UsedIn
      <3>2. \A k \in Needs(OnOpenShift) : PerWorkspace(pass.cw.ws, k) \in objs
        BY <1>1, <2>3, <3>1, PublishServes DEF ServedIn
      <3>3. \A b \in Permissions : b \in Needs(OnOpenShift) /\ b \notin SharedKinds
        BY DEF Permissions, ClusterBindings, SharedKinds
      <3> QED
        BY <2>1, <3>2, <3>3 DEF PerWorkspace
    <2>5. /\ new.live = cr[c].live /\ new.deleting = cr[c].deleting /\ new.fin = cr[c].fin
          /\ new.ws = cr[c].ws /\ new.status = pass.cw.status
      BY <1>2 DEF Codewind
    <2> HIDE DEF new
    <2>6. SameLife(cr'[c], new)
      BY <1>2, <1>4, <2>2, <2>5, CommitLife
    <2>7. cr[c].status = "" \/ cr[c].status = "Complete"
      BY <1>2 DEF Codewind, Statuses
    <2>8. SameLife(cr'[c], cr[c]) \/ Completed(c)
      BY <2>1, <2>2, <2>3, <2>4, <2>5, <2>6, <2>7 DEF SameLife, Completed
    <2> QED
      BY <1>2, <1>4, <2>8, CommitOthers DEF LifeStep
  <1> QED
    BY <1>3, <1>4 DEF Publish

(* The guard is lifted with no binding left, and the Codewind goes with it. *)
LEMMA ClearLife == ASSUME LifeInv, ClearFinalizers PROVE LifeStep(pass.cr)
  <1> DEFINE c == pass.cr
             new == [cr[c] EXCEPT !.fin = {}]
  <1>1. /\ pass.pc = "clear" /\ pass.pc # "idle" /\ pass.pc \in CleanupSteps
        /\ TypeOK /\ CopiesTrail /\ GuardHolds /\ PassPurpose
    BY DEF ClearFinalizers, LifeInv, CleanupSteps
  <1>2. /\ c \in CRs /\ cr \in [CRs -> Codewind] /\ new \in Codewind
        /\ objs' = objs /\ nextWs' = nextWs
    BY <1>1, WriteType DEF TypeOK, ClearFinalizers
  <1>3. CASE UNCHANGED cr
    BY <1>2, <1>3, SameStep
  <1>4. CASE Accepts(c, pass.cw) /\ Commit(c, new)
    <2>1. cr[c].live /\ cr[c].ws = pass.cw.ws /\ cr[c].deleting
      BY <1>1, <1>4, AcceptedAgrees DEF SameCopy, PassPurpose
    <2>2. \A o \in objs : o[2] \in ClusterBindings => o[1] # cr[c].ws
      BY <1>1, <2>1 DEF GuardHolds, CleanUpOrdered, BindingsOf
    <2>3. /\ new.deleting = cr[c].deleting /\ new.fin = {}
      BY <1>2 DEF Codewind
    <2> HIDE DEF new
    <2>4. cr'[c] = cr[c] \/ Blank(cr'[c])
      <3>1. Blank(Absent(new.rv + 1))
        BY DEF Absent, Blank
      <3> QED
        BY <1>2, <1>4, <2>1, <2>3, <3>1, CommitStores
    <2>5. SameLife(cr'[c], cr[c]) \/ Gone(c)
      BY <2>1, <2>2, <2>4 DEF SameLife, Gone
    <2> QED
      BY <1>2, <1>4, <2>5, CommitOthers DEF LifeStep
  <1> QED
    BY <1>3, <1>4 DEF ClearFinalizers

-----------------------------------------------------------------------------
(* What users do.                                                          *)

(* Without a guard there is no binding. *)
LEMMA UnguardedBare ==
    ASSUME LifeInv, NEW c \in CRs, cr[c].fin = {}, NEW o \in objs, o[2] \in ClusterBindings
    PROVE  o[1] # cr[c].ws
  <1>1. PICK d \in CRs : cr[d].ws = o[1] /\ cr[d].fin # {}
    BY DEF LifeInv, GuardHolds, BindingsGuarded
  <1>2. cr[d].ws # NoWorkspace
    BY <1>1 DEF LifeInv, GuardHolds, GuardNamed
  <1> QED
    BY <1>1, <1>2 DEF LifeInv, BringUpHolds, Unique

LEMMA UserLife ==
    ASSUME GuardAssumption, LifeInv, NEW c \in CRs,
           UserCreate(c) \/ UserEdit(c) \/ UserDelete(c) \/ RemoveForeign(c)
    PROVE  LifeStep(c)
  <1>1. /\ cr \in [CRs -> Codewind] /\ cr[c] \in Codewind
        /\ UNCHANGED <<objs, nextWs>>
    BY DEF LifeInv, TypeOK, UserCreate, UserEdit, UserDelete, RemoveForeign
  <1>2. CASE UserCreate(c)
    <2>1. PICK fin \in SUBSET ForeignFinalizers :
            cr' = [cr EXCEPT ![c] = [Absent(cr[c].rv + 1) EXCEPT !.live = TRUE, !.fin = fin]]
      BY <1>1, <1>2 DEF UserCreate
    <2>2. fin = {}
      BY DEF GuardAssumption
    <2>3. Appeared(c)
      BY <1>1, <1>2, <2>1, <2>2 DEF Appeared, UserCreate, Absent
    <2> QED
      BY <1>1, <2>1, <2>3 DEF LifeStep
  <1>3. CASE UserEdit(c)
    <2>1. SameLife(cr'[c], cr[c]) /\ \A d \in CRs : d # c => cr'[d] = cr[d]
      BY <1>1, <1>3 DEF UserEdit, Codewind, SameLife
    <2> QED
      BY <1>1, <2>1 DEF LifeStep
  <1>4. CASE UserDelete(c)
    <2> DEFINE new == [cr[c] EXCEPT !.deleting = TRUE]
    <2>1. /\ new \in Codewind /\ new.deleting = TRUE /\ new.live = cr[c].live
          /\ new.ws = cr[c].ws /\ new.fin = cr[c].fin /\ new.status = cr[c].status
      BY <1>1 DEF Codewind
    <2>2. Commit(c, new) /\ cr[c].live /\ ~cr[c].deleting
      BY <1>4 DEF UserDelete
    <2> HIDE DEF new
    <2>3. \A d \in CRs : d # c => cr'[d] = cr[d]
      BY <1>1, <2>2, CommitOthers
    <2>4. CASE cr[c].fin = {}
      <3>1. Blank(Absent(new.rv + 1))
        BY DEF Absent, Blank
      <3>2. Blank(cr'[c])
        BY <1>1, <2>1, <2>2, <2>4, <3>1, CommitStores
      <3>3. \A o \in objs : o[2] \in ClusterBindings => o[1] # cr[c].ws
        BY <2>4, UnguardedBare
      <3> QED
        BY <1>1, <2>2, <2>3, <2>4, <3>2, <3>3 DEF LifeStep, Gone
    <2>5. CASE cr[c].fin # {}
      <3>1. SameLife(cr'[c], new)
        BY <1>1, <2>1, <2>2, <2>5, CommitLife
      <3>2. cr[c].ws # NoWorkspace
        BY <2>5 DEF LifeInv, GuardHolds, GuardNamed
      <3>3. DeletionAsked(c)
        BY <2>1, <2>2, <2>5, <3>1, <3>2 DEF SameLife, DeletionAsked
      <3> QED
        BY <1>1, <2>3, <3>3 DEF LifeStep
    <2> QED
      BY <2>4, <2>5
  <1>5. ~RemoveForeign(c)
    BY DEF RemoveForeign, GuardAssumption
  <1> QED
    BY <1>2, <1>3, <1>4, <1>5

-----------------------------------------------------------------------------
(* What a step does to the permissions in force.                           *)

Bound == {o \in objs : o[2] \in ClusterBindings}

Granted ==
    \E c \in CRs, b \in Permissions :
        /\ cr[c].live /\ cr[c].ws # NoWorkspace /\ cr[c].fin # {}
        /\ Bound' = Bound \cup {<<cr[c].ws, b>>}

Revoked ==
    \E c \in CRs, b \in Permissions :
        cr[c].deleting /\ Bound' = Bound \ {<<cr[c].ws, b>>}

BindingStep == UNCHANGED <<cr, nextWs>> /\ (UNCHANGED Bound \/ Granted \/ Revoked)

(* A binding is created only for a Codewind that is under guard. *)
LEMMA EnsureBinds ==
    ASSUME LifeInv, NEW k \in Kinds, Ensure(k) PROVE BindingStep
  <1>1. UNCHANGED <<cr, nextWs>> /\ pass.pc = k /\ pass.pc \in GrantSteps /\ pass.pc # "idle"
    BY StepsCovered DEF Ensure, GrantSteps
  <1>2. objs' = objs \/ objs' = objs \cup {Key(k)}
    BY DEF Ensure, Add
  <1>3. CASE objs' = objs
    BY <1>1, <1>3 DEF BindingStep, Bound
  <1>4. CASE objs' = objs \cup {Key(k)} /\ k \notin ClusterBindings
    BY <1>1, <1>4, KeyOf DEF BindingStep, Bound
  <1>5. CASE objs' = objs \cup {Key(k)} /\ k \in ClusterBindings
    <2>1. pass.cr \in CRs /\ cr[pass.cr].ws = pass.cw.ws /\ cr[pass.cr].fin # {}
      BY <1>1, WriteType DEF LifeInv, GuardHolds, PassGuarded
    <2>2. cr[pass.cr].live /\ cr[pass.cr].ws # NoWorkspace
      BY <2>1 DEF LifeInv, GuardHolds, GuardNamed
    <2>3. k \in Permissions
      BY <1>1, <1>5 DEF LifeInv, BringUpHolds, PassSound, Bringing, Permissions
    <2>4. Bound' = Bound \cup {<<cr[pass.cr].ws, k>>}
      BY <1>5, <2>1, BindingKey DEF Bound
    <2> QED
      BY <1>1, <2>1, <2>2, <2>3, <2>4 DEF BindingStep, Granted
  <1> QED
    BY <1>2, <1>3, <1>4, <1>5

(* A binding is deleted only once its Codewind is being deleted. *)
LEMMA DropBinds ==
    ASSUME LifeInv, NEW step \in CleanupSteps, NEW k \in ClusterBindings, NEW next,
           DropBinding(step, k, next)
    PROVE  BindingStep
  <1>1. UNCHANGED <<cr, nextWs>> /\ pass.pc \in CleanupSteps
    BY DEF DropBinding
  <1>2. objs' = objs \/ objs' = objs \ {Key(k)}
    BY DEF DropBinding
  <1>3. CASE objs' = objs \/ Key(k) \notin objs
    BY <1>1, <1>2, <1>3 DEF BindingStep, Bound
  <1>4. CASE objs' = objs \ {Key(k)} /\ Key(k) \in objs
    <2>1. Key(k) = <<pass.cw.ws, k>>
      BY BindingKey
    <2>2. PICK c \in CRs : cr[c].ws = pass.cw.ws /\ cr[c].fin # {}
      BY <1>4, <2>1 DEF LifeInv, GuardHolds, BindingsGuarded
    <2>3. cr[c].live /\ cr[c].ws # NoWorkspace
      BY <2>2 DEF LifeInv, GuardHolds, GuardNamed
    <2>4. cr[c].deleting
      BY <1>1, <2>2, <2>3 DEF LifeInv, BringUpHolds, PassSound, UsedIn
    <2>5. k \in Permissions
      BY <1>4, KeyOf DEF LifeInv, LifeHolds
    <2>6. Bound' = Bound \ {<<cr[c].ws, k>>}
      BY <1>4, <2>1, <2>2 DEF Bound
    <2> QED
      BY <1>1, <2>4, <2>5, <2>6 DEF BindingStep, Revoked
  <1> QED
    BY <1>2, <1>3, <1>4

(* The machinery of the cluster leaves the bindings alone: no owner ties   *)
(* them to a Codewind, and nobody deletes them by hand.                    *)
LEMMA MachineryBinds ==
    ASSUME BringUpAssumption, Machinery PROVE BindingStep
  <1>1. UNCHANGED <<cr, nextWs>>
    BY MachineryWritesNothing DEF Machinery, StartPass, InformerSync, Resync, ObjectsSync,
       KeycloakProgress, GarbageCollect, LoseObject, Crash, cluster
  <1>2. ASSUME NEW o \in objs, GarbageCollect(o[1]) PROVE UNCHANGED Bound
    <2>1. \A k \in ClusterBindings : k \notin Owned
      BY BindingKey
    <2> QED
      BY <1>2, <2>1 DEF GarbageCollect, Bound
  <1>3. ASSUME NEW o \in objs PROVE ~LoseObject(o)
    BY DEF LoseObject, BringUpAssumption
  <1>4. UNCHANGED objs \/ \E o \in objs : GarbageCollect(o[1])
    BY <1>3 DEF Machinery, StartPass, InformerSync, Resync, ObjectsSync, KeycloakProgress,
       Crash, cluster
  <1>5. UNCHANGED objs => UNCHANGED Bound
    BY DEF Bound
  <1> QED
    BY <1>1, <1>2, <1>4, <1>5 DEF BindingStep

LEMMA NextLife ==
    ASSUME GuardAssumption, BringUpAssumption, LifeInv, Next
    PROVE  BindingStep \/ \E c \in CRs : LifeStep(c)
  <1>1. CASE Identify \/ AddFinalizer \/ Publish \/ ClearFinalizers
    <2>1. pass.cr \in CRs
      <3>1. pass.pc # "idle"
        BY <1>1 DEF Identify, AddFinalizer, Publish, ClearFinalizers
      <3> QED
        BY <3>1, WriteType DEF LifeInv
    <2> QED
      BY <1>1, <2>1, IdentifyLife, AddFinalizerLife, PublishLife, ClearLife
  <1>2. CASE \E k \in Kinds : Ensure(k)
    BY <1>2, EnsureBinds
  <1>3. CASE FindKeycloak \/ Register
    BY <1>3 DEF FindKeycloak, Register, cluster, BindingStep, Bound
  <1>4. CASE \/ DropBinding("dropODO", "ODOBinding", "dropTekton")
             \/ DropBinding("dropTekton", "TektonBinding", "clear")
    <2>1. "ODOBinding" \in ClusterBindings /\ "TektonBinding" \in ClusterBindings
      BY DEF ClusterBindings
    <2>2. "dropODO" \in CleanupSteps /\ "dropTekton" \in CleanupSteps
      BY DEF CleanupSteps
    <2> QED
      BY <1>4, <2>1, <2>2, DropBinds
  <1>5. CASE Machinery
    BY <1>5, MachineryBinds
  <1> QED
    BY <1>1, <1>2, <1>3, <1>4, <1>5, NextCases, UserLife DEF WorkerStep

-----------------------------------------------------------------------------
(* The invariant.                                                          *)

LEMMA LifeHoldsStep ==
    ASSUME GuardAssumption, BringUpAssumption, LifeInv, [Next]_vars
    PROVE  LifeHolds'
  <1>1. CASE UNCHANGED vars
    BY <1>1 DEF vars, LifeInv, LifeHolds, Blank
  <1>2. CASE BindingStep
    <2>1. UNCHANGED cr /\ \A o \in Bound' : o \in Bound \/ o[2] \in Permissions
      BY <1>2 DEF BindingStep, Granted, Revoked
    <2> QED
      BY <2>1 DEF LifeInv, LifeHolds, Bound, Blank
  <1>3. ASSUME NEW c \in CRs, LifeStep(c) PROVE LifeHolds'
    <2>1. /\ ~cr[c].live => Blank(cr[c])
          /\ cr[c].fin = {} => cr[c].status = ""
      BY DEF LifeInv, LifeHolds
    <2>2. /\ ~cr'[c].live => Blank(cr'[c])
          /\ cr'[c].fin = {} => cr'[c].status = ""
      BY <1>3, <2>1 DEF LifeStep, SameLife, Appeared, Identified, GuardAdded, Completed,
         DeletionAsked, Gone, Blank
    <2> QED
      BY <1>3, <2>2 DEF LifeStep, LifeInv, LifeHolds, Blank
  <1> QED
    BY <1>1, <1>2, <1>3, NextLife

LEMMA InitLife == Init => LifeHolds /\ PassPurpose /\ DeletionPending
  <1> SUFFICES ASSUME Init PROVE LifeHolds /\ PassPurpose /\ DeletionPending
    OBVIOUS
  <1>1. Blank(Absent(0))
    BY DEF Blank, Absent
  <1>2. \A c \in CRs : Blank(cr[c])
    BY <1>1 DEF Init
  <1>3. objs = {} /\ pass = Idle
    BY DEF Init
  <1> QED
    BY <1>2, <1>3, NoIdleBringing DEF LifeHolds, PassPurpose, DeletionPending, Blank

LEMMA LifeInvStep ==
    ASSUME GuardAssumption, BringUpAssumption, TypeOK', CopiesTrail', GuardHolds',
           BringUpHolds', LifeInv, [Next]_vars
    PROVE  LifeInv'
  <1>1. DeletionPending' /\ PassPurpose'
    <2>1. CASE UNCHANGED vars
      BY <2>1 DEF vars, LifeInv, DeletionPending, PassPurpose, Bringing
    <2>2. CASE Next
      BY <2>2, DeletionPendingStep, PassPurposeStep DEF LifeInv
    <2> QED
      BY <2>1, <2>2
  <1> QED
    BY <1>1, LifeHoldsStep DEF LifeInv

LEMMA LifeInvHolds ==
    ASSUME GuardAssumption, BringUpAssumption PROVE Spec => []LifeInv
  <1>1. Init /\ TypeOK /\ CopiesTrail /\ GuardHolds /\ BringUpHolds => LifeInv
    BY InitLife DEF LifeInv
  <1>2. /\ LifeInv /\ TypeOK' /\ CopiesTrail' /\ GuardHolds' /\ BringUpHolds' /\ [Next]_vars
        => LifeInv'
    BY LifeInvStep
  <1> QED
    BY <1>1, <1>2, TypeCorrect, CopiesAlwaysTrail, GuardAlwaysHolds, BringUpAlwaysHolds, PTL
       DEF Spec

-----------------------------------------------------------------------------
(* Every step is a step of the life cycle, or none.                        *)

LEMMA Phases ==
    ASSUME NEW c \in CRs
    PROVE  /\ ~cr[c].live => Phase(c) = "absent"
           /\ cr[c].live /\ cr[c].ws = NoWorkspace => Phase(c) = "requested"
           /\ cr[c].live /\ cr[c].ws # NoWorkspace /\ cr[c].fin = {} => Phase(c) = "named"
           /\ cr[c].live /\ cr[c].ws # NoWorkspace /\ cr[c].fin # {}
              => Phase(c) = IF cr[c].status = "" THEN "guarded" ELSE "served"
  BY DEF Phase

LEMMA NextPhases ==
    ASSUME NEW c \in CRs
    PROVE  /\ ~cr'[c].live => Phase(c)' = "absent"
           /\ cr'[c].live /\ cr'[c].ws = NoWorkspace => Phase(c)' = "requested"
           /\ cr'[c].live /\ cr'[c].ws # NoWorkspace /\ cr'[c].fin = {} => Phase(c)' = "named"
           /\ cr'[c].live /\ cr'[c].ws # NoWorkspace /\ cr'[c].fin # {}
              => Phase(c)' = IF cr'[c].status = "" THEN "guarded" ELSE "served"
  BY DEF Phase

(* The change of one Codewind is a change of its entries in the abstract   *)
(* state, and of those alone.                                              *)
LEMMA OneEntry ==
    ASSUME NEW c \in CRs, \A d \in CRs : d # c => cr'[d] = cr[d]
    PROVE  /\ Lifecycle!Set(c, Phase(c)')
           /\ [d \in CRs |-> cr'[d].deleting]
              = [[d \in CRs |-> cr[d].deleting] EXCEPT ![c] = cr'[c].deleting]
           /\ [d \in CRs |-> cr'[d].ws]
              = [[d \in CRs |-> cr[d].ws] EXCEPT ![c] = cr'[c].ws]
  <1>1. \A d \in CRs : d # c => Phase(d)' = Phase(d)
    BY DEF Phase
  <1>2. Lifecycle!Set(c, Phase(c)')
    BY <1>1 DEF Lifecycle!Set
  <1> QED
    BY <1>2

LEMMA SameEntry ==
    ASSUME NEW c \in CRs, \A d \in CRs : d # c => cr'[d] = cr[d]
    PROVE  /\ Phase(c)' = Phase(c) => [d \in CRs |-> Phase(d)]' = [d \in CRs |-> Phase(d)]
           /\ cr'[c].deleting = cr[c].deleting
              => [d \in CRs |-> cr'[d].deleting] = [d \in CRs |-> cr[d].deleting]
           /\ cr'[c].ws = cr[c].ws => [d \in CRs |-> cr'[d].ws] = [d \in CRs |-> cr[d].ws]
  <1>1. \A d \in CRs : d # c => Phase(d)' = Phase(d)
    BY DEF Phase
  <1> QED
    BY <1>1

LEMMA SameLifePhase ==
    ASSUME NEW c \in CRs, SameLife(cr'[c], cr[c]) PROVE Phase(c)' = Phase(c)
  BY DEF SameLife, Phase

LEMMA IdentifiedNames ==
    ASSUME LifeInv, NEW c \in CRs, \A d \in CRs : d # c => cr'[d] = cr[d],
           UNCHANGED objs, Identified(c)
    PROVE  Lifecycle!Name(c)
  <1>1. Phase(c) = "requested" /\ Phase(c)' = "named"
    <2>1. nextWs # NoWorkspace
      BY DEF LifeInv, BringUpHolds, Given, NoWorkspace
    <2> QED
      BY <2>1, Phases, NextPhases DEF Identified
  <1>2. nextWs \in Nat /\ 0 < nextWs
    BY DEF LifeInv, TypeOK, BringUpHolds, Given
  <1>3. nextWs \in Nat \ ((1 .. (nextWs - 1)) \cup {0})
    BY <1>2
  <1>4. 1 .. (nextWs + 1 - 1) = (1 .. (nextWs - 1)) \cup {nextWs}
    BY <1>2
  <1>5. /\ [d \in CRs |-> cr'[d].ws][c] = nextWs
        /\ nextWs' = nextWs + 1 /\ cr'[c].ws = nextWs
        /\ cr'[c].deleting = cr[c].deleting
    BY DEF Identified
  <1>6. Lifecycle!Set(c, "named")
    BY <1>1, OneEntry
  <1>7. [d \in CRs |-> cr'[d].deleting] = [d \in CRs |-> cr[d].deleting]
    BY <1>5, SameEntry
  <1>8. [d \in CRs |-> cr'[d].ws] = [[d \in CRs |-> cr[d].ws] EXCEPT ![c] = nextWs]
    BY <1>5, OneEntry
  <1>9. 1 .. (nextWs' - 1) = (1 .. (nextWs - 1)) \cup {nextWs}
    BY <1>4, <1>5
  <1> QED
    BY <1>1, <1>3, <1>5, <1>6, <1>7, <1>8, <1>9 DEF Lifecycle!Name

LEMMA LifeStepImplements ==
    ASSUME LifeInv, NEW c \in CRs, LifeStep(c)
    PROVE  [Lifecycle!Next]_(Lifecycle!vars)
  <1>1. /\ \A d \in CRs : d # c => cr'[d] = cr[d]
        /\ objs' = objs
    BY DEF LifeStep
  <1>2. CASE Identified(c)
    <2>1. Lifecycle!Name(c)
      BY <1>1, <1>2, IdentifiedNames
    <2> QED
      BY <2>1 DEF Lifecycle!Next
  <1>3. CASE UNCHANGED nextWs /\ SameLife(cr'[c], cr[c])
    BY <1>1, <1>3, SameLifePhase, SameEntry DEF SameLife, Lifecycle!vars
  <1>4. CASE UNCHANGED nextWs /\ Appeared(c)
    <2>1. Phase(c) = "absent" /\ Phase(c)' = "requested"
      BY <1>4, Phases, NextPhases DEF Appeared
    <2>2. cr'[c].ws = cr[c].ws /\ cr'[c].deleting = cr[c].deleting
      BY <1>4 DEF Appeared, LifeInv, LifeHolds, Blank, TypeOK, Codewind
    <2>3. Lifecycle!Request(c)
      BY <1>1, <1>4, <2>1, <2>2, OneEntry, SameEntry DEF Lifecycle!Request
    <2> QED
      BY <2>3 DEF Lifecycle!Next
  <1>5. CASE UNCHANGED nextWs /\ GuardAdded(c)
    <2>1. Phase(c) = "named" /\ Phase(c)' = "guarded"
      BY <1>5, Phases, NextPhases DEF GuardAdded, LifeInv, LifeHolds
    <2>2. Lifecycle!Guard(c)
      BY <1>1, <1>5, <2>1, OneEntry, SameEntry DEF Lifecycle!Guard, GuardAdded
    <2> QED
      BY <2>2 DEF Lifecycle!Next
  <1>6. CASE UNCHANGED nextWs /\ Completed(c)
    <2>1. Phase(c) = "guarded" /\ Phase(c)' = "served"
      BY <1>6, Phases, NextPhases DEF Completed
    <2>2. /\ ~cr[c].deleting /\ cr'[c].ws = cr[c].ws /\ cr'[c].deleting = cr[c].deleting
          /\ \A b \in Permissions : <<cr[c].ws, b>> \in objs
      BY <1>6 DEF Completed, LifeInv, TypeOK, Codewind
    <2>3. Lifecycle!Serve(c)
      BY <1>1, <1>6, <2>1, <2>2, OneEntry, SameEntry DEF Lifecycle!Serve, Permissions
    <2> QED
      BY <2>3 DEF Lifecycle!Next
  <1>7. CASE UNCHANGED nextWs /\ DeletionAsked(c)
    <2>1. Phase(c)' = Phase(c) /\ Phase(c) \in {"guarded", "served"}
      BY <1>7, Phases, NextPhases DEF DeletionAsked
    <2>2. Lifecycle!AskDeletion(c)
      BY <1>1, <1>7, <2>1, OneEntry, SameEntry
         DEF Lifecycle!AskDeletion, Lifecycle!Guarded, DeletionAsked
    <2> QED
      BY <2>2 DEF Lifecycle!Next
  <1>8. CASE UNCHANGED nextWs /\ Gone(c)
    <2>1. Phase(c)' = "absent" /\ (Phase(c) \in {"requested", "named"} \/ cr[c].deleting)
      BY <1>8, Phases, NextPhases DEF Gone, Blank
    <2>2. cr'[c].ws = 0 /\ cr'[c].deleting = FALSE
      BY <1>8 DEF Gone, Blank, NoWorkspace
    <2>3. \A o \in objs : o[2] \in ClusterBindings => o[1] # cr[c].ws
      BY <1>8 DEF Gone
    <2>4. Lifecycle!Vanish(c)
      BY <1>1, <1>8, <2>1, <2>2, <2>3, OneEntry DEF Lifecycle!Vanish
    <2> QED
      BY <2>4 DEF Lifecycle!Next
  <1> QED
    BY <1>2, <1>3, <1>4, <1>5, <1>6, <1>7, <1>8 DEF LifeStep

LEMMA BindingStepImplements ==
    ASSUME LifeInv, BindingStep
    PROVE  [Lifecycle!Next]_(Lifecycle!vars)
  <1>1. UNCHANGED <<cr, nextWs>>
    BY DEF BindingStep
  <1>2. [d \in CRs |-> Phase(d)]' = [d \in CRs |-> Phase(d)]
    BY <1>1 DEF Phase
  <1>3. CASE UNCHANGED Bound
    BY <1>1, <1>2, <1>3 DEF Lifecycle!vars, Bound
  <1>4. CASE Granted
    <2>1. PICK c \in CRs, b \in Permissions :
            /\ cr[c].live /\ cr[c].ws # NoWorkspace /\ cr[c].fin # {}
            /\ Bound' = Bound \cup {<<cr[c].ws, b>>}
      BY <1>4 DEF Granted
    <2>2. Phase(c) \in {"guarded", "served"}
      BY <2>1, Phases
    <2>3. Lifecycle!Grant(c, b)
      BY <1>1, <1>2, <2>1, <2>2 DEF Lifecycle!Grant, Lifecycle!Guarded, Bound
    <2> QED
      BY <2>1, <2>3 DEF Lifecycle!Next, Permissions
  <1>5. CASE Revoked
    <2>1. PICK c \in CRs, b \in Permissions :
            cr[c].deleting /\ Bound' = Bound \ {<<cr[c].ws, b>>}
      BY <1>5 DEF Revoked
    <2>2. Lifecycle!Revoke(c, b)
      BY <1>1, <1>2, <2>1 DEF Lifecycle!Revoke, Bound
    <2> QED
      BY <2>1, <2>2 DEF Lifecycle!Next, Permissions
  <1> QED
    BY <1>3, <1>4, <1>5 DEF BindingStep

LEMMA StutteringLife == ASSUME UNCHANGED vars PROVE UNCHANGED Lifecycle!vars
  BY DEF vars, Lifecycle!vars, Phase

LEMMA InitLifecycle == Init => Lifecycle!Init
  <1> SUFFICES ASSUME Init PROVE Lifecycle!Init
    OBVIOUS
  <1>1. \A c \in CRs : ~cr[c].live /\ cr[c].deleting = FALSE /\ cr[c].ws = 0
    BY DEF Init, Absent, NoWorkspace
  <1>2. \A c \in CRs : Phase(c) = "absent"
    BY <1>1, Phases
  <1>3. objs = {} /\ nextWs = 1
    BY DEF Init, NoWorkspace
  <1>4. 1 .. (nextWs - 1) = {}
    BY <1>3
  <1> QED
    BY <1>1, <1>2, <1>3, <1>4 DEF Lifecycle!Init

(* Through stale copies, conflicts, lost answers and crashes, the          *)
(* reconciler keeps the promise of CodewindLifecycle: named once, granted  *)
(* under guard, served with its bindings, gone with nothing left in force. *)
THEOREM ReconcilerKeepsLifecycle ==
    ASSUME GuardAssumption, BringUpAssumption PROVE Spec => ImplementsLifecycle
  <1>1. Init => Lifecycle!Init
    BY InitLifecycle
  <1>2. LifeInv /\ [Next]_vars => [Lifecycle!Next]_(Lifecycle!vars)
    BY NextLife, LifeStepImplements, BindingStepImplements, StutteringLife
  <1> QED
    BY <1>1, <1>2, LifeInvHolds, PTL DEF Spec, ImplementsLifecycle, Lifecycle!Spec
=============================================================================
