------------------------ MODULE CodewindGuardProofs ------------------------
(***************************************************************************)
(* Proofs of the two promises about workspaces that hold through stale     *)
(* copies, conflicts, lost answers and crashes: a workspace id never       *)
(* changes, and no cluster role binding outlives its Codewind.  The second *)
(* needs that no other party uses finalizers on Codewinds, and that the    *)
(* cluster role bindings are read reliably when a Codewind is deleted.     *)
(***************************************************************************)
EXTENDS CodewindControllerProofs

(* Every change of a stored Codewind moves its revision. *)
Moved(c) == cr'[c] = cr[c] \/ cr'[c].rv = cr[c].rv + 1

(* What a copy says of the fields the API server compares revisions for. *)
SameCopy(x, y) ==
    /\ x.rv = y.rv /\ x.live = y.live /\ x.ws = y.ws
    /\ x.fin = y.fin /\ x.deleting = y.deleting

-----------------------------------------------------------------------------
(* Copies trail the stored Codewind.                                       *)

LEMMA StoredMoves == ASSUME NEW new \in Codewind PROVE Stored(new).rv = new.rv + 1
  BY DEF Stored, Codewind, Absent

LEMMA CommitMoves ==
    ASSUME cr \in [CRs -> Codewind], NEW c \in CRs, NEW new \in Codewind,
           new.rv = cr[c].rv, Commit(c, new)
    PROVE  \A d \in CRs : Moved(d) /\ (d # c => cr'[d] = cr[d])
  BY StoredMoves DEF Commit, Moved

(* The worker writes through Commit, and only the Codewind of its pass. *)
LEMMA WorkerMoves ==
    ASSUME TypeOK, WorkerStep
    PROVE  \A d \in CRs : Moved(d) /\ (d # pass.cr => cr'[d] = cr[d])
  <1>1. CASE UNCHANGED cr
    BY <1>1 DEF Moved
  <1>2. ASSUME pass.pc # "idle"
        PROVE  /\ [cr[pass.cr] EXCEPT !.ws = nextWs].rv = cr[pass.cr].rv
               /\ [cr[pass.cr] EXCEPT !.fin = {OwnFinalizer}].rv = cr[pass.cr].rv
               /\ [cr[pass.cr] EXCEPT !.fin = {}].rv = cr[pass.cr].rv
               /\ [cr[pass.cr] EXCEPT !.status = pass.cw.status,
                                      !.url = pass.cw.url].rv = cr[pass.cr].rv
    BY <1>2, WriteType DEF Codewind
  <1>3. CASE Identify
    <2>1. Commit(pass.cr, [cr[pass.cr] EXCEPT !.ws = nextWs]) \/ UNCHANGED cr
      BY <1>3 DEF Identify
    <2> QED
      BY <1>1, <1>2, <1>3, <2>1, WriteType, CommitMoves DEF Identify, TypeOK
  <1>4. CASE AddFinalizer
    <2>1. Commit(pass.cr, [cr[pass.cr] EXCEPT !.fin = {OwnFinalizer}]) \/ UNCHANGED cr
      BY <1>4 DEF AddFinalizer
    <2> QED
      BY <1>1, <1>2, <1>4, <2>1, WriteType, CommitMoves DEF AddFinalizer, TypeOK
  <1>5. CASE Publish
    <2>1. \/ Commit(pass.cr, [cr[pass.cr] EXCEPT !.status = pass.cw.status,
                                                 !.url = pass.cw.url])
          \/ UNCHANGED cr
      BY <1>5 DEF Publish
    <2> QED
      BY <1>1, <1>2, <1>5, <2>1, WriteType, CommitMoves DEF Publish, TypeOK
  <1>6. CASE ClearFinalizers
    <2>1. Commit(pass.cr, [cr[pass.cr] EXCEPT !.fin = {}]) \/ UNCHANGED cr
      BY <1>6 DEF ClearFinalizers
    <2> QED
      BY <1>1, <1>2, <1>6, <2>1, WriteType, CommitMoves DEF ClearFinalizers, TypeOK
  <1>7. CASE FindKeycloak \/ Register
    BY <1>1, <1>7 DEF FindKeycloak, Register, cluster
  <1>8. ASSUME NEW k \in Kinds, Ensure(k)
        PROVE  UNCHANGED cr
    BY <1>8 DEF Ensure
  <1>9. ASSUME NEW step, NEW k, NEW next, DropBinding(step, k, next)
        PROVE  UNCHANGED cr
    BY <1>9 DEF DropBinding
  <1> QED
    BY <1>1, <1>3, <1>4, <1>5, <1>6, <1>7, <1>8, <1>9 DEF WorkerStep

LEMMA UserMoves ==
    ASSUME TypeOK, NEW c \in CRs, UserCreate(c) \/ UserEdit(c) \/ UserDelete(c) \/ RemoveForeign(c)
    PROVE  \A d \in CRs : Moved(d) /\ (d # c => cr'[d] = cr[d])
  <1>1. cr \in [CRs -> Codewind] /\ cr[c] \in Codewind
    BY DEF TypeOK
  <1>2. CASE UserCreate(c)
    <2>1. PICK fin \in SUBSET ForeignFinalizers :
            cr' = [cr EXCEPT ![c] = [Absent(cr[c].rv + 1) EXCEPT !.live = TRUE, !.fin = fin]]
      BY <1>1, <1>2 DEF UserCreate
    <2> QED
      BY <1>1, <2>1 DEF Moved, Absent
  <1>3. CASE UserEdit(c)
    BY <1>1, <1>3 DEF UserEdit, Moved, Codewind
  <1>4. CASE UserDelete(c)
    <2>1. /\ [cr[c] EXCEPT !.deleting = TRUE] \in Codewind
          /\ [cr[c] EXCEPT !.deleting = TRUE].rv = cr[c].rv
      BY <1>1 DEF Codewind
    <2> QED
      BY <1>1, <1>4, <2>1, CommitMoves DEF UserDelete
  <1>5. CASE RemoveForeign(c)
    <2>1. cr[c].fin \ ForeignFinalizers \in SUBSET Finalizers
      BY <1>1 DEF Codewind
    <2>2. /\ [cr[c] EXCEPT !.fin = @ \ ForeignFinalizers] \in Codewind
          /\ [cr[c] EXCEPT !.fin = @ \ ForeignFinalizers].rv = cr[c].rv
      BY <1>1, <2>1 DEF Codewind
    <2> QED
      BY <1>1, <1>5, <2>2, CommitMoves DEF RemoveForeign
  <1> QED
    BY <1>2, <1>3, <1>4, <1>5

(* What neither the worker nor a user does leaves the stored Codewinds alone. *)
Machinery ==
    \/ \E c \in CRs : StartPass(c) \/ InformerSync(c) \/ Resync(c)
    \/ \E i \in Lagging : ObjectsSync(i)
    \/ KeycloakProgress
    \/ \E o \in objs : GarbageCollect(o[1]) \/ LoseObject(o)
    \/ Crash

LEMMA MachineryWritesNothing == ASSUME Machinery PROVE UNCHANGED cr
  BY DEF Machinery, StartPass, InformerSync, Resync, ObjectsSync, KeycloakProgress,
         GarbageCollect, LoseObject, Crash, cluster

LEMMA NextCases ==
    ASSUME Next
    PROVE  \/ WorkerStep
           \/ \E c \in CRs : UserCreate(c) \/ UserEdit(c) \/ UserDelete(c) \/ RemoveForeign(c)
           \/ Machinery
  BY DEF Next, Machinery

LEMMA NextMoves == ASSUME TypeOK, Next PROVE \A d \in CRs : Moved(d)
  BY NextCases, WorkerMoves, UserMoves, MachineryWritesNothing DEF Moved

LEMMA TrailsMoved ==
    ASSUME NEW x \in Codewind, NEW y \in Codewind, NEW z \in Codewind,
           Trails(x, y), z = y \/ z.rv = y.rv + 1
    PROVE  Trails(x, z)
  <1>1. x.rv \in Nat /\ y.rv \in Nat /\ z.rv \in Nat
    BY DEF Codewind
  <1>2. CASE z = y
    BY <1>2
  <1>3. CASE z.rv = y.rv + 1
    BY <1>1, <1>3 DEF Trails
  <1> QED
    BY <1>2, <1>3

LEMMA TrailsReflexive == ASSUME NEW x \in Codewind PROVE Trails(x, x)
  BY DEF Trails, Codewind

LEMMA TrailsSame ==
    ASSUME NEW x, NEW y, NEW z, SameCopy(x, y), Trails(x, z)
    PROVE  Trails(y, z)
  BY DEF SameCopy, Trails

LEMMA AdvanceKeepsCopy ==
    ASSUME pass \in Passes, pass.pc \in BringUpSteps, Advance
    PROVE  pass'.pc \in GrantSteps /\ pass'.cr = pass.cr /\ SameCopy(pass.cw, pass'.cw)
  BY AdvanceType DEF SameCopy

(* How a step of the worker may leave its pass: ended, gone on with what   *)
(* it knows of its Codewind, or with the answer of its accepted write.     *)
WentOn(steps) ==
    /\ pass'.pc \in steps /\ pass'.cr = pass.cr
    /\ SameCopy(pass.cw, pass'.cw)

WroteOn ==
    /\ pass.pc = "finalizer" /\ pass'.pc \in GrantSteps
    /\ pass'.cr = pass.cr /\ pass'.cw = cr'[pass.cr]

LEMMA EnsuredPass ==
    ASSUME TypeOK, NEW k \in Kinds, pass.pc = k, Ensured(k)
    PROVE  pass' = Idle \/ WentOn(GrantSteps)
  <1>1. pass.pc # "idle" /\ pass \in Passes /\ pass.pc \in BringUpSteps
    BY StepsCovered, StepTypes DEF TypeOK
  <1>2. CASE Requeue
    BY <1>2 DEF Requeue
  <1>3. CASE Advance
    BY <1>3, <1>1, AdvanceKeepsCopy DEF WentOn
  <1>4. CASE pass' = [pass EXCEPT !.pc = "publish", !.cw.url = TRUE]
    <2>1. pass.cw \in Codewind /\ "publish" \in GrantSteps
      BY <1>1, WriteType DEF GrantSteps
    <2>2. pass' = [pass EXCEPT !.pc = "publish", !.cw = [pass.cw EXCEPT !.url = TRUE]]
      BY <1>4, <1>1 DEF Passes
    <2>3. SameCopy(pass.cw, [pass.cw EXCEPT !.url = TRUE])
      BY <2>1 DEF SameCopy, Codewind
    <2> QED
      BY <1>1, <2>1, <2>2, <2>3 DEF WentOn, Passes
  <1> QED
    BY <1>2, <1>3, <1>4 DEF Ensured

LEMMA EnsurePass ==
    ASSUME TypeOK, NEW k \in Kinds, Ensure(k)
    PROVE  pass' = Idle \/ WentOn(GrantSteps)
  <1>1. pass.pc = k /\ pass \in Passes /\ pass.pc \in BringUpSteps
    BY StepTypes DEF Ensure, TypeOK
  <1>2. CASE Advance
    BY <1>2, <1>1, AdvanceKeepsCopy DEF WentOn
  <1>3. CASE Requeue
    BY <1>3 DEF Requeue
  <1>4. CASE Ensured(k)
    BY <1>4, <1>1, EnsuredPass
  <1> QED
    BY <1>2, <1>3, <1>4 DEF Ensure

LEMMA RegisterPass ==
    ASSUME TypeOK, Register
    PROVE  pass' = Idle \/ WentOn(GrantSteps)
  <1>1. pass.pc = "register" /\ pass.pc # "idle" /\ pass \in Passes /\ pass.pc \in BringUpSteps
    BY StepTypes DEF Register, TypeOK
  <1>2. CASE Advance
    BY <1>2, <1>1, AdvanceKeepsCopy DEF WentOn
  <1>3. CASE Requeue
    BY <1>3 DEF Requeue
  <1>4. CASE pass' = [pass EXCEPT !.pc = After(@, pass.openshift),
                                  !.cw.status = "Complete", !.key = TRUE]
    <2>1. pass.cw \in Codewind
      BY <1>1, WriteType
    <2>2. After(pass.pc, pass.openshift) \in GrantSteps
      BY <1>1, AfterGrants DEF Passes
    <2>3. pass' = [pass EXCEPT !.pc = After(pass.pc, pass.openshift),
                               !.cw = [pass.cw EXCEPT !.status = "Complete"],
                               !.key = TRUE]
      BY <1>1, <1>4 DEF Passes
    <2>4. SameCopy(pass.cw, [pass.cw EXCEPT !.status = "Complete"])
      BY <2>1 DEF SameCopy, Codewind
    <2> QED
      BY <1>1, <2>2, <2>3, <2>4 DEF WentOn, Passes
  <1> QED
    BY <1>2, <1>3, <1>4 DEF Register

LEMMA AddFinalizerPass ==
    ASSUME TypeOK, AddFinalizer
    PROVE  \/ pass' = Idle
           \/ /\ pass.cw.fin # {} /\ UNCHANGED cr
              /\ pass.pc = "finalizer" /\ WentOn(GrantSteps)
           \/ /\ pass.cw.fin = {} /\ Accepts(pass.cr, pass.cw)
              /\ Commit(pass.cr, [cr[pass.cr] EXCEPT !.fin = {OwnFinalizer}])
              /\ WroteOn
  <1>1. pass.pc = "finalizer" /\ pass.pc # "idle" /\ pass \in Passes /\ pass.pc \in BringUpSteps
    BY StepTypes DEF AddFinalizer, TypeOK
  <1>2. CASE Requeue
    BY <1>2 DEF Requeue
  <1>3. CASE pass.cw.fin # {} /\ Advance /\ UNCHANGED cr
    BY <1>3, <1>1, AdvanceKeepsCopy DEF WentOn
  <1>4. CASE /\ pass.cw.fin = {} /\ Accepts(pass.cr, pass.cw)
             /\ Commit(pass.cr, [cr[pass.cr] EXCEPT !.fin = {OwnFinalizer}])
             /\ pass' = [pass EXCEPT !.pc = After(@, pass.openshift), !.cw = cr'[pass.cr]]
    <2>1. After(pass.pc, pass.openshift) \in GrantSteps
      BY <1>1, AfterGrants DEF Passes
    <2> QED
      BY <1>1, <1>4, <2>1 DEF WroteOn, Passes
  <1> QED
    BY <1>2, <1>3, <1>4 DEF AddFinalizer

LEMMA WorkerPass ==
    ASSUME TypeOK, WorkerStep
    PROVE  pass' = Idle \/ WentOn(GrantSteps \cup CleanupSteps) \/ WroteOn
  <1>1. CASE Identify
    BY <1>1 DEF Identify, Requeue
  <1>2. CASE AddFinalizer
    BY <1>2, AddFinalizerPass DEF WentOn
  <1>3. ASSUME NEW k \in Kinds, Ensure(k)
        PROVE  pass' = Idle \/ WentOn(GrantSteps)
    BY <1>3, EnsurePass
  <1>4. CASE FindKeycloak
    <2>1. pass \in Passes /\ pass.pc \in BringUpSteps
      BY <1>4, StepTypes DEF FindKeycloak, TypeOK
    <2> QED
      BY <1>4, <2>1, AdvanceKeepsCopy DEF FindKeycloak, Requeue, WentOn
  <1>5. CASE Register
    BY <1>5, RegisterPass DEF WentOn
  <1>6. CASE Publish \/ ClearFinalizers
    BY <1>6 DEF Publish, ClearFinalizers, Settle, Requeue
  <1>7. ASSUME NEW step, NEW k, NEW next \in CleanupSteps, DropBinding(step, k, next)
        PROVE  pass' = Idle \/ WentOn(CleanupSteps)
    BY <1>7, GotoType, StepsCovered DEF DropBinding, Settle, TypeOK, WentOn, SameCopy
  <1>8. \A s : WentOn(s) /\ s \subseteq GrantSteps \cup CleanupSteps
               => WentOn(GrantSteps \cup CleanupSteps)
    BY DEF WentOn
  <1> QED
    BY <1>1, <1>2, <1>3, <1>4, <1>5, <1>6, <1>7, <1>8, StepTypes DEF WorkerStep

LEMMA SeenTrails ==
    ASSUME TypeOK, TypeOK', CopiesTrail, Next
    PROVE  (\A c \in CRs : Trails(seen[c], cr[c]))'
  <1>1. ASSUME NEW c \in CRs PROVE Trails(seen[c], cr'[c])
    <2>1. /\ seen[c] \in Codewind /\ cr[c] \in Codewind /\ cr'[c] \in Codewind
          /\ Trails(seen[c], cr[c])
      BY DEF TypeOK, CopiesTrail
    <2>2. cr'[c] = cr[c] \/ cr'[c].rv = cr[c].rv + 1
      BY NextMoves DEF Moved
    <2> QED
      BY <2>1, <2>2, TrailsMoved
  <1>2. ASSUME NEW c \in CRs PROVE Trails(cr[c], cr[c])
    BY TrailsReflexive DEF TypeOK
  <1>3. CASE UNCHANGED seen
    BY <1>1, <1>3
  <1>4. ASSUME NEW c \in CRs, InformerSync(c)
        PROVE  (\A d \in CRs : Trails(seen[d], cr[d]))'
    <2>1. seen' = [seen EXCEPT ![c] = cr[c]] /\ UNCHANGED cr
      BY <1>4 DEF InformerSync, cluster
    <2>2. seen \in [CRs -> Codewind]
      BY DEF TypeOK
    <2> QED
      BY <1>1, <1>2, <2>1, <2>2
  <1>5. CASE Crash
    BY <1>2, <1>5 DEF Crash, cluster
  <1>6. WorkerStep => UNCHANGED seen
    BY DEF WorkerStep, Identify, AddFinalizer, Ensure, FindKeycloak, Register, Publish,
           DropBinding, ClearFinalizers, caches
  <1>7. ASSUME NEW c \in CRs, UserCreate(c) \/ UserEdit(c) \/ UserDelete(c) \/ RemoveForeign(c)
        PROVE  UNCHANGED seen
    BY <1>7 DEF UserCreate, UserEdit, UserDelete, RemoveForeign, caches
  <1>8. Machinery => UNCHANGED seen \/ Crash \/ \E c \in CRs : InformerSync(c)
    BY DEF Machinery, StartPass, Resync, ObjectsSync, KeycloakProgress, GarbageCollect,
           LoseObject, caches
  <1> QED
    BY <1>3, <1>4, <1>5, <1>6, <1>7, <1>8, NextCases

LEMMA IdentifySteps == "identify" \notin GrantSteps /\ "identify" \notin CleanupSteps
  BY DEF GrantSteps, CleanupSteps, Kinds, SharedKinds, ClusterBindings, Owned, Deployments,
         Exposures

LEMMA StartPassCases ==
    ASSUME NEW c \in CRs, StartPass(c)
    PROVE  \/ UNCHANGED pass
           \/ pass' = Idle
           \/ pass'.pc = FirstStep(seen[c]) /\ pass'.cr = c /\ pass'.cw = seen[c]
  <1>1. \/ UNCHANGED pass
        \/ \E detected \in {OnOpenShift, FALSE} :
              pass' = IF seen[c].live
                      THEN [pc |-> FirstStep(seen[c]), cr |-> c, cw |-> seen[c],
                            openshift |-> detected, key |-> FALSE]
                      ELSE Idle
    BY DEF StartPass
  <1> QED
    BY <1>1

(* Only the worker, the start of a pass and a crash touch the pass. *)
LEMMA PassKept ==
    ASSUME Next, pass' # pass
    PROVE  WorkerStep \/ pass' = Idle \/ \E c \in CRs : StartPass(c)
  BY DEF Next, UserCreate, UserEdit, UserDelete, RemoveForeign, InformerSync, Resync,
         ObjectsSync, KeycloakProgress, GarbageCollect, LoseObject, Crash

LEMMA PassTrails ==
    ASSUME TypeOK, TypeOK', CopiesTrail, Next
    PROVE  (/\ pass.pc # "idle" => Trails(pass.cw, cr[pass.cr])
            /\ pass.pc = "identify" => pass.cw.ws = NoWorkspace)'
  <1>1. CASE pass' = Idle
    BY <1>1, IdlePc
  <1>2. ASSUME pass.pc # "idle"
        PROVE  Trails(pass.cw, cr'[pass.cr])
    <2>1. pass.cr \in CRs /\ pass.cw \in Codewind /\ cr[pass.cr] \in Codewind
      BY <1>2, WriteType
    <2>2. cr'[pass.cr] \in Codewind /\ Trails(pass.cw, cr[pass.cr])
      BY <1>2, <2>1 DEF TypeOK, CopiesTrail
    <2>3. cr'[pass.cr] = cr[pass.cr] \/ cr'[pass.cr].rv = cr[pass.cr].rv + 1
      BY <2>1, NextMoves DEF Moved
    <2> QED
      BY <2>1, <2>2, <2>3, TrailsMoved
  <1>3. CASE pass' = pass
    BY <1>2, <1>3 DEF CopiesTrail
  <1>4. CASE WorkerStep
    <2>1. pass.pc # "idle"
      BY <1>4, StepsCovered DEF WorkerStep, Identify, AddFinalizer, Ensure, FindKeycloak,
         Register, Publish, DropBinding, ClearFinalizers
    <2>2. CASE WentOn(GrantSteps \cup CleanupSteps)
      <3>1. Trails(pass'.cw, cr'[pass.cr])
        BY <1>2, <2>1, <2>2, TrailsSame DEF WentOn
      <3> QED
        BY <2>2, <3>1, IdentifySteps DEF WentOn
    <2>3. CASE WroteOn
      <3>1. cr'[pass.cr] \in Codewind
        BY <2>1, WriteType DEF TypeOK
      <3> QED
        BY <2>3, <3>1, TrailsReflexive, IdentifySteps DEF WroteOn
    <2> QED
      BY <1>1, <1>4, <2>2, <2>3, WorkerPass
  <1>5. ASSUME NEW c \in CRs, StartPass(c)
        PROVE  (/\ pass.pc # "idle" => Trails(pass.cw, cr[pass.cr])
                /\ pass.pc = "identify" => pass.cw.ws = NoWorkspace)'
    <2>1. UNCHANGED cr
      BY <1>5 DEF StartPass, cluster
    <2>2. CASE pass'.pc = FirstStep(seen[c]) /\ pass'.cr = c /\ pass'.cw = seen[c]
      BY <1>5, <2>1, <2>2 DEF CopiesTrail, FirstStep
    <2> QED
      BY <1>1, <1>3, <1>5, <2>2, StartPassCases
  <1> QED
    BY <1>1, <1>3, <1>4, <1>5, PassKept

LEMMA CopiesTrailStep == ASSUME TypeOK, TypeOK', CopiesTrail, [Next]_vars PROVE CopiesTrail'
  <1>1. CASE UNCHANGED vars
    BY <1>1 DEF vars, CopiesTrail
  <1>2. CASE Next
    BY <1>2, SeenTrails, PassTrails DEF CopiesTrail
  <1> QED
    BY <1>1, <1>2

LEMMA InitCopiesTrail == Init => CopiesTrail
  <1> SUFFICES ASSUME Init PROVE CopiesTrail
    OBVIOUS
  <1>1. Trails(Absent(0), Absent(0))
    BY AbsentType, TrailsReflexive
  <1> QED
    BY <1>1, IdlePc DEF Init, CopiesTrail

(* A copy is never ahead of the stored Codewind, and one that carries the  *)
(* stored revision agrees with it, so that the revision check of the API   *)
(* server is enough to keep every write of a stale copy out.               *)
THEOREM CopiesAlwaysTrail == Spec => []CopiesTrail
  BY InitCopiesTrail, CopiesTrailStep, TypeCorrect, PTL DEF Spec

-----------------------------------------------------------------------------
(* A workspace id never changes.                                           *)

(* An accepted write is built on a copy that agrees with what is stored. *)
LEMMA AcceptedAgrees ==
    ASSUME CopiesTrail, pass.pc # "idle", Accepts(pass.cr, pass.cw)
    PROVE  SameCopy(pass.cw, cr[pass.cr]) /\ cr[pass.cr].live
  BY DEF Accepts, CopiesTrail, Trails, SameCopy

LEMMA CommitStores ==
    ASSUME cr \in [CRs -> Codewind], NEW c \in CRs, NEW new \in Codewind, Commit(c, new)
    PROVE  \/ cr'[c] = cr[c] /\ new = cr[c]
           \/ cr'[c] = Absent(new.rv + 1) /\ new.deleting /\ new.fin = {}
           \/ cr'[c] = [new EXCEPT !.rv = @ + 1] /\ ~(new.deleting /\ new.fin = {})
  BY DEF Commit, Stored

(* What a write that keeps the workspace id leaves: the id, or nothing. *)
LEMMA CommitKeepsWs ==
    ASSUME cr \in [CRs -> Codewind], NEW c \in CRs, NEW new \in Codewind, Commit(c, new),
           new.ws = cr[c].ws
    PROVE  cr'[c].live => cr'[c].ws = cr[c].ws
  <1>1. ~Absent(new.rv + 1).live
    BY DEF Absent
  <1>2. [new EXCEPT !.rv = @ + 1].ws = new.ws
    BY DEF Codewind
  <1> QED
    BY <1>1, <1>2, CommitStores

LEMMA WorkerKeepsWs ==
    ASSUME TypeOK, CopiesTrail, WorkerStep, NEW c \in CRs, cr[c].live, cr'[c].live,
           cr[c].ws # NoWorkspace
    PROVE  cr'[c].ws = cr[c].ws
  <1>1. CASE cr'[c] = cr[c]
    BY <1>1
  <1>2. CASE c = pass.cr
    <2>1. cr \in [CRs -> Codewind] /\ pass.pc # "idle"
      BY <1>2, NoCodewindAssumption DEF TypeOK
    <2>2. CASE Identify
      <3>1. UNCHANGED cr \/ Accepts(pass.cr, pass.cw)
        BY <2>2 DEF Identify
      <3>2. pass.cw.ws = NoWorkspace
        BY <2>2 DEF Identify, CopiesTrail
      <3> QED
        BY <1>1, <1>2, <2>1, <3>1, <3>2, AcceptedAgrees DEF SameCopy
    <2>3. /\ [cr[c] EXCEPT !.fin = {OwnFinalizer}].ws = cr[c].ws
          /\ [cr[c] EXCEPT !.fin = {}].ws = cr[c].ws
          /\ [cr[c] EXCEPT !.status = pass.cw.status, !.url = pass.cw.url].ws = cr[c].ws
      BY <2>1 DEF Codewind
    <2>4. CASE \/ Commit(c, [cr[c] EXCEPT !.fin = {OwnFinalizer}])
               \/ Commit(c, [cr[c] EXCEPT !.fin = {}])
               \/ Commit(c, [cr[c] EXCEPT !.status = pass.cw.status, !.url = pass.cw.url])
      BY <1>2, <2>1, <2>3, <2>4, WriteType, CommitKeepsWs
    <2>5. CASE AddFinalizer
      BY <1>1, <1>2, <2>4, <2>5 DEF AddFinalizer
    <2>6. CASE Publish
      BY <1>1, <1>2, <2>4, <2>6 DEF Publish
    <2>7. CASE ClearFinalizers
      BY <1>1, <1>2, <2>4, <2>7 DEF ClearFinalizers
    <2>8. CASE FindKeycloak \/ Register
      BY <1>1, <2>8 DEF FindKeycloak, Register, cluster
    <2>9. ASSUME NEW k \in Kinds, Ensure(k)
          PROVE  UNCHANGED cr
      BY <2>9 DEF Ensure
    <2>10. ASSUME NEW step, NEW k, NEW next, DropBinding(step, k, next)
           PROVE  UNCHANGED cr
      BY <2>10 DEF DropBinding
    <2> QED
      BY <1>1, <2>2, <2>5, <2>6, <2>7, <2>8, <2>9, <2>10 DEF WorkerStep
  <1> QED
    BY <1>1, <1>2, WorkerMoves

LEMMA UserKeepsWs ==
    ASSUME TypeOK, NEW d \in CRs,
           UserCreate(d) \/ UserEdit(d) \/ UserDelete(d) \/ RemoveForeign(d),
           NEW c \in CRs, cr[c].live, cr'[c].live
    PROVE  cr'[c].ws = cr[c].ws
  <1>1. cr \in [CRs -> Codewind] /\ cr[c] \in Codewind
    BY DEF TypeOK
  <1>2. CASE c # d
    BY <1>2, UserMoves
  <1>3. CASE UserCreate(c)
    BY <1>3 DEF UserCreate
  <1>4. CASE UserEdit(c)
    BY <1>1, <1>4 DEF UserEdit, Codewind
  <1>5. CASE UserDelete(c)
    <2>1. /\ [cr[c] EXCEPT !.deleting = TRUE] \in Codewind
          /\ [cr[c] EXCEPT !.deleting = TRUE].ws = cr[c].ws
      BY <1>1 DEF Codewind
    <2> QED
      BY <1>1, <1>5, <2>1, CommitKeepsWs DEF UserDelete
  <1>6. CASE RemoveForeign(c)
    <2>1. cr[c].fin \ ForeignFinalizers \in SUBSET Finalizers
      BY <1>1 DEF Codewind
    <2>2. /\ [cr[c] EXCEPT !.fin = @ \ ForeignFinalizers] \in Codewind
          /\ [cr[c] EXCEPT !.fin = @ \ ForeignFinalizers].ws = cr[c].ws
      BY <1>1, <2>1 DEF Codewind
    <2> QED
      BY <1>1, <1>6, <2>2, CommitKeepsWs DEF RemoveForeign
  <1> QED
    BY <1>2, <1>3, <1>4, <1>5, <1>6

(* However stale the copy a pass works on, and whether or not an answer is *)
(* lost, the id that names all objects of a Codewind is stored only once.  *)
THEOREM WorkspaceNeverChanges == Spec => WorkspaceStable
  <1> DEFINE Kept == \A c \in CRs : cr[c].live /\ cr'[c].live /\ cr[c].ws # NoWorkspace
                                     => cr'[c].ws = cr[c].ws
  <1>1. TypeOK /\ CopiesTrail /\ [Next]_vars => [Kept]_vars
    <2> SUFFICES ASSUME TypeOK, CopiesTrail, Next PROVE Kept
      OBVIOUS
    <2>1. WorkerStep => Kept
      BY WorkerKeepsWs
    <2>2. Machinery => Kept
      BY MachineryWritesNothing
    <2>3. ASSUME NEW d \in CRs, UserCreate(d) \/ UserEdit(d) \/ UserDelete(d) \/ RemoveForeign(d)
          PROVE  Kept
      BY <2>3, UserKeepsWs
    <2> QED
      BY <2>1, <2>2, <2>3, NextCases
  <1> QED
    BY <1>1, TypeCorrect, CopiesAlwaysTrail, PTL DEF Spec, WorkspaceStable

-----------------------------------------------------------------------------
(* No cluster role binding outlives its Codewind.                          *)

GuardAssumption ==
    /\ ForeignFinalizers = {}
    /\ "ClusterRoleBinding" \notin Lagging
    /\ "readBinding" \notin FaultKinds

(* The guard of c, and the id it guards, survive the step. *)
Held(c) == cr[c].fin # {} => cr'[c].fin # {} /\ cr'[c].ws = cr[c].ws

Lifting == ClearFinalizers /\ Accepts(pass.cr, pass.cw)

(* What a write leaves of the guard is what the written Codewind says. *)
LEMMA CommitGuards ==
    ASSUME cr \in [CRs -> Codewind], NEW c \in CRs, NEW new \in Codewind, Commit(c, new)
    PROVE  /\ cr'[c].fin = new.fin
           /\ new.fin # {} => cr'[c].ws = new.ws /\ cr'[c].live = new.live
  <1>1. Absent(new.rv + 1).fin = {}
    BY DEF Absent
  <1>2. /\ [new EXCEPT !.rv = @ + 1].fin = new.fin
        /\ [new EXCEPT !.rv = @ + 1].ws = new.ws
        /\ [new EXCEPT !.rv = @ + 1].live = new.live
    BY DEF Codewind
  <1> QED
    BY <1>1, <1>2, CommitStores

(* What the writes of the worker say of the guard. *)
LEMMA WriteGuards ==
    ASSUME TypeOK, pass.pc # "idle"
    PROVE  LET old == cr[pass.cr]
               named == [old EXCEPT !.ws = nextWs]
               guarded == [old EXCEPT !.fin = {OwnFinalizer}]
               published == [old EXCEPT !.status = pass.cw.status, !.url = pass.cw.url]
           IN  /\ named.fin = old.fin
               /\ guarded.fin = {OwnFinalizer} /\ guarded.ws = old.ws /\ guarded.live = old.live
               /\ published.fin = old.fin /\ published.ws = old.ws /\ published.live = old.live
               /\ [old EXCEPT !.fin = {}].fin = {}
  BY WriteType DEF Codewind

LEMMA IdentifyGuards ==
    ASSUME TypeOK, CopiesTrail, GuardHolds, Identify
    PROVE  cr'[pass.cr] = cr[pass.cr] \/ (cr[pass.cr].fin = {} /\ cr'[pass.cr].fin = {})
  <1>1. pass.pc # "idle" /\ pass.cw.ws = NoWorkspace
    BY DEF Identify, CopiesTrail
  <1>2. CASE UNCHANGED cr
    BY <1>2
  <1>3. CASE /\ Accepts(pass.cr, pass.cw)
             /\ Commit(pass.cr, [cr[pass.cr] EXCEPT !.ws = nextWs])
    <2>1. cr[pass.cr].ws = NoWorkspace
      BY <1>1, <1>3, AcceptedAgrees DEF SameCopy
    <2>2. cr[pass.cr].fin = {}
      BY <1>1, <2>1, WriteType DEF GuardHolds, GuardNamed
    <2> QED
      BY <1>1, <1>3, <2>2, WriteType, WriteGuards, CommitGuards DEF TypeOK
  <1> QED
    BY <1>2, <1>3 DEF Identify

LEMMA AddFinalizerGuards ==
    ASSUME TypeOK, CopiesTrail, GuardHolds, pass.pc = "finalizer", pass.cw.fin = {},
           Accepts(pass.cr, pass.cw),
           Commit(pass.cr, [cr[pass.cr] EXCEPT !.fin = {OwnFinalizer}])
    PROVE  /\ cr[pass.cr].fin = {} /\ cr'[pass.cr].fin # {}
           /\ cr'[pass.cr].live
           /\ cr'[pass.cr].ws = pass.cw.ws /\ pass.cw.ws # NoWorkspace
  <1>1. cr[pass.cr].fin = {} /\ cr[pass.cr].ws = pass.cw.ws /\ cr[pass.cr].live
    BY AcceptedAgrees DEF SameCopy
  <1>2. pass.cw.ws # NoWorkspace
    BY DEF GuardHolds, PassGuarded
  <1> QED
    BY <1>1, <1>2, WriteType, WriteGuards, CommitGuards DEF TypeOK

LEMMA AddFinalizerWrites ==
    ASSUME AddFinalizer
    PROVE  \/ UNCHANGED cr
           \/ /\ pass.pc = "finalizer" /\ pass.cw.fin = {}
              /\ Accepts(pass.cr, pass.cw)
              /\ Commit(pass.cr, [cr[pass.cr] EXCEPT !.fin = {OwnFinalizer}])
  BY DEF AddFinalizer

(* Every step of the worker but the last of a clean-up holds the guard. *)
LEMMA WorkerHolds ==
    ASSUME TypeOK, CopiesTrail, GuardHolds, WorkerStep, NEW c \in CRs,
           ~(c = pass.cr /\ Lifting)
    PROVE  /\ Held(c)
           /\ cr'[c].fin # {} => cr'[c].live /\ cr'[c].ws # NoWorkspace
  <1>1. cr[c].fin # {} => cr[c].live /\ cr[c].ws # NoWorkspace
    BY DEF GuardHolds, GuardNamed
  <1>2. CASE cr'[c] = cr[c]
    BY <1>1, <1>2 DEF Held
  <1>3. CASE c = pass.cr
    <2>1. pass.pc # "idle" /\ cr \in [CRs -> Codewind]
      BY <1>3, NoCodewindAssumption DEF TypeOK
    <2>2. CASE Identify
      BY <1>2, <1>3, <2>2, IdentifyGuards DEF Held
    <2>3. CASE AddFinalizer
      BY <1>2, <1>3, <2>3, AddFinalizerWrites, AddFinalizerGuards DEF Held
    <2>4. CASE Publish
      <3>1. \/ UNCHANGED cr
            \/ Commit(pass.cr, [cr[pass.cr] EXCEPT !.status = pass.cw.status,
                                                   !.url = pass.cw.url])
        BY <2>4 DEF Publish
      <3> QED
        BY <1>1, <1>2, <1>3, <2>1, <3>1, WriteType, WriteGuards, CommitGuards DEF Held
    <2>5. CASE ClearFinalizers
      BY <1>2, <1>3, <2>5 DEF ClearFinalizers, Lifting
    <2>6. CASE FindKeycloak \/ Register
      BY <1>2, <2>6 DEF FindKeycloak, Register, cluster
    <2>7. ASSUME NEW k \in Kinds, Ensure(k)
          PROVE  UNCHANGED cr
      BY <2>7 DEF Ensure
    <2>8. ASSUME NEW step, NEW k, NEW next, DropBinding(step, k, next)
          PROVE  UNCHANGED cr
      BY <2>8 DEF DropBinding
    <2> QED
      BY <1>2, <2>2, <2>3, <2>4, <2>5, <2>6, <2>7, <2>8 DEF WorkerStep
  <1> QED
    BY <1>2, <1>3, WorkerMoves

(* Lifting the guard leaves a Codewind without any. *)
LEMMA LiftingLifts ==
    ASSUME TypeOK, Lifting
    PROVE  cr'[pass.cr] = cr[pass.cr] \/ cr'[pass.cr].fin = {}
  <1>1. pass.pc # "idle"
    BY DEF Lifting, ClearFinalizers
  <1>2. UNCHANGED cr \/ Commit(pass.cr, [cr[pass.cr] EXCEPT !.fin = {}])
    BY DEF Lifting, ClearFinalizers
  <1> QED
    BY <1>1, <1>2, WriteType, WriteGuards, CommitGuards DEF TypeOK

LEMMA UserHolds ==
    ASSUME TypeOK, GuardHolds, GuardAssumption, NEW d \in CRs,
           UserCreate(d) \/ UserEdit(d) \/ UserDelete(d) \/ RemoveForeign(d), NEW c \in CRs
    PROVE  /\ Held(c)
           /\ cr'[c].fin # {} => cr'[c].live /\ cr'[c].ws # NoWorkspace
  <1>1. cr \in [CRs -> Codewind] /\ cr[c] \in Codewind
    BY DEF TypeOK
  <1>2. cr[c].fin # {} => cr[c].live /\ cr[c].ws # NoWorkspace
    BY DEF GuardHolds, GuardNamed
  <1>3. CASE c # d
    BY <1>2, <1>3, UserMoves DEF Held
  <1>4. CASE UserCreate(c)
    <2>1. PICK fin \in SUBSET ForeignFinalizers :
            cr' = [cr EXCEPT ![c] = [Absent(cr[c].rv + 1) EXCEPT !.live = TRUE, !.fin = fin]]
      BY <1>1, <1>4 DEF UserCreate
    <2>2. fin = {} /\ cr[c].fin = {}
      BY <1>2, <1>4 DEF GuardAssumption, UserCreate
    <2> QED
      BY <1>1, <2>1, <2>2 DEF Held, Absent
  <1>5. CASE UserEdit(c)
    BY <1>1, <1>2, <1>5 DEF UserEdit, Codewind, Held
  <1>6. CASE UserDelete(c)
    <2>1. /\ [cr[c] EXCEPT !.deleting = TRUE] \in Codewind
          /\ [cr[c] EXCEPT !.deleting = TRUE].ws = cr[c].ws
          /\ [cr[c] EXCEPT !.deleting = TRUE].fin = cr[c].fin
          /\ [cr[c] EXCEPT !.deleting = TRUE].live = cr[c].live
      BY <1>1 DEF Codewind
    <2> QED
      BY <1>1, <1>2, <1>6, <2>1, CommitGuards DEF UserDelete, Held
  <1>7. ~RemoveForeign(c)
    BY DEF RemoveForeign, GuardAssumption
  <1> QED
    BY <1>3, <1>4, <1>5, <1>6, <1>7

(* What any step may do to the guards. *)
LEMMA NextHolds ==
    ASSUME TypeOK, CopiesTrail, GuardHolds, GuardAssumption, Next, NEW c \in CRs,
           ~(c = pass.cr /\ Lifting)
    PROVE  /\ Held(c)
           /\ cr'[c].fin # {} => cr'[c].live /\ cr'[c].ws # NoWorkspace
  <1>1. CASE Machinery
    BY <1>1, MachineryWritesNothing DEF Held, GuardHolds, GuardNamed
  <1> QED
    BY <1>1, NextCases, WorkerHolds, UserHolds

LEMMA GuardNamedStep ==
    ASSUME TypeOK, CopiesTrail, GuardHolds, GuardAssumption, Next
    PROVE  GuardNamed'
  <1> SUFFICES ASSUME NEW c \in CRs, cr'[c].fin # {}
               PROVE  cr'[c].live /\ cr'[c].ws # NoWorkspace
    BY DEF GuardNamed
  <1>1. CASE c = pass.cr /\ Lifting
    BY <1>1, LiftingLifts DEF GuardHolds, GuardNamed
  <1> QED
    BY <1>1, NextHolds

(* A pass that may lift the guard has not been overtaken by the cache. *)
LEMMA LiftingSeen ==
    ASSUME TypeOK, CopiesTrail, GuardHolds, Lifting
    PROVE  seen[pass.cr].deleting /\ BindingsOf(cr[pass.cr].ws) = {}
  <1>1. pass.pc = "clear" /\ pass.pc # "idle" /\ pass.pc \in CleanupSteps
    BY StepTypes DEF Lifting, ClearFinalizers
  <1>2. pass.cr \in CRs /\ SameCopy(pass.cw, cr[pass.cr])
    BY <1>1, WriteType, AcceptedAgrees DEF Lifting
  <1>3. /\ pass.cw.deleting /\ pass.cw.rv <= seen[pass.cr].rv
        /\ BindingsOf(pass.cw.ws) = {}
    BY <1>1 DEF GuardHolds, CleanUpOrdered
  <1>4. Trails(seen[pass.cr], cr[pass.cr])
    BY <1>2 DEF CopiesTrail
  <1>5. seen[pass.cr].rv \in Nat /\ cr[pass.cr].rv \in Nat
    BY <1>2 DEF TypeOK, Codewind
  <1>6. seen[pass.cr].rv = cr[pass.cr].rv
    BY <1>2, <1>3, <1>4, <1>5 DEF Trails, SameCopy
  <1>7. seen[pass.cr].deleting = cr[pass.cr].deleting
    BY <1>4, <1>6 DEF Trails
  <1>8. pass.cw.deleting = cr[pass.cr].deleting /\ pass.cw.ws = cr[pass.cr].ws
    BY <1>2 DEF SameCopy
  <1> QED
    BY <1>3, <1>7, <1>8, Zenon

(* The cache changes only by catching up with the API server. *)
LEMMA SeenCatchesUp ==
    ASSUME TypeOK, Next, NEW c \in CRs
    PROVE  seen'[c] = seen[c] \/ (seen'[c] = cr[c] /\ UNCHANGED <<cr, objs>>)
  <1>1. WorkerStep => UNCHANGED seen
    BY DEF WorkerStep, Identify, AddFinalizer, Ensure, FindKeycloak, Register, Publish,
           DropBinding, ClearFinalizers, caches
  <1>2. ASSUME NEW d \in CRs, UserCreate(d) \/ UserEdit(d) \/ UserDelete(d) \/ RemoveForeign(d)
        PROVE  UNCHANGED seen
    BY <1>2 DEF UserCreate, UserEdit, UserDelete, RemoveForeign, caches
  <1>3. Machinery => UNCHANGED seen \/ Crash \/ \E d \in CRs : InformerSync(d)
    BY DEF Machinery, StartPass, Resync, ObjectsSync, KeycloakProgress, GarbageCollect,
           LoseObject, caches
  <1>4. CASE Crash
    BY <1>4 DEF Crash, cluster, TypeOK
  <1>5. ASSUME NEW d \in CRs, InformerSync(d)
        PROVE  seen'[c] = seen[c] \/ (seen'[c] = cr[c] /\ UNCHANGED <<cr, objs>>)
    BY <1>5 DEF InformerSync, cluster, TypeOK
  <1> QED
    BY <1>1, <1>2, <1>3, <1>4, <1>5, NextCases

LEMMA SeenGuardedStep ==
    ASSUME TypeOK, CopiesTrail, GuardHolds, GuardAssumption, Next
    PROVE  SeenGuarded'
  <1> SUFFICES ASSUME NEW c \in CRs PROVE StillGuarded(seen[c], c)'
    BY DEF SeenGuarded
  <1>1. StillGuarded(seen[c], c)
    BY DEF GuardHolds, SeenGuarded
  <1>2. CASE seen'[c] = cr[c] /\ UNCHANGED cr
    BY <1>2 DEF StillGuarded
  <1>3. CASE seen'[c] = seen[c] /\ c = pass.cr /\ Lifting
    BY <1>3, LiftingSeen DEF StillGuarded
  <1>4. CASE seen'[c] = seen[c] /\ ~(c = pass.cr /\ Lifting)
    BY <1>1, <1>4, NextHolds DEF StillGuarded, Held
  <1> QED
    BY <1>2, <1>3, <1>4, SeenCatchesUp

(* How a pass goes on, with the step it comes from. *)
LEMMA PassCases ==
    ASSUME TypeOK, Next
    PROVE  \/ pass' = pass /\ ~Lifting
           \/ pass' = Idle
           \/ \E c \in CRs : StartPass(c) /\ pass'.pc = FirstStep(seen[c])
                              /\ pass'.cr = c /\ pass'.cw = seen[c]
           \/ pass.pc \in GrantSteps /\ WentOn(GrantSteps)
           \/ AddFinalizer
           \/ /\ DropBinding("dropODO", "ODOBinding", "dropTekton")
              /\ WentOn({"dropTekton"})
           \/ /\ DropBinding("dropTekton", "TektonBinding", "clear")
              /\ WentOn({"clear"})
  <1>1. Lifting => pass' = Idle
    BY DEF Lifting, ClearFinalizers, Settle, Requeue
  <1>2. CASE Identify \/ Publish \/ ClearFinalizers
    BY <1>2 DEF Identify, Publish, ClearFinalizers, Settle, Requeue
  <1>3. CASE AddFinalizer
    BY <1>3
  <1>4. ASSUME NEW k \in Kinds, Ensure(k)
        PROVE  pass' = Idle \/ (pass.pc \in GrantSteps /\ WentOn(GrantSteps))
    <2>1. pass.pc \in GrantSteps
      BY <1>4 DEF Ensure, GrantSteps
    <2> QED
      BY <1>4, <2>1, EnsurePass
  <1>5. CASE Register
    <2>1. pass.pc \in GrantSteps
      BY <1>5 DEF Register, GrantSteps
    <2> QED
      BY <1>5, <2>1, RegisterPass
  <1>6. CASE FindKeycloak
    <2>1. pass \in Passes /\ pass.pc \in BringUpSteps /\ pass.pc \in GrantSteps
      BY <1>6, StepTypes DEF FindKeycloak, TypeOK, GrantSteps
    <2> QED
      BY <1>6, <2>1, AdvanceKeepsCopy DEF FindKeycloak, Requeue, WentOn
  <1>7. ASSUME NEW step, NEW k, NEW next \in CleanupSteps, DropBinding(step, k, next)
        PROVE  pass' = Idle \/ WentOn({next})
    BY <1>7, GotoType, StepsCovered DEF DropBinding, Settle, TypeOK, WentOn, SameCopy
  <1>8. ASSUME NEW c \in CRs, StartPass(c)
        PROVE  \/ pass' = pass \/ pass' = Idle
               \/ pass'.pc = FirstStep(seen[c]) /\ pass'.cr = c /\ pass'.cw = seen[c]
    BY <1>8, StartPassCases
  <1>9. CASE WorkerStep
    BY <1>2, <1>3, <1>4, <1>5, <1>6, <1>7, <1>9, StepTypes DEF WorkerStep
  <1> QED
    BY <1>1, <1>8, <1>9, PassKept

LEMMA StepsApart ==
    /\ "finalizer" \notin GrantSteps
    /\ \A step \in GrantSteps \cup {"finalizer", "identify", "idle"} : step \notin CleanupSteps
    /\ \A step \in CleanupSteps \cup {"identify", "idle"} :
          step \notin GrantSteps /\ step # "finalizer"
  BY DEF GrantSteps, CleanupSteps, Kinds, SharedKinds, ClusterBindings, Owned, Deployments,
         Exposures

LEMMA PassGuardedStep ==
    ASSUME TypeOK, CopiesTrail, GuardHolds, GuardAssumption, Next
    PROVE  PassGuarded'
  <1>1. PassGuarded
    BY DEF GuardHolds
  <1>2. ASSUME pass.pc \in GrantSteps \cup {"finalizer"}
        PROVE  pass.cr \in CRs /\ Held(pass.cr)
    <2>1. pass.pc # "idle" /\ ~Lifting
      BY <1>2, StepsApart, StepTypes DEF Lifting, ClearFinalizers
    <2> QED
      BY <2>1, WriteType, NextHolds
  <1>3. CASE pass' = pass
    BY <1>1, <1>2, <1>3 DEF PassGuarded, StillGuarded, Held
  <1>4. CASE pass' = Idle
    BY <1>4, IdlePc, StepsApart DEF PassGuarded
  <1>5. ASSUME NEW c \in CRs, StartPass(c), pass'.pc = FirstStep(seen[c]),
               pass'.cr = c, pass'.cw = seen[c]
        PROVE  PassGuarded'
    <2>1. UNCHANGED cr /\ StillGuarded(seen[c], c)
      BY <1>5 DEF StartPass, cluster, GuardHolds, SeenGuarded
    <2>2. pass'.pc \notin GrantSteps
      BY <1>5, StepsApart, StepTypes DEF FirstStep
    <2>3. pass'.pc = "finalizer" => seen[c].ws # NoWorkspace /\ ~seen[c].deleting
      BY <1>5 DEF FirstStep
    <2> QED
      BY <1>5, <2>1, <2>2, <2>3 DEF PassGuarded, StillGuarded
  <1>6. CASE pass.pc \in GrantSteps /\ WentOn(GrantSteps)
    BY <1>1, <1>2, <1>6, StepsApart DEF PassGuarded, WentOn, SameCopy, Held
  <1>7. CASE AddFinalizer
    <2>1. pass.pc = "finalizer"
      BY <1>7 DEF AddFinalizer
    <2>2. CASE pass.cw.fin # {} /\ WentOn(GrantSteps)
      <3>1. cr[pass.cr].ws = pass.cw.ws /\ cr[pass.cr].fin # {}
        BY <1>1, <2>1, <2>2 DEF PassGuarded, StillGuarded
      <3> QED
        BY <1>2, <2>1, <2>2, <3>1, StepsApart DEF PassGuarded, WentOn, SameCopy, Held
    <2>3. CASE /\ pass.cw.fin = {} /\ Accepts(pass.cr, pass.cw)
               /\ Commit(pass.cr, [cr[pass.cr] EXCEPT !.fin = {OwnFinalizer}])
               /\ WroteOn
      BY <2>1, <2>3, AddFinalizerGuards, StepsApart DEF PassGuarded, WroteOn
    <2> QED
      BY <1>4, <1>7, <2>2, <2>3, AddFinalizerPass
  <1>8. CASE WentOn({"dropTekton"}) \/ WentOn({"clear"})
    BY <1>8, StepsApart, StepTypes DEF PassGuarded, WentOn
  <1> QED
    BY <1>3, <1>4, <1>5, <1>6, <1>7, <1>8, PassCases

(* With the bindings read reliably, a clean-up step that goes on has       *)
(* removed its binding.                                                    *)
LEMMA DropRemoves ==
    ASSUME GuardAssumption, NEW step, NEW k \in ClusterBindings, NEW next,
           DropBinding(step, k, next), TypeOK, pass'.pc = next, next # "idle"
    PROVE  <<pass.cw.ws, k>> \notin objs' /\ objs' \subseteq objs
  <1>1. InformerOf(k) = "ClusterRoleBinding" /\ Key(k) = <<pass.cw.ws, k>>
    <2>1. k = "TektonBinding" \/ k = "ODOBinding"
      BY DEF ClusterBindings
    <2>2. k \notin SharedKinds
      BY <2>1 DEF SharedKinds
    <2>3. InformerOf("TektonBinding") = "ClusterRoleBinding"
      BY DEF InformerOf, ClusterBindings, SharedKinds, Deployments
    <2>4. InformerOf("ODOBinding") = "ClusterRoleBinding"
      BY DEF InformerOf, ClusterBindings, SharedKinds, Deployments
    <2> QED
      BY <2>1, <2>2, <2>3, <2>4 DEF Key
  <1>2. Key(k) \in objs => Key(k) \in View
    BY <1>1 DEF View, GuardAssumption
  <1>3. ~Fault("readBinding")
    BY DEF Fault, GuardAssumption
  <1>4. ~Settle
    BY IdlePc DEF Settle
  <1> QED
    BY <1>1, <1>2, <1>3, <1>4 DEF DropBinding

(* Only Ensure adds an object. *)
LEMMA ObjectsGrow ==
    ASSUME Next
    PROVE  objs' \subseteq objs \/ \E k \in Kinds : Ensure(k)
  <1>1. ASSUME WorkerStep, ~ \E k \in Kinds : Ensure(k)
        PROVE  objs' \subseteq objs
    BY <1>1 DEF WorkerStep, Identify, AddFinalizer, FindKeycloak, Register, Publish,
           DropBinding, ClearFinalizers, cluster
  <1>2. ASSUME NEW d \in CRs, UserCreate(d) \/ UserEdit(d) \/ UserDelete(d) \/ RemoveForeign(d)
        PROVE  UNCHANGED objs
    BY <1>2 DEF UserCreate, UserEdit, UserDelete, RemoveForeign
  <1>3. Machinery => objs' \subseteq objs
    BY DEF Machinery, StartPass, InformerSync, Resync, ObjectsSync, KeycloakProgress,
           GarbageCollect, LoseObject, Crash, cluster
  <1> QED
    BY <1>1, <1>2, <1>3, NextCases

LEMMA CleanUpOrderedStep ==
    ASSUME TypeOK, TypeOK', CopiesTrail, CopiesTrail', GuardHolds, GuardAssumption, Next
    PROVE  CleanUpOrdered'
  <1>1. CleanUpOrdered
    BY DEF GuardHolds
  <1>2. ASSUME pass.pc \in CleanupSteps
        PROVE  /\ pass.cr \in CRs /\ pass.cw.deleting
               /\ pass.cw.rv <= seen'[pass.cr].rv
               /\ objs' \subseteq objs
    <2>1. pass.cr \in CRs /\ pass.pc # "idle"
      BY <1>2, StepsApart, WriteType
    <2>2. pass.cw.deleting /\ pass.cw.rv <= seen[pass.cr].rv
      BY <1>1, <1>2 DEF CleanUpOrdered
    <2>3. Trails(pass.cw, cr[pass.cr])
      BY <2>1 DEF CopiesTrail
    <2>4. pass.cw.rv <= seen'[pass.cr].rv
      BY <2>1, <2>2, <2>3, SeenCatchesUp DEF Trails
    <2>5. pass.pc \notin Kinds
      BY <1>2, StepsApart DEF GrantSteps
    <2>6. objs' \subseteq objs
      BY <2>5, ObjectsGrow DEF Ensure
    <2> QED
      BY <2>1, <2>2, <2>4, <2>6
  <1>3. CASE pass' = pass
    <2>1. pass.pc \in CleanupSteps => pass.cw.deleting /\ pass.cw.rv <= seen'[pass.cr].rv
      BY <1>2
    <2>2. pass.pc = "dropTekton" => <<pass.cw.ws, "ODOBinding">> \notin objs'
      BY <1>1, <1>2, StepTypes DEF CleanUpOrdered
    <2>3. pass.pc = "clear" => BindingsOf(pass.cw.ws)' = {}
      BY <1>1, <1>2, <1>3, StepTypes DEF CleanUpOrdered, BindingsOf
    <2> QED
      BY <1>3, <2>1, <2>2, <2>3 DEF CleanUpOrdered
  <1>4. CASE pass' = Idle
    BY <1>4, IdlePc, StepsApart, StepTypes DEF CleanUpOrdered
  <1>5. ASSUME NEW c \in CRs, StartPass(c), pass'.pc = FirstStep(seen[c]),
               pass'.cr = c, pass'.cw = seen[c]
        PROVE  CleanUpOrdered'
    <2>1. UNCHANGED seen /\ seen[c].rv \in Nat
      BY <1>5 DEF StartPass, caches, TypeOK, Codewind
    <2>2. pass'.pc \in {"identify", "dropODO", "finalizer"}
      BY <1>5 DEF FirstStep
    <2>3. pass'.pc \in CleanupSteps => seen[c].deleting
      BY <1>5, StepTypes DEF FirstStep
    <2> QED
      BY <1>5, <2>1, <2>2, <2>3 DEF CleanUpOrdered
  <1>6. CASE WentOn(GrantSteps) \/ WroteOn
    BY <1>6, StepsApart, StepTypes DEF CleanUpOrdered, WentOn, WroteOn
  <1>7. CASE AddFinalizer
    BY <1>4, <1>6, <1>7, AddFinalizerPass
  <1>8. CASE DropBinding("dropODO", "ODOBinding", "dropTekton") /\ WentOn({"dropTekton"})
    <2>1. pass.pc = "dropODO" /\ pass.pc \in CleanupSteps /\ pass'.pc = "dropTekton"
      BY <1>8, StepTypes DEF DropBinding, WentOn
    <2>2. <<pass.cw.ws, "ODOBinding">> \notin objs'
      BY <1>8, <2>1, DropRemoves DEF ClusterBindings
    <2> QED
      BY <1>2, <1>8, <2>1, <2>2 DEF CleanUpOrdered, WentOn, SameCopy
  <1>9. CASE DropBinding("dropTekton", "TektonBinding", "clear") /\ WentOn({"clear"})
    <2>1. pass.pc = "dropTekton" /\ pass.pc \in CleanupSteps /\ pass'.pc = "clear"
      BY <1>9, StepTypes DEF DropBinding, WentOn
    <2>2. <<pass.cw.ws, "TektonBinding">> \notin objs' /\ <<pass.cw.ws, "ODOBinding">> \notin objs'
      BY <1>1, <1>2, <1>9, <2>1, DropRemoves DEF ClusterBindings, CleanUpOrdered
    <2>3. \A o \in objs' : o = <<o[1], o[2]>>
      BY DEF TypeOK, Objects
    <2>4. BindingsOf(pass.cw.ws)' = {}
      BY <1>9, <2>2, <2>3 DEF BindingsOf, ClusterBindings, WentOn, SameCopy
    <2> QED
      BY <1>2, <1>9, <2>1, <2>4 DEF CleanUpOrdered, WentOn, SameCopy
  <1> QED
    BY <1>3, <1>4, <1>5, <1>6, <1>7, <1>8, <1>9, PassCases

LEMMA BindingsGuardedStep ==
    ASSUME TypeOK, CopiesTrail, GuardHolds, GuardAssumption, Next
    PROVE  BindingsGuarded'
  <1> SUFFICES ASSUME NEW o \in objs', o[2] \in ClusterBindings
               PROVE  \E c \in CRs : cr'[c].ws = o[1] /\ cr'[c].fin # {}
    BY DEF BindingsGuarded
  <1>1. CASE o \in objs
    <2>1. PICK c \in CRs : cr[c].ws = o[1] /\ cr[c].fin # {}
      BY <1>1 DEF GuardHolds, BindingsGuarded
    <2>2. CASE c = pass.cr /\ Lifting
      BY <1>1, <2>1, <2>2, LiftingSeen DEF BindingsOf
    <2>3. CASE ~(c = pass.cr /\ Lifting)
      BY <2>1, <2>3, NextHolds DEF Held
    <2> QED
      BY <2>2, <2>3
  <1>2. CASE o \notin objs
    <2>1. PICK k \in Kinds : Ensure(k)
      BY <1>2, ObjectsGrow
    <2>2. pass.pc = k /\ pass.pc \in GrantSteps /\ o = Key(k)
      BY <1>2, <2>1 DEF Ensure, Add, GrantSteps
    <2>3. o[1] = pass.cw.ws
      BY <2>2 DEF Key, ClusterBindings, SharedKinds
    <2>4. pass.cr \in CRs /\ ~Lifting
      <3>1. pass.pc # "idle" /\ pass.pc # "clear"
        BY <2>2, StepsApart, StepTypes
      <3> QED
        BY <3>1, WriteType DEF Lifting, ClearFinalizers
    <2>5. cr[pass.cr].ws = pass.cw.ws /\ cr[pass.cr].fin # {}
      BY <2>2 DEF GuardHolds, PassGuarded
    <2> QED
      BY <2>3, <2>4, <2>5, NextHolds DEF Held
  <1> QED
    BY <1>1, <1>2

LEMMA GuardHoldsStep ==
    ASSUME TypeOK, TypeOK', CopiesTrail, CopiesTrail', GuardHolds, GuardAssumption, [Next]_vars
    PROVE  GuardHolds'
  <1>1. CASE UNCHANGED vars
    BY <1>1 DEF vars, GuardHolds, GuardNamed, SeenGuarded, PassGuarded, CleanUpOrdered,
       BindingsGuarded, BindingsOf, StillGuarded
  <1>2. CASE Next
    BY <1>2, GuardNamedStep, SeenGuardedStep, PassGuardedStep, CleanUpOrderedStep,
       BindingsGuardedStep DEF GuardHolds
  <1> QED
    BY <1>1, <1>2

LEMMA InitGuardHolds == Init => GuardHolds
  <1> SUFFICES ASSUME Init PROVE GuardHolds
    OBVIOUS
  <1>1. \A c \in CRs : cr[c].fin = {} /\ seen[c].fin = {}
    BY DEF Init, Absent
  <1>2. pass.pc = "idle" /\ objs = {}
    BY IdlePc DEF Init
  <1> QED
    BY <1>1, <1>2, StepsApart, StepTypes DEF GuardHolds, GuardNamed, SeenGuarded, PassGuarded,
       CleanUpOrdered, BindingsGuarded, StillGuarded

(* The argument behind NoOrphanBinding, in every state: bindings are only  *)
(* in force under a finalizer, and the finalizer is lifted after them.     *)
THEOREM GuardAlwaysHolds == ASSUME GuardAssumption PROVE Spec => []GuardHolds
  <1>1. Init => GuardHolds
    BY InitGuardHolds
  <1>2. /\ TypeOK /\ TypeOK' /\ CopiesTrail /\ CopiesTrail' /\ GuardHolds /\ [Next]_vars
        => GuardHolds'
    BY GuardHoldsStep
  <1> QED
    BY <1>1, <1>2, TypeCorrect, CopiesAlwaysTrail, PTL DEF Spec

(* When no other party uses finalizers on Codewinds and the cluster role   *)
(* bindings are read reliably, handleCodewindCRBFinalizer leaves none      *)
(* behind, whatever else is stale, refused, lost or restarted.             *)
THEOREM NoBindingOrphaned == ASSUME GuardAssumption PROVE Spec => []NoOrphanBinding
  <1>1. GuardHolds => NoOrphanBinding
    BY DEF GuardHolds, GuardNamed, BindingsGuarded, NoOrphanBinding
  <1> QED
    BY <1>1, GuardAlwaysHolds, PTL
=============================================================================
