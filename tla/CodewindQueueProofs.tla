------------------------ MODULE CodewindQueueProofs ------------------------
(***************************************************************************)
(* Proofs about the work queue: a Codewind that still needs a pass is      *)
(* never forgotten, however passes end.  A pass that ends without an error *)
(* leaves the queue, so that it must either have finished what it was for  *)
(* or have written something whose event enqueues the Codewind again. The  *)
(* clean-up keeps this only if no Delete of a binding fails, neither by    *)
(* itself nor because the cache still shows what is gone.                  *)
(***************************************************************************)
EXTENDS CodewindBringUpProofs

QueueAssumption ==
    /\ "delete" \notin FaultKinds
    /\ "ClusterRoleBinding" \notin Lagging

(* A Codewind whose deletion was asked for is there only for a finalizer.  *)
DeletionPending == \A c \in CRs : cr[c].deleting => cr[c].live /\ cr[c].fin # {}

(* The caches kept apart are those of informers that trail. *)
OnlyLagging == \A o \in cached : InformerOf(o[2]) \in Lagging

(* A pass brings up what is not being deleted, and cleans up what is. *)
PassPurpose ==
    /\ Bringing(pass) => ~pass.cw.deleting
    /\ pass.pc \in CleanupSteps => pass.cw.deleting

(* Past the registration it has a status to store. *)
PassStatus ==
    Bringing(pass) /\ Place["register"] < Place[pass.pc] => pass.cw.status = "Complete"

QueueHolds ==
    /\ DeletionPending /\ OnlyLagging
    /\ PassPurpose /\ PassStatus
    /\ NoLostWork

-----------------------------------------------------------------------------
(* A Codewind that is being deleted is held by a finalizer.                *)

(* A write keeps it so, of a Codewind that is there. *)
LEMMA CommitPending ==
    ASSUME cr \in [CRs -> Codewind], NEW c \in CRs, NEW new \in Codewind, Commit(c, new),
           new.live, cr[c].deleting => cr[c].live /\ cr[c].fin # {}
    PROVE  cr'[c].deleting => cr'[c].live /\ cr'[c].fin # {}
  <1>1. CASE cr'[c] = cr[c]
    BY <1>1
  <1>2. CASE cr'[c] = Absent(new.rv + 1)
    <2>1. ~Absent(new.rv + 1).deleting
      BY DEF Absent
    <2> QED
      BY <1>2, <2>1
  <1>3. CASE cr'[c] = [new EXCEPT !.rv = @ + 1] /\ ~(new.deleting /\ new.fin = {})
    BY <1>3 DEF Codewind
  <1> QED
    BY <1>1, <1>2, <1>3, CommitStores

LEMMA WorkerPending ==
    ASSUME TypeOK, CopiesTrail, DeletionPending, WorkerStep
    PROVE  DeletionPending'
  <1>1. CASE UNCHANGED cr
    BY <1>1 DEF DeletionPending
  <1>2. ASSUME pass.pc # "idle", Accepts(pass.cr, pass.cw), NEW new \in Codewind,
               new.live = cr[pass.cr].live, Commit(pass.cr, new)
        PROVE  DeletionPending'
    <2>1. pass.cr \in CRs /\ cr \in [CRs -> Codewind] /\ cr[pass.cr].live
      BY <1>2, WriteType DEF TypeOK, Accepts
    <2>2. \A d \in CRs : d # pass.cr => cr'[d] = cr[d]
      BY <1>2, <2>1 DEF Commit
    <2> QED
      BY <1>2, <2>1, <2>2, CommitPending DEF DeletionPending
  <1>3. ASSUME pass.pc # "idle"
        PROVE  LET old == cr[pass.cr]
               IN  /\ [old EXCEPT !.ws = nextWs].live = old.live
                   /\ [old EXCEPT !.fin = {OwnFinalizer}].live = old.live
                   /\ [old EXCEPT !.fin = {}].live = old.live
                   /\ [old EXCEPT !.status = pass.cw.status, !.url = pass.cw.url].live = old.live
    BY <1>3, WriteType DEF Codewind
  <1>4. CASE Identify
    BY <1>1, <1>2, <1>3, <1>4, WriteType DEF Identify
  <1>5. CASE AddFinalizer
    BY <1>1, <1>2, <1>3, <1>5, WriteType DEF AddFinalizer
  <1>6. CASE Publish
    BY <1>1, <1>2, <1>3, <1>6, WriteType DEF Publish
  <1>7. CASE ClearFinalizers
    BY <1>1, <1>2, <1>3, <1>7, WriteType DEF ClearFinalizers
  <1>8. CASE UNCHANGED cr
    BY <1>8 DEF DeletionPending
  <1> QED
    BY <1>4, <1>5, <1>6, <1>7, <1>8 DEF WorkerStep, Ensure, FindKeycloak, Register,
       DropBinding, cluster

LEMMA UserPending ==
    ASSUME TypeOK, DeletionPending, NEW c \in CRs,
           UserCreate(c) \/ UserEdit(c) \/ UserDelete(c) \/ RemoveForeign(c)
    PROVE  DeletionPending'
  <1>1. cr \in [CRs -> Codewind] /\ cr[c] \in Codewind /\ cr[c].live \in BOOLEAN
    BY DEF TypeOK, Codewind
  <1>2. \A d \in CRs : d # c => cr'[d] = cr[d]
    BY UserMoves
  <1>3. CASE UserCreate(c)
    <2>1. ~cr'[c].deleting
      BY <1>1, <1>3 DEF UserCreate, Absent
    <2> QED
      BY <1>2, <2>1 DEF DeletionPending
  <1>4. CASE UserEdit(c)
    <2>1. cr'[c].deleting = cr[c].deleting /\ cr'[c].live = cr[c].live /\ cr'[c].fin = cr[c].fin
      BY <1>1, <1>4 DEF UserEdit, Codewind
    <2> QED
      BY <1>2, <2>1 DEF DeletionPending
  <1>5. CASE UserDelete(c)
    <2>1. [cr[c] EXCEPT !.deleting = TRUE] \in Codewind
          /\ [cr[c] EXCEPT !.deleting = TRUE].live
      BY <1>1, <1>5 DEF Codewind, UserDelete
    <2> QED
      BY <1>1, <1>2, <1>5, <2>1, CommitPending DEF UserDelete, DeletionPending
  <1>6. CASE RemoveForeign(c)
    <2>1. cr[c].fin \ ForeignFinalizers \in SUBSET Finalizers
      BY <1>1 DEF Codewind
    <2>2. [cr[c] EXCEPT !.fin = @ \ ForeignFinalizers] \in Codewind
          /\ [cr[c] EXCEPT !.fin = @ \ ForeignFinalizers].live
      BY <1>1, <1>6, <2>1 DEF Codewind, RemoveForeign, DeletionPending
    <2> QED
      BY <1>1, <1>2, <1>6, <2>2, CommitPending DEF RemoveForeign, DeletionPending
  <1> QED
    BY <1>3, <1>4, <1>5, <1>6

LEMMA DeletionPendingStep ==
    ASSUME TypeOK, CopiesTrail, DeletionPending, Next
    PROVE  DeletionPending'
  <1>1. Machinery => DeletionPending'
    BY MachineryWritesNothing DEF DeletionPending
  <1> QED
    BY <1>1, WorkerPending, UserPending, NextCases

-----------------------------------------------------------------------------
(* What a pass is for.                                                     *)

(* Past the registration, or just past it. *)
LEMMA LateStatus ==
    ASSUME NEW step \in BringUpSteps, NEW openshift \in BOOLEAN,
           Place["register"] < Place[After(step, openshift)]
    PROVE  step = "register" \/ Place["register"] < Place[step]
  BY DEF Place, After, BringUpSteps, Kinds, SharedKinds, ClusterBindings, Owned,
         Deployments, Exposures

LEMMA FirstSteps ==
    ASSUME NEW cw
    PROVE  /\ FirstStep(cw) = "finalizer" => ~cw.deleting
           /\ FirstStep(cw) \in CleanupSteps => cw.deleting
           /\ FirstStep(cw) \notin GrantSteps
  BY StepsApart, StepTypes DEF FirstStep

LEMMA OnlyLaggingStep ==
    ASSUME OnlyLagging, Next PROVE OnlyLagging'
  <1>1. ASSUME NEW i \in Lagging, ObjectsSync(i) PROVE OnlyLagging'
    BY <1>1 DEF ObjectsSync, OfInformer, OnlyLagging
  <1>2. CASE Crash
    BY <1>2 DEF Crash, OnlyLagging
  <1>3. ASSUME UNCHANGED cached PROVE OnlyLagging'
    BY <1>3 DEF OnlyLagging
  <1>4. ASSUME WorkerStep \/ \E c \in CRs : UserCreate(c) \/ UserEdit(c) \/ UserDelete(c) \/ RemoveForeign(c)
        PROVE  UNCHANGED cached
    BY <1>4 DEF WorkerStep, Identify, AddFinalizer, Ensure, FindKeycloak, Register, Publish,
           DropBinding, ClearFinalizers, UserCreate, UserEdit, UserDelete, RemoveForeign, caches
  <1>5. Machinery => UNCHANGED cached \/ Crash \/ \E i \in Lagging : ObjectsSync(i)
    BY DEF Machinery, StartPass, InformerSync, Resync, KeycloakProgress, GarbageCollect,
           LoseObject, caches
  <1> QED
    BY <1>1, <1>2, <1>3, <1>4, <1>5, NextCases

(* A pass that goes on keeps to its purpose. *)
LEMMA PassPurposeStep ==
    ASSUME TypeOK, CopiesTrail, PassPurpose, Next
    PROVE  PassPurpose'
  <1>1. CASE pass' = pass
    BY <1>1 DEF PassPurpose, Bringing
  <1>2. CASE pass' = Idle
    BY <1>2, NoIdleBringing DEF PassPurpose
  <1>3. ASSUME NEW c \in CRs, pass'.pc = FirstStep(seen[c]), pass'.cw = seen[c]
        PROVE  PassPurpose'
    BY <1>3, FirstSteps, StepsApart DEF PassPurpose, Bringing
  <1>4. CASE pass.pc \in GrantSteps /\ WentOn(GrantSteps)
    BY <1>4, StepsApart DEF PassPurpose, Bringing, WentOn, SameCopy
  <1>5. CASE AddFinalizer
    <2>1. pass.pc = "finalizer" /\ ~pass.cw.deleting
      BY <1>5 DEF AddFinalizer, PassPurpose, Bringing
    <2>2. CASE WentOn(GrantSteps)
      BY <2>1, <2>2, StepsApart DEF PassPurpose, Bringing, WentOn, SameCopy
    <2>3. CASE /\ Accepts(pass.cr, pass.cw)
               /\ Commit(pass.cr, [cr[pass.cr] EXCEPT !.fin = {OwnFinalizer}]) /\ WroteOn
      <3> DEFINE new == [cr[pass.cr] EXCEPT !.fin = {OwnFinalizer}]
      <3>1. /\ pass.cr \in CRs /\ cr \in [CRs -> Codewind] /\ cr[pass.cr] \in Codewind
            /\ new \in Codewind /\ ~cr[pass.cr].deleting
        BY <2>1, <2>3, WriteType, AcceptedAgrees DEF SameCopy, TypeOK
      <3>2. ~new.deleting
        BY <3>1 DEF Codewind
      <3> HIDE DEF new
      <3>3. ~[new EXCEPT !.rv = @ + 1].deleting
        BY <3>1, <3>2 DEF Codewind
      <3>4. ~cr'[pass.cr].deleting
        BY <2>3, <3>1, <3>2, <3>3, CommitStores DEF new
      <3> QED
        BY <2>3, <3>4, StepsApart DEF PassPurpose, Bringing, WroteOn
    <2> QED
      BY <1>2, <1>5, <2>2, <2>3, AddFinalizerPass
  <1>6. CASE \/ pass.pc = "dropODO" /\ WentOn({"dropTekton"})
             \/ pass.pc = "dropTekton" /\ WentOn({"clear"})
    BY <1>6, StepsApart, StepTypes DEF PassPurpose, Bringing, WentOn, SameCopy
  <1> QED
    BY <1>1, <1>2, <1>3, <1>4, <1>5, <1>6, PassCases DEF DropBinding

LEMMA PassStatusStep ==
    ASSUME TypeOK, CopiesTrail, PassStatus, Next
    PROVE  PassStatus'
  <1>1. CASE pass' = pass
    BY <1>1 DEF PassStatus, Bringing
  <1>2. CASE pass' = Idle
    BY <1>2, NoIdleBringing DEF PassStatus
  <1>3. ASSUME NEW c \in CRs, pass'.pc = FirstStep(seen[c])
        PROVE  PassStatus'
    BY <1>3, FirstSteps, DeploymentsLate DEF PassStatus, Bringing
  <1>4. CASE pass'.pc \in CleanupSteps
    BY <1>4, StepsApart DEF PassStatus, Bringing
  <1>5. CASE BroughtOn
    <2>1. pass.openshift \in BOOLEAN
      BY DEF TypeOK, Passes
    <2>2. Bringing(pass)
      BY <1>5 DEF BroughtOn, BringUpSteps, Bringing, GrantSteps
    <2>3. ASSUME Place["register"] < Place[pass'.pc]
          PROVE  pass.pc = "register" \/ Place["register"] < Place[pass.pc]
      BY <1>5, <2>1, <2>3, LateStatus DEF BroughtOn
    <2> QED
      BY <1>5, <2>2, <2>3, DeploymentsLate DEF BroughtOn, PassStatus
  <1>6. ASSUME WorkerStep PROVE pass' = Idle \/ BroughtOn \/ pass'.pc \in CleanupSteps
    BY <1>6, AddFinalizerBrings, EnsureBrings, RegisterBrings, FindKeycloakBrings, StepTypes
       DEF WorkerStep, Identify, Publish, ClearFinalizers, DropBinding, Settle, Requeue, Goto,
           TypeOK, Passes
  <1> QED
    BY <1>1, <1>2, <1>3, <1>4, <1>5, <1>6, PassKept, StartPassCases

-----------------------------------------------------------------------------
(* Nothing is forgotten.                                                   *)

(* What was just written the cache has yet to show. *)
LEMMA WrittenUnseen ==
    ASSUME TypeOK, CopiesTrail, Next, NEW c \in CRs, cr'[c] # cr[c]
    PROVE  seen'[c] # cr'[c]
  <1>1. seen'[c] = seen[c] /\ cr'[c].rv = cr[c].rv + 1
    BY SeenCatchesUp, NextMoves DEF Moved
  <1>2. seen[c].rv <= cr[c].rv /\ seen[c].rv \in Nat /\ cr[c].rv \in Nat
    BY DEF CopiesTrail, Trails, TypeOK, Codewind
  <1>3. seen'[c].rv # cr'[c].rv
    BY <1>1, <1>2
  <1> QED
    BY <1>3

(* What the cache had yet to show is enqueued once it shows it. *)
LEMMA SeenEnqueues ==
    ASSUME TypeOK, Next, NEW c \in CRs, cr'[c] = cr[c], cr[c].live, seen[c] # cr[c]
    PROVE  c \in queue' \/ seen'[c] # cr'[c]
  <1>1. ASSUME NEW d \in CRs, InformerSync(d) PROVE c \in queue' \/ seen'[c] = seen[c]
    BY <1>1 DEF InformerSync, TypeOK
  <1>2. Crash => c \in queue'
    BY DEF Crash
  <1>3. WorkerStep => UNCHANGED seen
    BY DEF WorkerStep, Identify, AddFinalizer, Ensure, FindKeycloak, Register, Publish,
           DropBinding, ClearFinalizers, caches
  <1>4. ASSUME NEW d \in CRs, UserCreate(d) \/ UserEdit(d) \/ UserDelete(d) \/ RemoveForeign(d)
        PROVE  UNCHANGED seen
    BY <1>4 DEF UserCreate, UserEdit, UserDelete, RemoveForeign, caches
  <1>5. Machinery => UNCHANGED seen \/ Crash \/ \E d \in CRs : InformerSync(d)
    BY DEF Machinery, StartPass, Resync, ObjectsSync, KeycloakProgress, GarbageCollect,
           LoseObject, caches
  <1> QED
    BY <1>1, <1>2, <1>3, <1>4, <1>5, NextCases

(* A name leaves the queue only for a pass of its own, or unseen. *)
LEMMA QueueKeeps ==
    ASSUME TypeOK, Next, NEW c \in CRs, c \in queue, cr'[c] = cr[c], cr[c].live
    PROVE  c \in queue' \/ pass'.cr = c \/ seen'[c] # cr'[c]
  <1>1. ASSUME NEW d \in CRs, StartPass(d)
        PROVE  c \in queue' \/ pass'.cr = c \/ seen'[c] # cr'[c]
    <2>1. seen' = seen /\ (queue' = queue \/ queue' = queue \ {d})
      BY <1>1 DEF StartPass, caches
    <2>2. CASE c = d /\ c \notin queue'
      <3>1. PICK detected \in {OnOpenShift, FALSE} :
              pass' = IF seen[c].live
                      THEN [pc |-> FirstStep(seen[c]), cr |-> c, cw |-> seen[c],
                            openshift |-> detected, key |-> FALSE]
                      ELSE Idle
        BY <1>1, <2>2 DEF StartPass
      <3>2. CASE seen[c].live
        BY <3>1, <3>2
      <3>3. CASE ~seen[c].live
        BY <2>1, <3>3
      <3> QED
        BY <3>2, <3>3
    <2> QED
      BY <2>1, <2>2
  <1>2. Crash => c \in queue'
    BY DEF Crash
  <1>3. WorkerStep => queue \subseteq queue'
    BY DEF WorkerStep, Identify, AddFinalizer, Ensure, Ensured, FindKeycloak, Register, Publish,
           DropBinding, ClearFinalizers, Requeue, Settle, Advance, Goto
  <1>4. ASSUME NEW d \in CRs, UserCreate(d) \/ UserEdit(d) \/ UserDelete(d) \/ RemoveForeign(d)
        PROVE  queue' = queue
    BY <1>4 DEF UserCreate, UserEdit, UserDelete, RemoveForeign
  <1>5. Machinery => queue \subseteq queue' \/ Crash \/ \E d \in CRs : StartPass(d)
    BY DEF Machinery, InformerSync, Resync, ObjectsSync, KeycloakProgress, GarbageCollect,
           LoseObject
  <1> QED
    BY <1>1, <1>2, <1>3, <1>4, <1>5, NextCases

(* With the deletion of bindings reliable, only two steps end a pass for   *)
(* good: the write of the status and the lifting of the finalizer.         *)
LEMMA CleanUpGoesOn ==
    ASSUME QueueAssumption, TypeOK, OnlyLagging, NEW step, NEW k \in ClusterBindings,
           NEW next \in CleanupSteps, DropBinding(step, k, next)
    PROVE  pass'.cr = pass.cr
  <1>1. InformerOf(k) = "ClusterRoleBinding" /\ Key(k)[2] = k
    <2>1. InformerOf("TektonBinding") = "ClusterRoleBinding"
      BY DEF InformerOf, ClusterBindings, SharedKinds, Deployments
    <2>2. InformerOf("ODOBinding") = "ClusterRoleBinding"
      BY DEF InformerOf, ClusterBindings, SharedKinds, Deployments
    <2>3. k = "TektonBinding" \/ k = "ODOBinding"
      BY DEF ClusterBindings
    <2>4. Key(k)[2] = k
      BY BindingKey
    <2> QED
      BY <2>1, <2>2, <2>3, <2>4
  <1>2. Key(k) \in View => Key(k) \in objs
    BY <1>1 DEF View, OnlyLagging, QueueAssumption
  <1>3. ~Fault("delete")
    BY DEF Fault, QueueAssumption
  <1>4. Goto(next)
    BY <1>2, <1>3 DEF DropBinding
  <1> QED
    BY <1>4 DEF Goto, TypeOK, Passes

LEMMA WorkerSettles ==
    ASSUME QueueAssumption, TypeOK, OnlyLagging, WorkerStep
    PROVE  \/ pass'.cr = pass.cr
           \/ pass.cr \in queue'
           \/ /\ pass.pc = "publish" /\ Accepts(pass.cr, pass.cw)
              /\ Commit(pass.cr, [cr[pass.cr] EXCEPT !.status = pass.cw.status,
                                                    !.url = pass.cw.url])
           \/ /\ pass.pc = "clear" /\ Accepts(pass.cr, pass.cw)
              /\ Commit(pass.cr, [cr[pass.cr] EXCEPT !.fin = {}])
  <1>1. Requeue => pass.cr \in queue'
    BY DEF Requeue
  <1>2. CASE Identify
    BY <1>1, <1>2 DEF Identify
  <1>3. CASE AddFinalizer
    BY <1>1, <1>3, AddFinalizerPass DEF AddFinalizer, WentOn, WroteOn, Advance, Goto, TypeOK, Passes
  <1>4. ASSUME NEW k \in Kinds, Ensure(k)
        PROVE  pass'.cr = pass.cr \/ pass.cr \in queue'
    <2>1. Advance => pass'.cr = pass.cr
      BY DEF Advance, Goto, TypeOK, Passes
    <2>2. Ensured(k) => pass'.cr = pass.cr \/ Requeue
      BY <2>1 DEF Ensured, TypeOK, Passes
    <2> QED
      BY <1>1, <1>4, <2>1, <2>2 DEF Ensure
  <1>5. CASE FindKeycloak \/ Register
    BY <1>1, <1>5 DEF FindKeycloak, Register, Advance, Goto, TypeOK, Passes
  <1>6. CASE Publish
    BY <1>1, <1>6 DEF Publish
  <1>7. CASE ClearFinalizers
    BY <1>1, <1>7 DEF ClearFinalizers
  <1>8. "TektonBinding" \in ClusterBindings /\ "ODOBinding" \in ClusterBindings
    BY DEF ClusterBindings
  <1> QED
    BY <1>2, <1>3, <1>4, <1>5, <1>6, <1>7, <1>8, CleanUpGoesOn, StepTypes DEF WorkerStep

(* A write that changes nothing was not needed. *)
LEMMA NothingToWrite ==
    ASSUME TypeOK, NEW c \in CRs, NEW new \in Codewind, new.rv = cr[c].rv,
           Commit(c, new), cr'[c] = cr[c]
    PROVE  new = cr[c]
  <1>1. cr \in [CRs -> Codewind] /\ cr[c].rv \in Nat
    BY DEF TypeOK, Codewind
  <1>2. Stored(new).rv = cr[c].rv + 1
    BY StoredMoves
  <1> QED
    BY <1>1, <1>2 DEF Commit

LEMMA PassKeeps ==
    ASSUME QueueAssumption, TypeOK, CopiesTrail, QueueHolds, Next, NEW c \in CRs,
           pass.cr = c, cr'[c] = cr[c], Unsettled(c)
    PROVE  c \in queue' \/ pass'.cr = c
  <1>1. pass.pc # "idle" /\ cr[c] \in Codewind
    BY NoCodewindAssumption DEF TypeOK
  <1>2. pass.pc \in {"publish", "clear"} /\ Accepts(c, pass.cw) => pass.cw.deleting = cr[c].deleting
    BY <1>1, AcceptedAgrees DEF SameCopy
  <1>3. ASSUME pass.pc = "publish", Accepts(c, pass.cw),
               Commit(c, [cr[c] EXCEPT !.status = pass.cw.status, !.url = pass.cw.url])
        PROVE  FALSE
    <2> DEFINE new == [cr[c] EXCEPT !.status = pass.cw.status, !.url = pass.cw.url]
    <2>1. new \in Codewind /\ new.rv = cr[c].rv /\ new.status = pass.cw.status
      BY <1>1, WriteType DEF Codewind
    <2>2. new = cr[c]
      BY <1>3, <2>1, NothingToWrite
    <2>3. pass.cw.status = "Complete" /\ ~pass.cw.deleting
      BY <1>3, DeploymentsLate DEF QueueHolds, PassStatus, PassPurpose, Bringing, GrantSteps
    <2>4. cr[c].status = "Complete"
      BY <2>1, <2>2, <2>3
    <2> QED
      BY <1>2, <1>3, <2>3, <2>4 DEF Unsettled
  <1>4. ASSUME pass.pc = "clear", Accepts(c, pass.cw), Commit(c, [cr[c] EXCEPT !.fin = {}])
        PROVE  FALSE
    <2> DEFINE new == [cr[c] EXCEPT !.fin = {}]
    <2>1. new \in Codewind /\ new.rv = cr[c].rv /\ new.fin = {}
      BY <1>1, WriteType DEF Codewind
    <2>2. new = cr[c]
      BY <1>4, <2>1, NothingToWrite
    <2>3. cr[c].deleting
      BY <1>2, <1>4, StepTypes DEF QueueHolds, PassPurpose
    <2> QED
      BY <2>1, <2>2, <2>3 DEF QueueHolds, DeletionPending
  <1>5. CASE WorkerStep
    BY <1>3, <1>4, <1>5, WorkerSettles DEF QueueHolds
  <1>6. CASE pass' = pass
    BY <1>6
  <1>7. Crash => c \in queue'
    BY DEF Crash, Unsettled
  <1>8. WorkerStep \/ pass' = pass \/ Crash
    BY <1>1 DEF Next, StartPass, UserCreate, UserEdit, UserDelete, RemoveForeign, InformerSync,
       Resync, ObjectsSync, KeycloakProgress, GarbageCollect, LoseObject
  <1> QED
    BY <1>5, <1>6, <1>7, <1>8

LEMMA NoLostWorkStep ==
    ASSUME QueueAssumption, TypeOK, CopiesTrail, QueueHolds, Next
    PROVE  NoLostWork'
  <1> SUFFICES ASSUME NEW c \in CRs, Unsettled(c)'
               PROVE  c \in queue' \/ pass'.cr = c \/ seen'[c] # cr'[c]
    BY DEF NoLostWork
  <1>1. CASE cr'[c] # cr[c]
    BY <1>1, WrittenUnseen
  <1>2. CASE cr'[c] = cr[c]
    <2>1. Unsettled(c) /\ cr[c].live
      BY <1>2 DEF Unsettled
    <2>2. c \in queue \/ pass.cr = c \/ seen[c] # cr[c]
      BY <2>1 DEF QueueHolds, NoLostWork
    <2> QED
      BY <1>2, <2>1, <2>2, QueueKeeps, PassKeeps, SeenEnqueues
  <1> QED
    BY <1>1, <1>2

LEMMA QueueStep ==
    ASSUME QueueAssumption, TypeOK, CopiesTrail, QueueHolds, [Next]_vars
    PROVE  QueueHolds'
  <1>1. CASE UNCHANGED vars
    BY <1>1 DEF vars, QueueHolds, DeletionPending, OnlyLagging, PassPurpose, PassStatus,
       Bringing, NoLostWork, Unsettled
  <1>2. CASE Next
    BY <1>2, DeletionPendingStep, OnlyLaggingStep, PassPurposeStep, PassStatusStep,
       NoLostWorkStep DEF QueueHolds
  <1> QED
    BY <1>1, <1>2

LEMMA InitQueue == Init => QueueHolds
  <1> SUFFICES ASSUME Init PROVE QueueHolds
    OBVIOUS
  <1>1. \A c \in CRs : ~cr[c].live /\ ~cr[c].deleting
    BY DEF Init, Absent
  <1>2. cached = {} /\ pass = Idle
    BY DEF Init
  <1> QED
    BY <1>1, <1>2, NoIdleBringing DEF QueueHolds, DeletionPending, OnlyLagging, PassPurpose,
       PassStatus, NoLostWork, Unsettled

(* Every Codewind that still needs a pass is queued, in work, or about to  *)
(* be enqueued, through edits, conflicts, failures and crashes, as long as *)
(* the bindings of a clean-up are deleted reliably.                        *)
THEOREM WorkNeverLost == ASSUME QueueAssumption PROVE Spec => []NoLostWork
  <1>1. Init => QueueHolds
    BY InitQueue
  <1>2. TypeOK /\ CopiesTrail /\ QueueHolds /\ [Next]_vars => QueueHolds'
    BY QueueStep
  <1>3. QueueHolds => NoLostWork
    BY DEF QueueHolds
  <1> QED
    BY <1>1, <1>2, <1>3, TypeCorrect, CopiesAlwaysTrail, PTL DEF Spec
=============================================================================
