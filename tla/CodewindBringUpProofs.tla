----------------------- MODULE CodewindBringUpProofs -----------------------
(***************************************************************************)
(* Proofs about the order of the bring-up: no pod starts before what it    *)
(* mounts, an auth secret in use holds a key, and a status that says       *)
(* Complete tells the truth. A pass knows no more than its copy and what   *)
(* the caches show, so the argument is about what every copy, every cache  *)
(* and every step of a pass has behind it. It needs that nobody deletes    *)
(* objects by hand, and that an OpenShift is always recognised as one.     *)
(***************************************************************************)
EXTENDS CodewindGuardProofs

BringUpAssumption ==
    /\ Losable = {}
    /\ OnOpenShift => "detect" \notin FaultKinds

(* The operators that follow take the state they speak of as parameters:   *)
(* the Codewinds, the workspaces registered, and the objects made.         *)

(* A workspace is in use while a Codewind that is not being deleted has it. *)
UsedIn(crs, w) ==
    /\ w # NoWorkspace
    /\ \E c \in CRs : crs[c].live /\ ~crs[c].deleting /\ crs[c].ws = w

ServedIn(clients, made, w) ==
    /\ w \in clients
    /\ \A k \in Needs(OnOpenShift) : PerWorkspace(w, k) \in made

(* A copy of a Codewind that says Complete tells the truth. *)
SettledIn(crs, clients, made, x) ==
    x.status = "Complete" /\ UsedIn(crs, x.ws) => ServedIn(clients, made, x.ws)

(* The order of the steps of a bring-up. *)
Place ==
    [finalizer          |-> 0,
     ClusterRole        |-> 1,
     RoleBinding        |-> 2,
     TektonClusterRole  |-> 3,
     TektonBinding      |-> 4,
     ODOClusterRole     |-> 5,
     ODOBinding         |-> 6,
     ServiceAccount     |-> 7,
     PVC                |-> 8,
     keycloak           |-> 9,
     register           |-> 10,
     PFE                |-> 11,
     PFEService         |-> 12,
     Performance        |-> 13,
     PerformanceService |-> 14,
     SessionSecret      |-> 15,
     TLSSecret          |-> 16,
     AuthSecret         |-> 17,
     Gatekeeper         |-> 18,
     GatekeeperService  |-> 19,
     Route              |-> 20,
     Ingress            |-> 20,
     publish            |-> 21]

Before(step) == {k \in Needs(OnOpenShift) : Place[k] < Place[step]}

Bringing(p) == p.pc \in GrantSteps \cup {"finalizer"}

(* What a pass p may rely on. *)
PassSound(p, crs, clients, made) ==
    /\ p.pc \in CleanupSteps => ~UsedIn(crs, p.cw.ws)
    /\ Bringing(p) =>
         /\ p.openshift = OnOpenShift
         /\ p.pc \in Kinds => p.pc \in Needs(OnOpenShift)
         /\ p.key => p.cw.ws \in clients
         /\ ~p.key => SettledIn(crs, clients, made, p.cw)
         /\ Place["register"] < Place[p.pc] => p.cw.status = "Complete"
         /\ UsedIn(crs, p.cw.ws) => \A k \in Before(p.pc) : PerWorkspace(p.cw.ws, k) \in made

(* Every workspace id there is was given out before. *)
Given ==
    /\ 0 < nextWs
    /\ \A c \in CRs : cr[c].ws < nextWs /\ seen[c].ws < nextWs
    /\ pass.cw.ws < nextWs
    /\ \A o \in objs \cup cached : o[1] < nextWs
    /\ \A w \in emptyAuth : w < nextWs

(* Nothing is made for a Codewind without a workspace id. *)
Named ==
    /\ \A c \in CRs : cr[c].ws = NoWorkspace => cr[c].status = ""
    /\ \A o \in objs : o[1] = NoWorkspace => o[2] \in SharedKinds
    /\ NoWorkspace \notin emptyAuth
    /\ Bringing(pass) \/ pass.pc \in CleanupSteps => pass.cw.ws # NoWorkspace

(* Every Codewind has an id of its own. *)
Unique == \A c, d \in CRs : cr[c].ws = cr[d].ws /\ cr[c].ws # NoWorkspace => c = d

(* A workspace whose deletion the cache has shown is not in use again. *)
Retired == \A c \in CRs : seen[c].deleting => ~UsedIn(cr, seen[c].ws)

(* What a trailing cache shows of a workspace in use is there. *)
Shown == \A o \in cached : o[1] = NoWorkspace \/ UsedIn(cr, o[1]) => o \in objs

Settled ==
    \A c \in CRs : /\ SettledIn(cr, registered, objs, cr[c])
                   /\ SettledIn(cr, registered, objs, seen[c])

AuthKept == \A w \in emptyAuth : ~UsedIn(cr, w)

BackedIn(clients, made, w) ==
    \A k \in Deployments : <<w, k>> \in made =>
        w \in clients /\ \A m \in Mounts[k] : <<w, m>> \in made

Backed == \A w \in Nat : UsedIn(cr, w) => BackedIn(registered, objs, w)

BringUpHolds ==
    /\ Given /\ Named /\ Unique /\ Retired
    /\ Shown /\ Settled /\ AuthKept /\ Backed
    /\ PassSound(pass, cr, registered, objs)

-----------------------------------------------------------------------------
(* The order of the steps.                                                 *)

LEMMA NoIdleBringing ==
    ~Bringing(Idle) /\ Idle.pc \notin CleanupSteps /\ Idle.cw.ws = NoWorkspace
  <1>1. Idle.cw.ws = NoWorkspace
    BY DEF Idle, Absent
  <1>2. ~Bringing(Idle) /\ Idle.pc \notin CleanupSteps
    <2>1. Idle.pc \notin GrantSteps /\ Idle.pc \notin CleanupSteps /\ Idle.pc # "finalizer"
      BY IdlePc, StepsApart
    <2> QED
      BY <2>1 DEF Bringing
  <1> QED
    BY <1>1, <1>2

(* A step leaves behind it what was behind the step before, and that one.  *)
LEMMA AfterPlace ==
    ASSUME NEW step \in BringUpSteps, NEW k \in Needs(OnOpenShift),
           step \in Kinds => step \in Needs(OnOpenShift),
           k \in Before(After(step, OnOpenShift))
    PROVE  k = step \/ k \in Before(step)
  BY DEF Before, Place, After, BringUpSteps, Needs, Kinds, SharedKinds, ClusterBindings,
         Owned, Deployments, Exposures

LEMMA AfterNeeds ==
    ASSUME NEW step \in BringUpSteps, step \in Kinds => step \in Needs(OnOpenShift),
           After(step, OnOpenShift) \in Kinds
    PROVE  After(step, OnOpenShift) \in Needs(OnOpenShift)
  BY DEF After, BringUpSteps, Needs, Kinds, SharedKinds, ClusterBindings, Owned,
         Deployments, Exposures

LEMMA LateSteps ==
    ASSUME NEW step \in BringUpSteps,
           Place["register"] < Place[After(step, OnOpenShift)]
    PROVE  step = "register" \/ Place["register"] < Place[step]
  BY DEF Place, After, BringUpSteps, Kinds, SharedKinds, ClusterBindings, Owned,
         Deployments, Exposures

LEMMA PublishLast == \A k \in Needs(OnOpenShift) : k \in Before("publish")
  BY DEF Before, Place, Needs, Kinds, SharedKinds, ClusterBindings, Owned, Deployments,
         Exposures

LEMMA DeploymentsLate ==
    /\ \A k \in Deployments \cup {"AuthSecret", "publish"} : Place["register"] < Place[k]
    /\ ~(Place["register"] < Place["finalizer"])
    /\ Before("finalizer") = {}
  BY DEF Before, Place, Deployments, Needs, Kinds, SharedKinds, ClusterBindings, Owned,
         Exposures

LEMMA MountsBefore ==
    ASSUME NEW k \in Deployments, NEW m \in Mounts[k]
    PROVE  m \in Before(k) /\ m \notin SharedKinds
  BY DEF Mounts, Before, Place, Needs, Kinds, SharedKinds, ClusterBindings, Owned,
         Deployments, Exposures

-----------------------------------------------------------------------------
(* What a step does to the cluster.                                        *)

(* How the id, the status and the life of a stored Codewind may change.    *)
Rewritten(c) ==
    /\ cr'[c].live /\ ~cr'[c].deleting
       => cr'[c].ws = NoWorkspace \/ (cr[c].live /\ ~cr[c].deleting)
    /\ \/ cr'[c].ws = cr[c].ws /\ cr'[c].status = cr[c].status
       \/ cr'[c].ws = NoWorkspace /\ cr'[c].status = ""
       \/ /\ cr[c].ws = NoWorkspace /\ cr'[c].ws = nextWs /\ nextWs' = nextWs + 1
          /\ c = pass.cr /\ cr'[c].status = cr[c].status
       \/ /\ c = pass.cr /\ pass.pc = "publish"
          /\ cr'[c].ws = pass.cw.ws /\ cr[c].ws = pass.cw.ws
          /\ cr'[c].status = pass.cw.status

LEMMA CommitRewrites ==
    ASSUME cr \in [CRs -> Codewind], NEW c \in CRs, NEW new \in Codewind, Commit(c, new)
    PROVE  \/ ~cr'[c].live /\ cr'[c].ws = NoWorkspace /\ cr'[c].status = ""
           \/ /\ cr'[c].live = new.live /\ cr'[c].deleting = new.deleting
              /\ cr'[c].ws = new.ws /\ cr'[c].status = new.status
  <1>1. LET gone == Absent(new.rv + 1)
        IN  ~gone.live /\ gone.ws = NoWorkspace /\ gone.status = ""
    BY DEF Absent
  <1>2. LET stored == [new EXCEPT !.rv = @ + 1]
        IN  /\ stored.live = new.live /\ stored.deleting = new.deleting
            /\ stored.ws = new.ws /\ stored.status = new.status
    BY DEF Codewind
  <1> QED
    BY <1>1, <1>2, CommitStores

LEMMA RewrittenSame == ASSUME NEW c \in CRs, cr'[c] = cr[c] PROVE Rewritten(c)
  BY DEF Rewritten

(* A write that leaves id, status and life alone, or ends that life. *)
LEMMA CommitKeeps ==
    ASSUME cr \in [CRs -> Codewind], NEW c \in CRs, NEW new \in Codewind, Commit(c, new),
           new.live = cr[c].live, new.ws = cr[c].ws, new.status = cr[c].status,
           new.deleting = cr[c].deleting \/ new.deleting = TRUE
    PROVE  Rewritten(c)
  BY CommitRewrites DEF Rewritten

LEMMA IdentifyRewrites == ASSUME TypeOK, CopiesTrail, Identify PROVE Rewritten(pass.cr)
  <1> DEFINE new == [cr[pass.cr] EXCEPT !.ws = nextWs]
  <1>1. pass.pc = "identify" /\ pass.pc # "idle" /\ pass.cw.ws = NoWorkspace
    BY DEF Identify, CopiesTrail
  <1>2. pass.cr \in CRs /\ cr \in [CRs -> Codewind] /\ new \in Codewind
    BY <1>1, WriteType DEF TypeOK
  <1>3. CASE UNCHANGED cr
    BY <1>2, <1>3, RewrittenSame
  <1>4. CASE Accepts(pass.cr, pass.cw) /\ Commit(pass.cr, new) /\ nextWs' = nextWs + 1
    <2>1. cr[pass.cr].ws = NoWorkspace
      BY <1>1, <1>4, AcceptedAgrees DEF SameCopy
    <2>2. /\ new.live = cr[pass.cr].live /\ new.deleting = cr[pass.cr].deleting
          /\ new.ws = nextWs /\ new.status = cr[pass.cr].status
      BY <1>2 DEF Codewind
    <2> HIDE DEF new
    <2> QED
      BY <1>2, <1>4, <2>1, <2>2, CommitRewrites DEF Rewritten
  <1> QED
    BY <1>3, <1>4 DEF Identify

LEMMA PublishRewrites == ASSUME TypeOK, CopiesTrail, Publish PROVE Rewritten(pass.cr)
  <1> DEFINE new == [cr[pass.cr] EXCEPT !.status = pass.cw.status, !.url = pass.cw.url]
  <1>1. pass.pc = "publish" /\ pass.pc # "idle"
    BY DEF Publish
  <1>2. pass.cr \in CRs /\ cr \in [CRs -> Codewind] /\ new \in Codewind
    BY <1>1, WriteType DEF TypeOK
  <1>3. CASE UNCHANGED cr
    BY <1>2, <1>3, RewrittenSame
  <1>4. CASE Accepts(pass.cr, pass.cw) /\ Commit(pass.cr, new)
    <2>1. cr[pass.cr].ws = pass.cw.ws
      BY <1>1, <1>4, AcceptedAgrees DEF SameCopy
    <2>2. /\ new.live = cr[pass.cr].live /\ new.deleting = cr[pass.cr].deleting
          /\ new.ws = cr[pass.cr].ws /\ new.status = pass.cw.status
      BY <1>2 DEF Codewind
    <2> HIDE DEF new
    <2> QED
      BY <1>1, <1>2, <1>4, <2>1, <2>2, CommitRewrites DEF Rewritten
  <1> QED
    BY <1>3, <1>4 DEF Publish

LEMMA WorkerRewrites ==
    ASSUME TypeOK, CopiesTrail, WorkerStep, NEW c \in CRs PROVE Rewritten(c)
  <1>1. CASE cr'[c] = cr[c]
    BY <1>1, RewrittenSame
  <1>2. CASE c = pass.cr
    <2>1. cr \in [CRs -> Codewind] /\ pass.pc # "idle"
      BY <1>2, NoCodewindAssumption DEF TypeOK
    <2>2. CASE Identify
      BY <1>2, <2>2, IdentifyRewrites
    <2>3. CASE Publish
      BY <1>2, <2>3, PublishRewrites
    <2>4. ASSUME NEW fin \in {{OwnFinalizer}, {}}, Commit(c, [cr[c] EXCEPT !.fin = fin])
          PROVE  Rewritten(c)
      <3> DEFINE new == [cr[c] EXCEPT !.fin = fin]
      <3>1. new \in Codewind
        BY <1>2, <2>1, WriteType
      <3>2. /\ new.live = cr[c].live /\ new.ws = cr[c].ws
            /\ new.status = cr[c].status /\ new.deleting = cr[c].deleting
        BY <2>1 DEF Codewind
      <3> HIDE DEF new
      <3>3. Commit(c, new)
        BY <2>4 DEF new
      <3> QED
        BY <2>1, <3>1, <3>2, <3>3, CommitKeeps
    <2>5. CASE AddFinalizer
      <3>1. UNCHANGED cr \/ Commit(c, [cr[c] EXCEPT !.fin = {OwnFinalizer}])
        BY <1>2, <2>5 DEF AddFinalizer
      <3> QED
        BY <1>1, <2>4, <3>1
    <2>6. CASE ClearFinalizers
      <3>1. UNCHANGED cr \/ Commit(c, [cr[c] EXCEPT !.fin = {}])
        BY <1>2, <2>6 DEF ClearFinalizers
      <3> QED
        BY <1>1, <2>4, <3>1
    <2>7. CASE FindKeycloak \/ Register
      BY <1>1, <2>7 DEF FindKeycloak, Register, cluster
    <2>8. ASSUME NEW k \in Kinds, Ensure(k)
          PROVE  UNCHANGED cr
      BY <2>8 DEF Ensure
    <2>9. ASSUME NEW step, NEW k, NEW next, DropBinding(step, k, next)
          PROVE  UNCHANGED cr
      BY <2>9 DEF DropBinding
    <2> QED
      BY <1>1, <2>2, <2>3, <2>5, <2>6, <2>7, <2>8, <2>9 DEF WorkerStep
  <1> QED
    BY <1>1, <1>2, WorkerMoves

LEMMA UserRewrites ==
    ASSUME TypeOK, NEW d \in CRs,
           UserCreate(d) \/ UserEdit(d) \/ UserDelete(d) \/ RemoveForeign(d), NEW c \in CRs
    PROVE  Rewritten(c)
  <1>1. cr \in [CRs -> Codewind] /\ cr[c] \in Codewind
    BY DEF TypeOK
  <1>2. CASE c # d
    BY <1>2, UserMoves, RewrittenSame
  <1>3. CASE UserCreate(c)
    <2>1. PICK fin \in SUBSET ForeignFinalizers :
            cr' = [cr EXCEPT ![c] = [Absent(cr[c].rv + 1) EXCEPT !.live = TRUE, !.fin = fin]]
      BY <1>1, <1>3 DEF UserCreate
    <2>2. cr'[c].ws = NoWorkspace /\ cr'[c].status = ""
      BY <1>1, <2>1 DEF Absent
    <2> QED
      BY <2>2 DEF Rewritten
  <1>4. CASE UserEdit(c)
    BY <1>1, <1>4 DEF UserEdit, Codewind, Rewritten
  <1>5. CASE UserDelete(c)
    <2> DEFINE new == [cr[c] EXCEPT !.deleting = TRUE]
    <2>1. /\ new \in Codewind /\ new.live = cr[c].live /\ new.ws = cr[c].ws
          /\ new.status = cr[c].status /\ new.deleting = TRUE
      BY <1>1 DEF Codewind
    <2> HIDE DEF new
    <2>2. Commit(c, new)
      BY <1>5 DEF UserDelete, new
    <2> QED
      BY <1>1, <2>1, <2>2, CommitKeeps
  <1>6. CASE RemoveForeign(c)
    <2> DEFINE new == [cr[c] EXCEPT !.fin = @ \ ForeignFinalizers]
    <2>1. cr[c].fin \ ForeignFinalizers \in SUBSET Finalizers
      BY <1>1 DEF Codewind
    <2>2. /\ new \in Codewind /\ new.live = cr[c].live /\ new.ws = cr[c].ws
          /\ new.status = cr[c].status /\ new.deleting = cr[c].deleting
      BY <1>1, <2>1 DEF Codewind
    <2> HIDE DEF new
    <2>3. Commit(c, new)
      BY <1>6 DEF RemoveForeign, new
    <2> QED
      BY <1>1, <2>2, <2>3, CommitKeeps
  <1> QED
    BY <1>2, <1>3, <1>4, <1>5, <1>6

LEMMA NextRewrites ==
    ASSUME TypeOK, CopiesTrail, Next, NEW c \in CRs PROVE Rewritten(c)
  <1>1. CASE Machinery
    BY <1>1, MachineryWritesNothing, RewrittenSame
  <1> QED
    BY <1>1, NextCases, WorkerRewrites, UserRewrites

LEMMA IdsGrow == ASSUME TypeOK, Next PROVE nextWs <= nextWs' /\ nextWs' \in Nat
  <1>1. nextWs \in Nat
    BY DEF TypeOK
  <1>2. nextWs' = nextWs \/ nextWs' = nextWs + 1
    BY DEF Next, WorkerStep, StartPass, Identify, AddFinalizer, Ensure, FindKeycloak, Register,
           Publish, DropBinding, ClearFinalizers, UserCreate, UserEdit, UserDelete,
           RemoveForeign, InformerSync, Resync, ObjectsSync, KeycloakProgress,
           GarbageCollect, LoseObject, Crash, cluster
  <1> QED
    BY <1>1, <1>2

(* A workspace comes into use only as its id is given out. *)
LEMMA UsedBefore ==
    ASSUME TypeOK, CopiesTrail, Next, NEW w, UsedIn(cr', w)
    PROVE  UsedIn(cr, w) \/ w = nextWs
  <1>1. PICK c \in CRs : cr'[c].live /\ ~cr'[c].deleting /\ cr'[c].ws = w /\ w # NoWorkspace
    BY DEF UsedIn
  <1>2. Rewritten(c)
    BY NextRewrites
  <1> QED
    BY <1>1, <1>2 DEF Rewritten, UsedIn

LEMMA ClientsKept == ASSUME Next PROVE registered \subseteq registered'
  BY DEF Next, WorkerStep, StartPass, Identify, AddFinalizer, Ensure, FindKeycloak, Register,
         Publish, DropBinding, ClearFinalizers, UserCreate, UserEdit, UserDelete,
         RemoveForeign, InformerSync, Resync, ObjectsSync, KeycloakProgress,
         GarbageCollect, LoseObject, Crash

-----------------------------------------------------------------------------
(* What was made for a workspace in use is there to stay.                  *)

LEMMA KeyOf ==
    ASSUME NEW k
    PROVE  Key(k) = PerWorkspace(pass.cw.ws, k) /\ Key(k)[2] = k
           /\ (Key(k)[1] = pass.cw.ws \/ Key(k)[1] = NoWorkspace)
  BY DEF Key, PerWorkspace

LEMMA BindingKey ==
    ASSUME NEW k \in ClusterBindings PROVE Key(k) = <<pass.cw.ws, k>> /\ k \notin Owned
  BY DEF Key, ClusterBindings, SharedKinds, Owned, Deployments, Exposures

LEMMA SharedUnowned == \A k \in SharedKinds : k \notin Owned
  BY DEF SharedKinds, Owned, Deployments, Exposures

LEMMA DropKeeps ==
    ASSUME PassSound(pass, cr, registered, objs), Named,
           NEW step \in CleanupSteps, NEW k \in ClusterBindings, NEW next,
           DropBinding(step, k, next),
           NEW o \in objs, o[1] = NoWorkspace \/ UsedIn(cr, o[1])
    PROVE  o \in objs'
  <1>1. pass.pc = step /\ (objs' = objs \/ objs' = objs \ {Key(k)})
    BY DEF DropBinding
  <1>2. ~UsedIn(cr, pass.cw.ws) /\ pass.cw.ws # NoWorkspace
    BY <1>1 DEF PassSound, Named
  <1>3. Key(k)[1] = pass.cw.ws
    BY BindingKey
  <1> QED
    BY <1>1, <1>2, <1>3

LEMMA CollectKeeps ==
    ASSUME Named, NEW ws, GarbageCollect(ws),
           NEW o \in objs, o[1] = NoWorkspace \/ UsedIn(cr, o[1])
    PROVE  o \in objs'
  <1>1. /\ objs' = objs \ {x \in objs : x[1] = ws /\ x[2] \in Owned}
        /\ \A c \in CRs : cr[c].ws # ws
    BY DEF GarbageCollect
  <1>2. CASE o[1] = NoWorkspace
    BY <1>1, <1>2, SharedUnowned DEF Named
  <1>3. CASE UsedIn(cr, o[1])
    BY <1>1, <1>3 DEF UsedIn
  <1> QED
    BY <1>2, <1>3

LEMMA ObjectsKept ==
    ASSUME BringUpAssumption, BringUpHolds, Next,
           NEW o \in objs, o[1] = NoWorkspace \/ UsedIn(cr, o[1])
    PROVE  o \in objs'
  <1>1. Named /\ PassSound(pass, cr, registered, objs)
    BY DEF BringUpHolds
  <1>2. ASSUME NEW k \in Kinds, Ensure(k)
        PROVE  objs \subseteq objs'
    BY <1>2 DEF Ensure, Add
  <1>3. CASE \/ DropBinding("dropODO", "ODOBinding", "dropTekton")
             \/ DropBinding("dropTekton", "TektonBinding", "clear")
    BY <1>1, <1>3, DropKeeps, StepTypes DEF ClusterBindings
  <1>4. ASSUME WorkerStep, ~ \E k \in Kinds : Ensure(k),
               ~DropBinding("dropODO", "ODOBinding", "dropTekton"),
               ~DropBinding("dropTekton", "TektonBinding", "clear")
        PROVE  UNCHANGED objs
    BY <1>4 DEF WorkerStep, Identify, AddFinalizer, FindKeycloak, Register, Publish,
           ClearFinalizers, cluster
  <1>5. ASSUME NEW d \in CRs, UserCreate(d) \/ UserEdit(d) \/ UserDelete(d) \/ RemoveForeign(d)
        PROVE  UNCHANGED objs
    BY <1>5 DEF UserCreate, UserEdit, UserDelete, RemoveForeign
  <1>6. ASSUME NEW x \in objs, GarbageCollect(x[1])
        PROVE  o \in objs'
    BY <1>1, <1>6, CollectKeeps
  <1>7. \A x \in objs : ~LoseObject(x)
    BY DEF LoseObject, BringUpAssumption
  <1>8. ASSUME Machinery
        PROVE  UNCHANGED objs \/ \E x \in objs : GarbageCollect(x[1])
    BY <1>7, <1>8 DEF Machinery, StartPass, InformerSync, Resync, ObjectsSync,
           KeycloakProgress, Crash, cluster
  <1> QED
    BY <1>2, <1>3, <1>4, <1>5, <1>6, <1>8, NextCases

LEMMA PerWorkspaceFor ==
    ASSUME NEW w, NEW k PROVE PerWorkspace(w, k)[1] = NoWorkspace \/ PerWorkspace(w, k)[1] = w
  BY DEF PerWorkspace

LEMMA MadeKept ==
    ASSUME BringUpAssumption, BringUpHolds, Next, NEW w, UsedIn(cr, w), NEW k,
           PerWorkspace(w, k) \in objs
    PROVE  PerWorkspace(w, k) \in objs'
  BY PerWorkspaceFor, ObjectsKept

LEMMA ServedKept ==
    ASSUME BringUpAssumption, BringUpHolds, Next, NEW w, UsedIn(cr, w),
           ServedIn(registered, objs, w)
    PROVE  ServedIn(registered', objs', w)
  BY MadeKept, ClientsKept DEF ServedIn

LEMMA SettledKept ==
    ASSUME BringUpAssumption, BringUpHolds, TypeOK, CopiesTrail, Next,
           NEW x, x.ws # nextWs, SettledIn(cr, registered, objs, x)
    PROVE  SettledIn(cr', registered', objs', x)
  BY UsedBefore, ServedKept DEF SettledIn

(* What a pass relies on, it may rely on after any step, its own included. *)
LEMMA SoundKept ==
    ASSUME BringUpAssumption, BringUpHolds, TypeOK, CopiesTrail, Next
    PROVE  PassSound(pass, cr', registered', objs')
  <1> DEFINE w == pass.cw.ws
  <1>1. PassSound(pass, cr, registered, objs) /\ w # nextWs
    <2>1. w < nextWs /\ nextWs \in Nat /\ w \in Nat
      BY DEF BringUpHolds, Given, TypeOK, Passes, Codewind
    <2> QED
      BY <2>1 DEF BringUpHolds
  <1>2. UsedIn(cr', w) => UsedIn(cr, w)
    BY <1>1, UsedBefore
  <1>3. SettledIn(cr, registered, objs, pass.cw) => SettledIn(cr', registered', objs', pass.cw)
    BY <1>1, SettledKept
  <1>4. \A k : UsedIn(cr, w) /\ PerWorkspace(w, k) \in objs => PerWorkspace(w, k) \in objs'
    BY MadeKept
  <1> HIDE DEF w
  <1>5. pass.pc \in CleanupSteps => ~UsedIn(cr', w)
    BY <1>1, <1>2 DEF PassSound, w
  <1>6. ASSUME Bringing(pass), UsedIn(cr', w)
        PROVE  \A k \in Before(pass.pc) : PerWorkspace(w, k) \in objs'
    BY <1>1, <1>2, <1>4, <1>6 DEF PassSound, w
  <1> QED
    BY <1>1, <1>3, <1>5, <1>6, ClientsKept DEF PassSound, w

-----------------------------------------------------------------------------
(* How a pass goes on.                                                     *)

Begun(c) ==
    /\ pass'.pc = FirstStep(seen[c]) /\ pass'.cw = seen[c]
    /\ pass'.openshift = OnOpenShift /\ pass'.key = FALSE

(* The next step of the bring-up, and where its status comes from. *)
BroughtOn ==
    /\ pass.pc \in BringUpSteps /\ pass'.pc = After(pass.pc, pass.openshift)
    /\ pass'.openshift = pass.openshift
    /\ pass'.cw.ws = pass.cw.ws
    /\ pass.pc \in Kinds => PerWorkspace(pass.cw.ws, pass.pc) \in objs' \cup cached
    /\ \/ /\ pass'.key = pass.key /\ pass'.cw.status = pass.cw.status
          /\ pass.pc = "register" => pass.cw.status = "Complete"
       \/ /\ pass.pc = "register" /\ pass'.key = TRUE
          /\ pass'.cw.status = "Complete" /\ pass.cw.ws \in registered'
       \/ /\ pass.pc = "finalizer" /\ pass'.key = pass.key
          /\ pass'.cw.status = cr[pass.cr].status /\ cr[pass.cr].ws = pass.cw.ws

LEMMA StartPassBegins ==
    ASSUME BringUpAssumption, NEW c \in CRs, StartPass(c)
    PROVE  pass' = pass \/ pass' = Idle \/ Begun(c)
  <1>1. CASE UNCHANGED pass
    BY <1>1
  <1>2. ASSUME NEW detected \in {OnOpenShift, FALSE},
               detected = OnOpenShift \/ Fault("detect"),
               pass' = IF seen[c].live
                       THEN [pc |-> FirstStep(seen[c]), cr |-> c, cw |-> seen[c],
                             openshift |-> detected, key |-> FALSE]
                       ELSE Idle
        PROVE  pass' = Idle \/ Begun(c)
    <2>1. detected = OnOpenShift
      BY <1>2, OpenShiftAssumption DEF Fault, BringUpAssumption
    <2> QED
      BY <1>2, <2>1 DEF Begun
  <1>3. \/ UNCHANGED pass
        \/ \E detected \in {OnOpenShift, FALSE} :
             /\ detected = OnOpenShift \/ Fault("detect")
             /\ pass' = IF seen[c].live
                        THEN [pc |-> FirstStep(seen[c]), cr |-> c, cw |-> seen[c],
                              openshift |-> detected, key |-> FALSE]
                        ELSE Idle
    BY DEF StartPass
  <1> QED
    BY <1>1, <1>2, <1>3

LEMMA Advances ==
    ASSUME pass \in Passes, Advance
    PROVE  /\ pass'.pc = After(pass.pc, pass.openshift) /\ pass'.cw = pass.cw
           /\ pass'.openshift = pass.openshift /\ pass'.key = pass.key
  BY DEF Advance, Goto, Passes

LEMMA EnsuredBrings ==
    ASSUME TypeOK, NEW k \in Kinds, pass.pc = k, Ensured(k)
    PROVE  \/ pass' = Idle
           \/ /\ pass'.pc = After(pass.pc, pass.openshift) /\ pass'.cw.ws = pass.cw.ws
              /\ pass'.cw.status = pass.cw.status
              /\ pass'.openshift = pass.openshift /\ pass'.key = pass.key
  <1>1. pass \in Passes /\ pass.cw \in Codewind
    BY DEF TypeOK, Passes
  <1>2. CASE Requeue
    BY <1>2 DEF Requeue
  <1>3. CASE Advance
    BY <1>1, <1>3, Advances
  <1>4. CASE k \in Exposures /\ pass' = [pass EXCEPT !.pc = "publish", !.cw.url = TRUE]
    <2>1. pass' = [pass EXCEPT !.pc = "publish", !.cw = [pass.cw EXCEPT !.url = TRUE]]
      BY <1>1, <1>4 DEF Passes
    <2>2. LET shown == [pass.cw EXCEPT !.url = TRUE]
          IN  shown.ws = pass.cw.ws /\ shown.status = pass.cw.status
      BY <1>1 DEF Codewind
    <2>3. After(k, pass.openshift) = "publish"
      BY <1>4 DEF Exposures, After
    <2> QED
      BY <1>1, <2>1, <2>2, <2>3 DEF Passes
  <1> QED
    BY <1>2, <1>3, <1>4 DEF Ensured

LEMMA EnsureBrings ==
    ASSUME TypeOK, NEW k \in Kinds, Ensure(k)
    PROVE  pass' = Idle \/ BroughtOn
  <1>1. pass.pc = k /\ pass \in Passes /\ pass.pc \in BringUpSteps
    BY StepTypes DEF Ensure, TypeOK
  <1>2. Key(k) = PerWorkspace(pass.cw.ws, pass.pc) /\ pass.pc # "register"
    BY <1>1, KeyOf DEF Kinds, SharedKinds, ClusterBindings, Owned, Deployments, Exposures
  <1>3. CASE Key(k) \in View /\ Advance /\ UNCHANGED objs
    <2>1. Key(k) \in objs' \cup cached
      BY <1>3 DEF View
    <2> QED
      BY <1>1, <1>2, <1>3, <2>1, Advances DEF BroughtOn
  <1>4. CASE Ensured(k) /\ Key(k) \in objs'
    BY <1>1, <1>2, <1>4, EnsuredBrings DEF BroughtOn
  <1>5. CASE Requeue
    BY <1>5 DEF Requeue
  <1>6. \/ Key(k) \in View /\ Advance /\ UNCHANGED objs
        \/ Ensured(k) /\ Key(k) \in objs'
        \/ Requeue
    BY DEF Ensure, Add
  <1> QED
    BY <1>3, <1>4, <1>5, <1>6

LEMMA RegisterBrings ==
    ASSUME TypeOK, Register PROVE pass' = Idle \/ BroughtOn
  <1>1. /\ pass.pc = "register" /\ pass \in Passes /\ pass.pc \in BringUpSteps
        /\ pass.pc \notin Kinds /\ pass.cw \in Codewind
    BY StepTypes DEF Register, TypeOK, Passes, Kinds, SharedKinds, ClusterBindings, Owned,
       Deployments, Exposures
  <1>2. CASE pass.cw.status # "" /\ Advance
    <2>1. pass.cw.status = "Complete"
      BY <1>1, <1>2 DEF Codewind, Statuses
    <2> QED
      BY <1>1, <1>2, <2>1, Advances DEF BroughtOn
  <1>3. CASE /\ registered' = registered \cup {pass.cw.ws}
             /\ pass' = [pass EXCEPT !.pc = After(@, pass.openshift),
                                     !.cw.status = "Complete", !.key = TRUE]
    <2>1. pass' = [pass EXCEPT !.pc = After(pass.pc, pass.openshift),
                               !.cw = [pass.cw EXCEPT !.status = "Complete"], !.key = TRUE]
      BY <1>1, <1>3 DEF Passes
    <2>2. LET done == [pass.cw EXCEPT !.status = "Complete"]
          IN  done.ws = pass.cw.ws /\ done.status = "Complete"
      BY <1>1 DEF Codewind
    <2> QED
      BY <1>1, <1>3, <2>1, <2>2 DEF BroughtOn, Passes
  <1>4. CASE Requeue
    BY <1>4 DEF Requeue
  <1> QED
    BY <1>2, <1>3, <1>4 DEF Register

LEMMA AddFinalizerBrings ==
    ASSUME TypeOK, CopiesTrail, AddFinalizer PROVE pass' = Idle \/ BroughtOn
  <1> DEFINE new == [cr[pass.cr] EXCEPT !.fin = {OwnFinalizer}]
  <1>1. /\ pass.pc = "finalizer" /\ pass.pc # "idle" /\ pass \in Passes
        /\ pass.pc \in BringUpSteps /\ pass.pc \notin Kinds /\ pass.pc # "register"
    BY StepTypes DEF AddFinalizer, TypeOK, Kinds, SharedKinds, ClusterBindings, Owned,
       Deployments, Exposures
  <1>2. CASE Advance
    BY <1>1, <1>2, Advances DEF BroughtOn
  <1>3. CASE /\ Accepts(pass.cr, pass.cw) /\ Commit(pass.cr, new)
             /\ pass' = [pass EXCEPT !.pc = After(@, pass.openshift), !.cw = cr'[pass.cr]]
    <2>1. cr[pass.cr].ws = pass.cw.ws
      BY <1>1, <1>3, AcceptedAgrees DEF SameCopy
    <2>2. /\ pass.cr \in CRs /\ cr \in [CRs -> Codewind]
          /\ new \in Codewind /\ cr[pass.cr] \in Codewind
      BY <1>1, WriteType DEF TypeOK
    <2>3. new.fin # {} /\ new.ws = cr[pass.cr].ws /\ new.status = cr[pass.cr].status
      BY <2>2 DEF Codewind
    <2> HIDE DEF new
    <2>4. cr'[pass.cr].ws = new.ws /\ cr'[pass.cr].status = new.status
      <3>1. LET stored == [new EXCEPT !.rv = @ + 1]
            IN  stored.ws = new.ws /\ stored.status = new.status
        BY <2>2 DEF Codewind
      <3> QED
        BY <1>3, <2>2, <2>3, <3>1, CommitStores
    <2> QED
      BY <1>1, <1>3, <2>1, <2>3, <2>4 DEF BroughtOn, Passes
  <1>4. CASE Requeue
    BY <1>4 DEF Requeue
  <1> QED
    BY <1>2, <1>3, <1>4 DEF AddFinalizer

LEMMA FindKeycloakBrings ==
    ASSUME TypeOK, FindKeycloak PROVE pass' = Idle \/ BroughtOn
  <1>1. /\ pass.pc = "keycloak" /\ pass \in Passes
        /\ pass.pc \in BringUpSteps /\ pass.pc \notin Kinds
    BY StepTypes DEF FindKeycloak, TypeOK, Kinds, SharedKinds, ClusterBindings, Owned,
       Deployments, Exposures
  <1> QED
    BY <1>1, Advances DEF FindKeycloak, Requeue, BroughtOn

PassGoesOn ==
    \/ pass' = pass
    \/ pass' = Idle
    \/ \E c \in CRs : Begun(c) /\ UNCHANGED cluster
    \/ pass.pc \in CleanupSteps /\ pass'.pc \in CleanupSteps /\ pass'.cw = pass.cw
    \/ BroughtOn

LEMMA NextPass ==
    ASSUME BringUpAssumption, TypeOK, CopiesTrail, Next PROVE PassGoesOn
  <1>1. ASSUME NEW step \in CleanupSteps, NEW k, NEW next \in CleanupSteps,
               DropBinding(step, k, next)
        PROVE  pass' = Idle \/ (/\ pass.pc \in CleanupSteps /\ pass'.pc \in CleanupSteps
                                /\ pass'.cw = pass.cw)
    BY <1>1 DEF DropBinding, Settle, Goto, TypeOK, Passes
  <1>2. Identify \/ Publish \/ ClearFinalizers => pass' = Idle
    BY DEF Identify, Publish, ClearFinalizers, Settle, Requeue
  <1>3. WorkerStep => PassGoesOn
    BY <1>1, <1>2, AddFinalizerBrings, EnsureBrings, RegisterBrings, FindKeycloakBrings,
       StepTypes DEF WorkerStep, PassGoesOn
  <1>4. ASSUME NEW c \in CRs, StartPass(c)
        PROVE  PassGoesOn
    BY <1>4, StartPassBegins DEF PassGoesOn, StartPass
  <1> QED
    BY <1>3, <1>4, PassKept DEF PassGoesOn

-----------------------------------------------------------------------------
(* The invariant is kept, part by part.                                    *)

LEMMA ObjectsAdded ==
    ASSUME Next, NEW o \in objs', o \notin objs
    PROVE  pass.pc \in Kinds /\ o = Key(pass.pc) /\ Ensure(pass.pc)
  <1>1. PICK k \in Kinds : Ensure(k)
    BY ObjectsGrow
  <1> QED
    BY <1>1 DEF Ensure, Add

(* The caches take over only what the API server has. *)
LEMMA CachedFollow ==
    ASSUME Next PROVE cached' \subseteq cached \/ (cached' \subseteq cached \cup objs /\ UNCHANGED objs)
  <1>1. ASSUME NEW i, ObjectsSync(i)
        PROVE  cached' \subseteq cached \cup objs /\ UNCHANGED objs
    BY <1>1 DEF ObjectsSync, OfInformer, cluster
  <1>2. CASE Crash
    BY <1>2 DEF Crash, cluster
  <1>3. ASSUME WorkerStep \/ \E c \in CRs : UserCreate(c) \/ UserEdit(c) \/ UserDelete(c) \/ RemoveForeign(c)
        PROVE  UNCHANGED cached
    BY <1>3 DEF WorkerStep, Identify, AddFinalizer, Ensure, FindKeycloak, Register, Publish,
           DropBinding, ClearFinalizers, UserCreate, UserEdit, UserDelete, RemoveForeign, caches
  <1>4. Machinery => UNCHANGED cached \/ Crash \/ \E i \in Lagging : ObjectsSync(i)
    BY DEF Machinery, StartPass, InformerSync, Resync, KeycloakProgress, GarbageCollect,
           LoseObject, caches
  <1> QED
    BY <1>1, <1>2, <1>3, <1>4, NextCases

(* An auth secret is made of an empty key in a pass that has none. *)
LEMMA EmptyAuthAdded ==
    ASSUME Next, NEW w \in emptyAuth', w \notin emptyAuth
    PROVE  /\ pass.pc = "AuthSecret" /\ ~pass.key /\ w = pass.cw.ws
           /\ Key("AuthSecret") \notin objs
  <1>1. ASSUME WorkerStep, ~ \E k \in Kinds : Ensure(k)
        PROVE  UNCHANGED emptyAuth
    BY <1>1 DEF WorkerStep, Identify, AddFinalizer, FindKeycloak, Register, Publish,
           DropBinding, ClearFinalizers, cluster
  <1>2. ASSUME NEW d \in CRs, UserCreate(d) \/ UserEdit(d) \/ UserDelete(d) \/ RemoveForeign(d)
        PROVE  UNCHANGED emptyAuth
    BY <1>2 DEF UserCreate, UserEdit, UserDelete, RemoveForeign
  <1>3. Machinery => emptyAuth' \subseteq emptyAuth
    BY DEF Machinery, StartPass, InformerSync, Resync, ObjectsSync, KeycloakProgress,
           GarbageCollect, LoseObject, Crash, cluster
  <1>4. PICK k \in Kinds : Ensure(k)
    BY <1>1, <1>2, <1>3, NextCases
  <1> QED
    BY <1>4 DEF Ensure, Add

LEMMA KindSteps ==
    /\ Kinds \subseteq GrantSteps /\ "AuthSecret" \in Kinds
    /\ \A k \in Kinds : k # "identify" /\ k # "idle"
  BY StepsApart DEF GrantSteps, Kinds, Owned, SharedKinds, ClusterBindings, Deployments, Exposures

LEMMA PassWs ==
    ASSUME BringUpAssumption, TypeOK, CopiesTrail, Next
    PROVE  \/ pass'.cw.ws = NoWorkspace
           \/ pass'.cw.ws = pass.cw.ws
           \/ \E c \in CRs : pass'.cw.ws = seen[c].ws
  BY NextPass, NoIdleBringing DEF PassGoesOn, BroughtOn, Begun

LEMMA GivenStep ==
    ASSUME BringUpAssumption, TypeOK, TypeOK', CopiesTrail, BringUpHolds, Next
    PROVE  Given'
  <1>1. Given /\ nextWs \in Nat /\ nextWs' \in Nat /\ nextWs <= nextWs'
    BY IdsGrow DEF BringUpHolds, TypeOK
  <1>2. \A c \in CRs : cr[c].ws \in Nat /\ cr'[c].ws \in Nat /\ seen[c].ws \in Nat
    BY DEF TypeOK, Codewind
  <1>3. pass.cw.ws \in Nat
    BY DEF TypeOK, Passes, Codewind
  <1>4. ASSUME NEW c \in CRs PROVE cr'[c].ws < nextWs'
    <2>1. \/ cr'[c].ws \in {cr[c].ws, NoWorkspace, pass.cw.ws}
          \/ cr'[c].ws = nextWs /\ nextWs' = nextWs + 1
      BY NextRewrites DEF Rewritten
    <2> QED
      BY <1>1, <1>2, <1>3, <2>1 DEF Given, NoWorkspace
  <1>5. ASSUME NEW c \in CRs PROVE seen'[c].ws < nextWs'
    <2>1. seen'[c] = seen[c] \/ seen'[c] = cr[c]
      BY SeenCatchesUp
    <2> QED
      BY <1>1, <1>2, <2>1 DEF Given
  <1>6. pass'.cw.ws < nextWs'
    BY <1>1, <1>2, <1>3, PassWs DEF Given, NoWorkspace
  <1>7. ASSUME NEW o \in objs' \cup cached' PROVE o[1] < nextWs'
    <2>1. ASSUME o \in objs \cup cached PROVE o[1] < nextWs'
      <3>1. o[1] \in Nat /\ o[1] < nextWs
        BY <1>1, <2>1 DEF TypeOK, Objects, Given
      <3> QED
        BY <1>1, <3>1
    <2>2. ASSUME o \in objs', o \notin objs PROVE o[1] < nextWs'
      <3>1. o[1] = pass.cw.ws \/ o[1] = NoWorkspace
        BY <2>2, ObjectsAdded, KeyOf
      <3> QED
        BY <1>1, <1>3, <3>1 DEF Given, NoWorkspace
    <2> QED
      BY <2>1, <2>2, CachedFollow
  <1>8. ASSUME NEW w \in emptyAuth' PROVE w < nextWs'
    <2>1. w \in emptyAuth \/ w = pass.cw.ws
      BY EmptyAuthAdded
    <2>2. w \in Nat /\ w < nextWs
      BY <1>1, <1>3, <2>1 DEF TypeOK, Given
    <2> QED
      BY <1>1, <2>2
  <1>9. 0 < nextWs'
    BY <1>1 DEF Given
  <1> QED
    BY <1>4, <1>5, <1>6, <1>7, <1>8, <1>9 DEF Given

LEMMA NamedStep ==
    ASSUME BringUpAssumption, TypeOK, CopiesTrail, BringUpHolds, Next
    PROVE  Named'
  <1>1. Named /\ Given /\ nextWs \in Nat
    BY DEF BringUpHolds, TypeOK
  <1>2. ASSUME NEW c \in CRs, cr'[c].ws = NoWorkspace PROVE cr'[c].status = ""
    <2>1. \/ cr'[c].ws = cr[c].ws /\ cr'[c].status = cr[c].status
          \/ cr'[c].status = ""
          \/ cr'[c].ws = nextWs
          \/ pass.pc = "publish" /\ cr'[c].ws = pass.cw.ws
      BY NextRewrites DEF Rewritten
    <2>2. nextWs # NoWorkspace
      BY <1>1 DEF Given, NoWorkspace
    <2>3. pass.pc = "publish" => pass.cw.ws # NoWorkspace
      BY <1>1 DEF Named, Bringing, GrantSteps
    <2>4. cr[c].ws = NoWorkspace => cr[c].status = ""
      BY <1>1 DEF Named
    <2>5. cr'[c].ws = cr[c].ws /\ cr'[c].status = cr[c].status => cr'[c].status = ""
      BY <1>2, <2>4
    <2>6. cr'[c].ws # nextWs
      BY <1>2, <2>2
    <2>7. ~(pass.pc = "publish" /\ cr'[c].ws = pass.cw.ws)
      BY <1>2, <2>3
    <2> QED
      BY <2>1, <2>5, <2>6, <2>7
  <1>3. ASSUME NEW o \in objs', o[1] = NoWorkspace PROVE o[2] \in SharedKinds
    <2>1. CASE o \in objs
      BY <1>1, <1>3, <2>1 DEF Named
    <2>2. CASE o \notin objs
      <3>1. pass.pc \in Kinds /\ o = Key(pass.pc)
        BY <2>2, ObjectsAdded
      <3>2. pass.cw.ws # NoWorkspace
        BY <1>1, <3>1, KindSteps DEF Named, Bringing
      <3> QED
        BY <1>3, <3>1, <3>2 DEF Key
    <2> QED
      BY <2>1, <2>2
  <1>4. NoWorkspace \notin emptyAuth'
    <2>1. pass.pc = "AuthSecret" => pass.cw.ws # NoWorkspace
      BY <1>1, KindSteps DEF Named, Bringing
    <2> QED
      BY <1>1, <2>1, EmptyAuthAdded DEF Named
  <1>5. ASSUME Bringing(pass') \/ pass'.pc \in CleanupSteps PROVE pass'.cw.ws # NoWorkspace
    <2>1. ASSUME NEW c \in CRs, Begun(c) PROVE pass'.cw.ws # NoWorkspace
      <3>1. pass'.pc # "identify"
        BY <1>5, StepsApart DEF Bringing
      <3> QED
        BY <2>1, <3>1 DEF Begun, FirstStep
    <2>2. BroughtOn => Bringing(pass) \/ pass.pc \in Kinds \cup {"keycloak", "register"}
      BY DEF BroughtOn, Bringing, BringUpSteps
    <2>3. Kinds \cup {"keycloak", "register"} \subseteq GrantSteps
      BY DEF GrantSteps
    <2>4. BroughtOn => pass'.cw.ws # NoWorkspace
      BY <1>1, <2>2, <2>3 DEF BroughtOn, Named, Bringing
    <2> QED
      BY <1>1, <1>5, <2>1, <2>4, NextPass, NoIdleBringing DEF PassGoesOn, Named, Bringing
  <1> QED
    BY <1>2, <1>3, <1>4, <1>5 DEF Named, Bringing

LEMMA UniqueStep ==
    ASSUME TypeOK, CopiesTrail, BringUpHolds, Next PROVE Unique'
  <1> SUFFICES ASSUME NEW c \in CRs, NEW d \in CRs, cr'[c].ws = cr'[d].ws,
                      cr'[c].ws # NoWorkspace
               PROVE  c = d
    BY DEF Unique
  <1>1. \A e \in CRs : cr[e].ws # nextWs
    <2>1. \A e \in CRs : cr[e].ws < nextWs /\ cr[e].ws \in Nat /\ nextWs \in Nat
      BY DEF BringUpHolds, Given, TypeOK, Codewind
    <2> QED
      BY <2>1
  <1>2. \A e \in CRs : Rewritten(e)
    BY NextRewrites
  <1>3. \A e \in CRs : cr'[e].ws # NoWorkspace => \/ cr'[e].ws = cr[e].ws
                                                  \/ cr'[e].ws = nextWs /\ e = pass.cr
    BY <1>2 DEF Rewritten
  <1> QED
    BY <1>1, <1>3 DEF BringUpHolds, Unique

(* A Codewind that is being deleted has a workspace nobody uses. *)
LEMMA DeletingUnused ==
    ASSUME Unique, NEW c \in CRs, cr[c].deleting PROVE ~UsedIn(cr, cr[c].ws)
  BY DEF Unique, UsedIn

LEMMA RetiredStep ==
    ASSUME TypeOK, CopiesTrail, BringUpHolds, Next PROVE Retired'
  <1> SUFFICES ASSUME NEW c \in CRs, seen'[c].deleting PROVE ~UsedIn(cr', seen'[c].ws)
    BY DEF Retired
  <1>1. CASE seen'[c] = cr[c] /\ UNCHANGED cr
    BY <1>1, DeletingUnused DEF BringUpHolds
  <1>2. CASE seen'[c] = seen[c]
    <2>1. seen[c].ws < nextWs /\ seen[c].ws \in Nat /\ nextWs \in Nat
      BY DEF BringUpHolds, Given, TypeOK, Codewind
    <2>2. ~UsedIn(cr, seen[c].ws)
      BY <1>2 DEF BringUpHolds, Retired
    <2> QED
      BY <1>2, <2>1, <2>2, UsedBefore
  <1> QED
    BY <1>1, <1>2, SeenCatchesUp

(* What a step brings into use was in use before, but for an id just given out. *)
LEMMA OldUsed ==
    ASSUME TypeOK, CopiesTrail, Next, NEW w \in Nat, w < nextWs, UsedIn(cr', w)
    PROVE  UsedIn(cr, w)
  <1>1. nextWs \in Nat
    BY DEF TypeOK
  <1> QED
    BY <1>1, UsedBefore

LEMMA PassUsed ==
    ASSUME TypeOK, CopiesTrail, BringUpHolds, Next, UsedIn(cr', pass.cw.ws)
    PROVE  UsedIn(cr, pass.cw.ws)
  <1>1. pass.cw.ws \in Nat /\ pass.cw.ws < nextWs
    BY DEF TypeOK, Passes, Codewind, BringUpHolds, Given
  <1> QED
    BY <1>1, OldUsed

LEMMA ShownStep ==
    ASSUME BringUpAssumption, TypeOK, CopiesTrail, BringUpHolds, Next PROVE Shown'
  <1> SUFFICES ASSUME NEW o \in cached', o[1] = NoWorkspace \/ UsedIn(cr', o[1])
               PROVE  o \in objs'
    BY DEF Shown
  <1>1. CASE o \in cached
    <2>1. o[1] \in Nat /\ o[1] < nextWs
      BY <1>1 DEF TypeOK, Objects, BringUpHolds, Given
    <2>2. o[1] = NoWorkspace \/ UsedIn(cr, o[1])
      BY <2>1, OldUsed
    <2> QED
      BY <1>1, <2>2, ObjectsKept DEF BringUpHolds, Shown
  <1>2. CASE o \notin cached
    BY <1>2, CachedFollow
  <1> QED
    BY <1>1, <1>2

(* In a pass that has its client registered, a workspace in use is registered. *)
LEMMA LateRegistered ==
    ASSUME BringUpHolds, Bringing(pass), Place["register"] < Place[pass.pc],
           UsedIn(cr, pass.cw.ws)
    PROVE  /\ pass.cw.ws \in registered
           /\ ~pass.key => ServedIn(registered, objs, pass.cw.ws)
  <1>1. PassSound(pass, cr, registered, objs)
    BY DEF BringUpHolds
  <1>2. pass.cw.status = "Complete"
    BY <1>1 DEF PassSound
  <1>3. CASE pass.key
    BY <1>1, <1>3 DEF PassSound
  <1>4. CASE ~pass.key
    BY <1>1, <1>2, <1>4 DEF PassSound, SettledIn, ServedIn
  <1> QED
    BY <1>3, <1>4

LEMMA AuthKeptStep ==
    ASSUME BringUpAssumption, TypeOK, CopiesTrail, BringUpHolds, Next PROVE AuthKept'
  <1> SUFFICES ASSUME NEW w \in emptyAuth', UsedIn(cr', w) PROVE FALSE
    BY DEF AuthKept
  <1>1. CASE w \in emptyAuth
    <2>1. w \in Nat /\ w < nextWs /\ ~UsedIn(cr, w)
      BY <1>1 DEF TypeOK, BringUpHolds, Given, AuthKept
    <2> QED
      BY <2>1, OldUsed
  <1>2. CASE w \notin emptyAuth
    <2>1. /\ pass.pc = "AuthSecret" /\ ~pass.key /\ w = pass.cw.ws
          /\ Key("AuthSecret") \notin objs
      BY <1>2, EmptyAuthAdded
    <2>2. Bringing(pass) /\ Place["register"] < Place[pass.pc]
      BY <2>1, KindSteps, DeploymentsLate DEF Bringing
    <2>3. ServedIn(registered, objs, w)
      BY <2>1, <2>2, PassUsed, LateRegistered
    <2>4. "AuthSecret" \in Needs(OnOpenShift)
      BY KindSteps DEF Needs
    <2> QED
      BY <2>1, <2>3, <2>4, KeyOf DEF ServedIn
  <1> QED
    BY <1>1, <1>2

LEMMA DeploymentKinds == ASSUME NEW k \in Deployments PROVE k \in Kinds /\ k \notin SharedKinds
  BY DEF Deployments, Kinds, Owned, SharedKinds

LEMMA BackedStep ==
    ASSUME BringUpAssumption, TypeOK, CopiesTrail, BringUpHolds, Next PROVE Backed'
  <1> SUFFICES ASSUME NEW w \in Nat, UsedIn(cr', w), NEW k \in Deployments, <<w, k>> \in objs'
               PROVE  w \in registered' /\ \A m \in Mounts[k] : <<w, m>> \in objs'
    BY DEF Backed, BackedIn
  <1>1. CASE <<w, k>> \in objs
    <2>1. w < nextWs
      BY <1>1 DEF BringUpHolds, Given
    <2>2. UsedIn(cr, w)
      BY <2>1, OldUsed
    <2>3. w \in registered /\ \A m \in Mounts[k] : <<w, m>> \in objs
      BY <1>1, <2>2 DEF BringUpHolds, Backed, BackedIn
    <2> QED
      BY <2>2, <2>3, ObjectsKept, ClientsKept
  <1>2. CASE <<w, k>> \notin objs
    <2>1. pass.pc \in Kinds /\ <<w, k>> = Key(pass.pc)
      BY <1>2, ObjectsAdded
    <2>2. pass.pc = k
      BY <2>1, KeyOf
    <2>3. w = pass.cw.ws
      BY <2>1, <2>2, DeploymentKinds DEF Key
    <2>4. Bringing(pass) /\ Place["register"] < Place[pass.pc]
      BY <2>1, <2>2, KindSteps, DeploymentsLate DEF Bringing
    <2>5. UsedIn(cr, w)
      BY <2>3, PassUsed
    <2>6. w \in registered
      BY <2>3, <2>4, <2>5, LateRegistered
    <2>7. ASSUME NEW m \in Mounts[k] PROVE <<w, m>> \in objs
      <3>1. m \in Before(pass.pc) /\ PerWorkspace(w, m) = <<w, m>>
        BY <2>2, MountsBefore DEF PerWorkspace
      <3> QED
        BY <2>3, <2>4, <2>5, <3>1 DEF BringUpHolds, PassSound
    <2> QED
      BY <2>5, <2>6, <2>7, ObjectsKept, ClientsKept
  <1> QED
    BY <1>1, <1>2

(* A status is stored by the last step of a pass, which has it all done. *)
LEMMA PublishServes ==
    ASSUME BringUpHolds, pass.pc = "publish", pass.cw.status = "Complete",
           UsedIn(cr, pass.cw.ws)
    PROVE  ServedIn(registered, objs, pass.cw.ws)
  <1>1. Bringing(pass) /\ Place["register"] < Place[pass.pc]
    BY DeploymentsLate DEF Bringing, GrantSteps
  <1>2. pass.cw.ws \in registered
    BY <1>1, LateRegistered
  <1>3. \A k \in Needs(OnOpenShift) : PerWorkspace(pass.cw.ws, k) \in objs
    BY <1>1, PublishLast DEF BringUpHolds, PassSound
  <1> QED
    BY <1>2, <1>3 DEF ServedIn

LEMMA SettledAs ==
    ASSUME NEW crs, NEW clients, NEW made, NEW x, NEW y,
           SettledIn(crs, clients, made, x), x.ws = y.ws, x.status = y.status
    PROVE  SettledIn(crs, clients, made, y)
  BY DEF SettledIn

LEMMA OldWs ==
    ASSUME TypeOK, BringUpHolds, NEW c \in CRs
    PROVE  cr[c].ws # nextWs /\ seen[c].ws # nextWs
  <1>1. /\ cr[c].ws < nextWs /\ seen[c].ws < nextWs
        /\ cr[c].ws \in Nat /\ seen[c].ws \in Nat /\ nextWs \in Nat
    BY DEF TypeOK, Codewind, BringUpHolds, Given
  <1> QED
    BY <1>1

LEMMA SettledStep ==
    ASSUME BringUpAssumption, TypeOK, CopiesTrail, BringUpHolds, Next PROVE Settled'
  <1> SUFFICES ASSUME NEW c \in CRs
               PROVE  /\ SettledIn(cr', registered', objs', cr'[c])
                      /\ SettledIn(cr', registered', objs', seen'[c])
    BY DEF Settled
  <1>1. /\ SettledIn(cr', registered', objs', cr[c])
        /\ SettledIn(cr', registered', objs', seen[c])
    BY OldWs, SettledKept DEF BringUpHolds, Settled
  <1>2. SettledIn(cr', registered', objs', cr'[c])
    <2>1. \/ cr'[c].ws = cr[c].ws /\ cr'[c].status = cr[c].status
          \/ cr'[c].status = ""
          \/ cr[c].ws = NoWorkspace /\ cr'[c].status = cr[c].status
          \/ /\ pass.pc = "publish" /\ cr'[c].ws = pass.cw.ws
             /\ cr'[c].status = pass.cw.status
      BY NextRewrites DEF Rewritten
    <2>2. CASE cr'[c].ws = cr[c].ws /\ cr'[c].status = cr[c].status
      BY <1>1, <2>2, SettledAs
    <2>3. cr[c].ws = NoWorkspace => cr[c].status = ""
      BY DEF BringUpHolds, Named
    <2>4. CASE cr'[c].status = ""
      BY <2>4 DEF SettledIn
    <2>5. CASE /\ pass.pc = "publish" /\ cr'[c].ws = pass.cw.ws
               /\ cr'[c].status = pass.cw.status
      <3>1. ASSUME pass.cw.status = "Complete", UsedIn(cr', pass.cw.ws)
            PROVE  ServedIn(registered', objs', pass.cw.ws)
        BY <2>5, <3>1, PassUsed, PublishServes, ServedKept
      <3> QED
        BY <2>5, <3>1 DEF SettledIn
    <2> QED
      BY <2>1, <2>2, <2>3, <2>4, <2>5
  <1>3. SettledIn(cr', registered', objs', seen'[c])
    BY <1>1, SeenCatchesUp
  <1> QED
    BY <1>2, <1>3

LEMMA BegunSound ==
    ASSUME BringUpAssumption, TypeOK, CopiesTrail, BringUpHolds, Next,
           NEW c \in CRs, Begun(c), UNCHANGED cr
    PROVE  PassSound(pass', cr', registered', objs')
  <1>1. pass'.pc \in {"identify", "dropODO", "finalizer"}
    BY DEF Begun, FirstStep
  <1>2. pass'.pc \in CleanupSteps => ~UsedIn(cr', pass'.cw.ws)
    <2>1. pass'.pc \in CleanupSteps => seen[c].deleting
      BY StepTypes DEF Begun, FirstStep
    <2> QED
      BY <2>1 DEF Begun, BringUpHolds, Retired
  <1>3. Bringing(pass') => pass'.pc = "finalizer"
    BY <1>1, StepsApart, StepTypes DEF Bringing
  <1>4. SettledIn(cr', registered', objs', pass'.cw)
    BY OldWs, SettledKept DEF Begun, BringUpHolds, Settled
  <1>5. "finalizer" \notin Kinds
    BY KindSteps, StepsApart
  <1>6. Bringing(pass') =>
          /\ pass'.openshift = OnOpenShift /\ ~pass'.key
          /\ pass'.pc \notin Kinds
          /\ ~(Place["register"] < Place[pass'.pc])
          /\ Before(pass'.pc) = {}
    BY <1>3, <1>5, DeploymentsLate DEF Begun
  <1> QED
    BY <1>2, <1>4, <1>6 DEF PassSound

LEMMA BroughtOnSound ==
    ASSUME BringUpAssumption, TypeOK, CopiesTrail, BringUpHolds, Next, BroughtOn
    PROVE  PassSound(pass', cr', registered', objs')
  <1> DEFINE w == pass.cw.ws
  <1>1. PassSound(pass, cr', registered', objs')
    BY SoundKept
  <1>2. pass.pc \in BringUpSteps /\ Bringing(pass) /\ pass'.cw.ws = w
    BY DEF BroughtOn, BringUpSteps, Bringing, GrantSteps
  <1>3. pass.openshift = OnOpenShift /\ pass'.openshift = OnOpenShift
    BY <1>1, <1>2 DEF PassSound, BroughtOn
  <1>4. pass'.pc = After(pass.pc, OnOpenShift)
    BY <1>3 DEF BroughtOn
  <1>5. pass.pc \in Kinds => pass.pc \in Needs(OnOpenShift)
    BY <1>1, <1>2 DEF PassSound
  <1>6. pass'.pc \notin CleanupSteps
    BY <1>2, <1>4, AfterGrants, OpenShiftAssumption, StepsApart
  <1>7. pass'.pc \in Kinds => pass'.pc \in Needs(OnOpenShift)
    BY <1>2, <1>4, <1>5, AfterNeeds
  <1>8. pass'.key => w \in registered'
    BY <1>1, <1>2 DEF PassSound, BroughtOn
  <1>9. ASSUME ~pass'.key PROVE SettledIn(cr', registered', objs', pass'.cw)
    <2>1. CASE pass'.key = pass.key /\ pass'.cw.status = pass.cw.status
      BY <1>1, <1>2, <1>9, <2>1, SettledAs DEF PassSound
    <2>2. CASE /\ pass.pc = "finalizer"
               /\ pass'.cw.status = cr[pass.cr].status /\ cr[pass.cr].ws = w
      <3>1. pass.cr \in CRs
        BY <2>2, WriteType, StepsApart, StepTypes
      <3>2. SettledIn(cr', registered', objs', cr[pass.cr])
        BY <3>1, OldWs, SettledKept DEF BringUpHolds, Settled
      <3> QED
        BY <1>2, <2>2, <3>2, SettledAs
    <2> QED
      BY <1>9, <2>1, <2>2 DEF BroughtOn
  <1>10. ASSUME Place["register"] < Place[pass'.pc] PROVE pass'.cw.status = "Complete"
    <2>1. pass.pc = "register" \/ Place["register"] < Place[pass.pc]
      BY <1>2, <1>4, <1>10, LateSteps
    <2>2. pass.pc # "finalizer"
      BY <2>1, DeploymentsLate
    <2>3. Place["register"] < Place[pass.pc] => pass.cw.status = "Complete"
      BY <1>1, <1>2 DEF PassSound
    <2> QED
      BY <2>1, <2>2, <2>3 DEF BroughtOn
  <1>11. ASSUME UsedIn(cr', w), NEW k \in Before(pass'.pc)
         PROVE  PerWorkspace(w, k) \in objs'
    <2>1. k \in Needs(OnOpenShift)
      BY DEF Before
    <2>2. k = pass.pc \/ k \in Before(pass.pc)
      BY <1>2, <1>4, <1>5, <1>11, <2>1, AfterPlace
    <2>3. CASE k \in Before(pass.pc)
      BY <1>1, <1>2, <1>11, <2>3 DEF PassSound
    <2>4. CASE k = pass.pc
      <3>1. PerWorkspace(w, k) \in objs' \cup cached
        BY <2>1, <2>4 DEF BroughtOn, Needs
      <3>2. PerWorkspace(w, k)[1] = NoWorkspace \/ UsedIn(cr, PerWorkspace(w, k)[1])
        BY <1>11, PerWorkspaceFor, PassUsed
      <3>3. PerWorkspace(w, k) \in cached => PerWorkspace(w, k) \in objs
        BY <3>2 DEF BringUpHolds, Shown
      <3> QED
        BY <3>1, <3>2, <3>3, ObjectsKept
    <2> QED
      BY <2>2, <2>3, <2>4
  <1> HIDE DEF w
  <1> QED
    BY <1>2, <1>3, <1>6, <1>7, <1>8, <1>9, <1>10, <1>11 DEF PassSound

LEMMA PassSoundStep ==
    ASSUME BringUpAssumption, TypeOK, CopiesTrail, BringUpHolds, Next
    PROVE  PassSound(pass', cr', registered', objs')
  <1>1. PassSound(pass, cr', registered', objs')
    BY SoundKept
  <1>2. CASE pass' = Idle
    BY <1>2, NoIdleBringing DEF PassSound
  <1>3. CASE \E c \in CRs : Begun(c) /\ UNCHANGED cluster
    BY <1>3, BegunSound DEF cluster
  <1>4. CASE pass.pc \in CleanupSteps /\ pass'.pc \in CleanupSteps /\ pass'.cw = pass.cw
    <2>1. ~UsedIn(cr', pass'.cw.ws)
      BY <1>1, <1>4 DEF PassSound
    <2>2. ~Bringing(pass')
      BY <1>4, StepsApart DEF Bringing
    <2> QED
      BY <2>1, <2>2 DEF PassSound
  <1> QED
    BY <1>1, <1>2, <1>3, <1>4, BroughtOnSound, NextPass DEF PassGoesOn

LEMMA BringUpStep ==
    ASSUME BringUpAssumption, TypeOK, TypeOK', CopiesTrail, BringUpHolds, [Next]_vars
    PROVE  BringUpHolds'
  <1>1. CASE UNCHANGED vars
    BY <1>1 DEF vars, BringUpHolds, Given, Named, Bringing, Unique, Retired, Shown, Settled,
       AuthKept, Backed, BackedIn
  <1>2. CASE Next
    BY <1>2, GivenStep, NamedStep, UniqueStep, RetiredStep, ShownStep, SettledStep,
       AuthKeptStep, BackedStep, PassSoundStep DEF BringUpHolds
  <1> QED
    BY <1>1, <1>2

LEMMA InitBringUp == Init => BringUpHolds
  <1> SUFFICES ASSUME Init PROVE BringUpHolds
    OBVIOUS
  <1>1. \A c \in CRs : /\ cr[c].ws = NoWorkspace /\ cr[c].status = "" /\ ~cr[c].deleting
                       /\ ~cr[c].live /\ seen[c] = cr[c]
    BY DEF Init, Absent
  <1>2. objs = {} /\ cached = {} /\ emptyAuth = {} /\ nextWs = 1 /\ pass = Idle
    BY DEF Init, NoWorkspace
  <1>3. \A w : ~UsedIn(cr, w)
    BY <1>1 DEF UsedIn
  <1>4. Given
    <2>1. \A c \in CRs : cr[c].ws = 0 /\ seen[c].ws = 0
      BY <1>1 DEF NoWorkspace
    <2>2. pass.cw.ws = 0
      BY <1>2, NoIdleBringing DEF NoWorkspace
    <2> QED
      BY <1>2, <2>1, <2>2 DEF Given
  <1>5. Named /\ Unique /\ Retired /\ Shown /\ AuthKept
    BY <1>1, <1>2, <1>3, NoIdleBringing DEF Named, Unique, Retired, Shown, AuthKept
  <1>6. Settled /\ Backed
    BY <1>1, <1>3 DEF Settled, SettledIn, Backed
  <1>7. PassSound(pass, cr, registered, objs)
    BY <1>2, NoIdleBringing DEF PassSound
  <1> QED
    BY <1>4, <1>5, <1>6, <1>7 DEF BringUpHolds

LEMMA BringUpAlwaysHolds == ASSUME BringUpAssumption PROVE Spec => [](TypeOK /\ BringUpHolds)
  <1>1. Init => BringUpHolds
    BY InitBringUp
  <1>2. TypeOK /\ TypeOK' /\ CopiesTrail /\ BringUpHolds /\ [Next]_vars => BringUpHolds'
    BY BringUpStep
  <1> QED
    BY <1>1, <1>2, TypeCorrect, CopiesAlwaysTrail, PTL DEF Spec

-----------------------------------------------------------------------------
(* The three promises.                                                     *)

LEMMA InUseUsed ==
    ASSUME NEW c \in CRs, InUse(c), cr[c].ws # NoWorkspace PROVE UsedIn(cr, cr[c].ws)
  BY DEF InUse, UsedIn

(* A status that says Complete is true of the cluster and of Keycloak,     *)
(* through stale copies and caches, failures, conflicts and crashes.       *)
THEOREM CompleteIsDeployed == ASSUME BringUpAssumption PROVE Spec => []CompleteMeansDeployed
  <1>1. BringUpHolds => CompleteMeansDeployed
    <2> SUFFICES ASSUME BringUpHolds, NEW c \in CRs, InUse(c), cr[c].status = "Complete"
                 PROVE  /\ cr[c].ws \in registered
                        /\ \A k \in Needs(OnOpenShift) : PerWorkspace(cr[c].ws, k) \in objs
      BY DEF CompleteMeansDeployed
    <2>1. cr[c].ws # NoWorkspace
      BY DEF BringUpHolds, Named
    <2> QED
      BY <2>1, InUseUsed DEF BringUpHolds, Settled, SettledIn, ServedIn
  <1> QED
    BY <1>1, BringUpAlwaysHolds, PTL

(* Nothing of a Codewind is deployed before what its pods mount is there   *)
(* and Keycloak has its client.                                            *)
THEOREM DeployedIsBacked == ASSUME BringUpAssumption PROVE Spec => []DeploymentsBacked
  <1>1. TypeOK /\ BringUpHolds => DeploymentsBacked
    <2> SUFFICES ASSUME TypeOK, BringUpHolds, NEW c \in CRs, NEW k \in Deployments,
                        InUse(c), <<cr[c].ws, k>> \in objs
                 PROVE  /\ cr[c].ws \in registered
                        /\ \A m \in Mounts[k] : <<cr[c].ws, m>> \in objs
      BY DEF DeploymentsBacked
    <2>1. cr[c].ws # NoWorkspace
      BY DeploymentKinds DEF BringUpHolds, Named
    <2>2. cr[c].ws \in Nat
      BY DEF TypeOK, Codewind
    <2> QED
      BY <2>1, <2>2, InUseUsed DEF BringUpHolds, Backed, BackedIn
  <1> QED
    BY <1>1, BringUpAlwaysHolds, PTL

(* No auth secret of a Codewind in use is made of an empty client key.     *)
THEOREM AuthSecretsUsable == ASSUME BringUpAssumption PROVE Spec => []AuthSecretUsable
  <1>1. BringUpHolds => AuthSecretUsable
    <2> SUFFICES ASSUME BringUpHolds, NEW c \in CRs, InUse(c), cr[c].ws \in emptyAuth
                 PROVE  FALSE
      BY DEF AuthSecretUsable
    <2> QED
      BY InUseUsed DEF BringUpHolds, Named, AuthKept
  <1> QED
    BY <1>1, BringUpAlwaysHolds, PTL
=============================================================================
