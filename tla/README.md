# Verification of the Codewind operator

TLA+ models of the Codewind operator (`src/`, Go, controller-runtime v0.4.0),
TLC configurations that model-check them, and TLAPS proofs. The repository has
no unit tests; the code is the reference. Line numbers are those of the files
under `src/pkg/` unless another directory is named.

    tlc -workers 2 -config lifecycle.cfg MCCodewindController
    tlapm CodewindGuardProofs.tla

## 1. The system

One process (`src/cmd/manager/main.go`), one replica at a time, runs two
controllers. Each has a work queue and one worker (`MaxConcurrentReconciles` is
left at 1). Every read of the cluster is answered by an informer cache, every
write goes to the API server. A pass that returns an error or `Requeue: true`
is queued again; one that returns nothing is forgotten until an event or the
resync (ten hours by default) queues it.

| Component | State it keeps | Operations | What makes it right |
|---|---|---|---|
| Codewind reconciler, `controller/codewind/codewind_controller.go` | None between passes. In the cluster: annotation `workspaceID`, finalizer, status of the Codewind, and some twenty objects named after the workspace id | `Reconcile`: name, guard, roles and bindings, account, volume, registration, three deployments, services, secrets, route or ingress, status | named once; nothing deployed before what it needs; Complete means complete; never forgotten while unfinished |
| Finalizer, `finalizer.go` | the finalizer | `addCodewindFinalizer`, `handleCodewindCRBFinalizer`, `removeFinalizers` | cluster role bindings have no owner: none outlives its Codewind |
| Builders, RBAC rules, `builders.go`, `rbac.go` | none | describe the objects, set the owner | owners, names, what pods mount |
| Registration, `security/` | none; realm, clients, roles, users in the Keycloak server | `AddCodewindToKeycloak`, `AddCodewindRealmToKeycloak`: up to thirteen HTTP requests, none of them a transaction | may be run again after any failure; a key is returned only for a finished registration |
| Keycloak reconciler, `controller/keycloak/` | None between passes. In the cluster: annotation `authID`, status, objects named after the authID | `Reconcile`: name, account, secrets, volume, deployment, service, route or ingress, realm, status | named once; pod backed; realm asked for and recorded in the end, recorded only when its own server acknowledged it |
| Utilities, defaults, types, `util/`, `controller/defaults/`, `apis/` | none | platform detection, waiting for a service, ids, certificates | ids never repeat |
| External: API server, informers, work queue, garbage collector, Keycloak server, users | resources, caches, queue | | modelled as the code relies on them |
| Scripts and manifests, `src/deploy/` | none | run by hand | not modelled |

The components interact through shared state only: both reconcilers run against
the API server and against one Keycloak server. The Codewind reconciler finds
the Keycloak by the pods and secrets the other one made, and its registration
races the other's for the default realm.

What is hard here, and what the properties are for (`hazards` in `PROJECT.json`
gives the lines):

- a pass works on a copy that was read from a cache, while users edit and delete;
- caches of different kinds trail independently, so a Get misses what exists;
- writes land without an answer, or the process dies between any two calls;
- errors of reads are taken for "not there", errors of deletes are swallowed;
- nothing wakes a pass but the events somebody thought of;
- objects without an owner have to be removed in the right order;
- HTTP requests that fail halfway leave the Keycloak server half configured.

## 2. Modules

| Module | What it is |
|---|---|
| `CodewindController` | the Codewind reconciler with its finalizer and its cluster; properties |
| `CodewindLifecycle` | what the operator promises about a Codewind and its permissions: an abstract specification |
| `KeycloakRegistration` | the HTTP conversation of both controllers with Keycloak, request by request |
| `RegistrationPromise` | what a reconciler takes a call of that conversation for: an abstract specification |
| `KeycloakController` | the Keycloak reconciler with its cluster |
| `Operator` | the process with both controllers over one cluster, config map and Keycloak |
| `CodewindControllerProofs`, `CodewindGuardProofs`, `CodewindBringUpProofs`, `CodewindQueueProofs` | each extending the one before: types; copies, ids and bindings; the order of the bring-up; the work queue |
| `CodewindLifecycleProofs` | `CodewindController` implements `CodewindLifecycle`, from all of those |
| `KeycloakRegistrationProofs` | types, completeness, and that it implements `RegistrationPromise` |
| `KeycloakControllerProofs`, `OperatorProofs` | the proofs about the modules of those names |
| `MC...` | the modules TLC is started on |

`Operator` composes the others by what they promise: its `Register` is a call
as `RegistrationPromise` has it, which `KeycloakRegistration` implements, and
its steps are those of `CodewindController` and `KeycloakController` that touch
something both share.

### CodewindController

The state is what the API server stores (`cr`, `objs`, with `nextWs` for the ids
given out), what the caches show of it (`seen`, `cached`), the Keycloak
(`keycloak`, `registered`), the work queue (`queue`) and the pass of the worker
(`pass`: its step, its copy of the Codewind, the platform it detected, whether it
fetched a client key). `emptyAuth` remembers which auth secrets were built with
an empty key.

One call of a pass to the API server or to Keycloak is one action, so that
everybody else may act between two calls; what a pass does without a call
belongs to the action before it. `StartPass` is the head of `Reconcile` (platform
detection, reading the Codewind and the configuration), `Identify` is
`setCodewindWorkspaceID`, `AddFinalizer` is `addCodewindFinalizer`, `Ensure(k)`
is the pattern "check if ... already exists, if not create a new one" for each
of the objects, in the order `After` gives. `FindKeycloak`, `Register` and
`Publish` are the remaining steps of the bring-up, `DropBinding` (twice) and
`ClearFinalizers` the clean-up. How a pass ends is `Requeue`, `Settle` or, with a
crash, not at all.

An Update carries the revision of the copy it was built on and is refused if
that is not the current one (`Accepts`); a write that changes nothing leaves the
revision alone (`Commit`); removing the last finalizer of a resource being
deleted removes it (`Stored`). The failures `Fault("read")`, `"readBinding"`,
`"write"`, `"delete"`, `"detect"`, `"keycloak"` are calls that fail; a failed
write may have landed. A definition named in a comment in parentheses just before another
(`IdentifyAgain` before `Identify`) is a plausible slip in that one, which the
properties are tried against.

Two reductions. Informers that are not in `Lagging` are read as if up to date.
The garbage collector takes all dead objects of one workspace in a step: no
pass reads objects of a workspace whose Codewind is gone without first being
refused by the API server or creating them anew, and ids never return.

### CodewindLifecycle

Requested, named, guarded, served, gone; permissions are granted only under
guard, and a guarded Codewind goes only when its deletion was asked for and its
permissions are revoked. `CodewindController` implements it under the mapping at
its end (`Lifecycle`): the phase of a Codewind is read off its stored fields,
`granted` off the cluster role bindings.

### KeycloakRegistration

One action per HTTP request of `security/configure-keycloak.go` and what it
calls, for the two processes that run it: the worker that registers workspaces
(`AddCodewindToKeycloak`) and the one that installs the realm
(`AddCodewindRealmToKeycloak`). `Reply` tells the ways a request ends apart
because the code does: an error with a body, an error without one (which
`SecClientCreate` and `SecRealmCreate` take for success), no connection, and a
request served whose answer is lost. `SecRoleCreate` dereferences the missing
answer in the last two cases, as `SecClientAppendURL` and `SecClientGetSecret`
do with a client that is gone: `Panic` resets both controllers, for they share a
process. Around them the service goes down and up, and the administrator makes
accounts and removes clients.

### KeycloakController

The same shape as `CodewindController`, for one name: two names would share only
the worker. What is particular is how a pass is started: an event of the
resource (`InformerSync`), an event of its deployment (`DeploymentSync`), never
one of its pod. `PodProgress` changes the pod, `Report` lets the status of the
deployment follow and sends an event, `PodsSync` brings the pod into the
operator's cache. `PodsFirst` says whether the last two may be swapped. A pod
is known by its authID and phase; `CheckPod` takes any of the list, for the list
is neither sorted nor restricted to one authID.

`InstallRealm` is a call of `AddCodewindRealmToKeycloak`. It fails before or
after the realm is there, makes it, or meets an answer without a body
(`Fault("empty")`): `SecRealmCreate` takes that for success (`realm.go:117-131`),
`configureKeycloakRealm` passes it on, and the pass goes on to store a realm that
was not made. `bodiless` is a history variable that notes the servers that
answered so; no step reads it. An empty answer about a realm that was made is
the ordinary success.

### RegistrationPromise

A call is for one workspace. It may do all of its work or none before it fails,
it returns a key only once the workspace is registered, and it takes nothing
away from anybody. `KeycloakRegistration` implements it under the mapping at
its end (`Promise`): a workspace is registered when realm, client, role and
grant are there, and a call returns its key at the request that reads the
secret.

### Operator

What the two controllers share, and nothing else of either: the config map
(`config`, the default realm in it), the Keycloaks asked for one after the
other under one name (`kc`, their pods and admin secrets), what their servers
know (`realms`, `registered`), and the process (`up`). Each object of a Codewind
that refers to a Keycloak remembers which one and which realm (`Ref`).

The hard part is that a name outlives what it names. `getKeycloakPod` and
`fetchKeycloakPod` take the first pod with the name of the Keycloak, though it
may be a terminating one of an earlier Keycloak, with another authID; every
pass reads realm and Keycloak anew, and makes only what is missing, so that one
Codewind may be deployed by passes with different settings. `WaitForService`
asks `MaxTries` times before it gives the only worker back. `StartOperator` is
`main` with `createOperatorConfigMap`; the administrator edits or deletes the
config map at any time, and while it is missing no pass gets past its head.
`KInstallRealm` has the answer without a body, as in `KeycloakController`; in a
registration (`Register`) such an answer ends in a failure, as
`KeycloakRegistration` shows, and is one of those.

Reductions: the caches are up to date, an informer event is as good as the
write that causes it, a deletion is one step of the worker, the Keycloak
controller may start a pass at any time, and nobody deletes a deployment or
another object of a Codewind by hand (a Complete Codewind would then deploy it
again without a registration). `CodewindController` and
`KeycloakController` do not make them.

## 3. What is checked

| Run | Module | Properties | What it shows |
|---|---|---|---|
| `lifecycle` | CodewindController | `GuardHolds`, `NoOrphanBinding`, `NoLostWork`, `ImplementsLifecycle` | created twice, one edit, one failed write, read or registration, one crash: the life cycle is kept, no binding is orphaned, unfinished work is queued, in work, or about to be queued |
| `stale_caches` | " | `TypeOK`, `CopiesTrail`, `DeploymentsBacked`, `AuthSecretUsable`, `CompleteMeansDeployed`, `WorkspaceStable` | trailing informers, a foreign finalizer, every call may fail: order and completeness hold, ids stay |
| `liveness` | " | `EventuallyServed`, `EventuallyGone`, `EventuallyCollected` | under fairness, in spite of an edit, a failure, a crash and an object deleted by hand |
| `registration` | KeycloakRegistration | `TypeOK`, `CompleteMeansRegistered`, `EventuallyRegistered`, `ImplementsPromise` | two workspaces and the realm; all kinds of failed requests, an outage, a repeat, a crash, a removed client |
| `keycloak` | KeycloakController | `TypeOK`, `PodBacked`, `RealmAcknowledged`, `AuthIDStable`, `StatusKept`, `EventuallyRealm` | a Keycloak with an edit, a failure or an answer without a body, a failed list and a crash has its realm recorded in the end if pod events come first; only what its own server acknowledged is recorded, and what is stored is never taken back |
| `operator` | Operator | `TypeOK`, `DeployedRegistered`, `RecordedRealmAcknowledged`, `SettingsKept` | the config map edited or deleted, the Keycloak replaced, a failure, an answer without a body or a death of the process: what is deployed is registered where it points, what is recorded was acknowledged by its own server |
| `shared_worker` | " | `DeletionNotHeldUp`, `ServedInTheEnd` | two Codewinds, one worker, a Keycloak that may never answer: a deletion gets its turn, and once all is well everything is served |

A recorded realm need not exist: `unmade_realm` below shows how it comes to be
missing. `RealmAcknowledged` and `RecordedRealmAcknowledged` say that this is the
only way. Neither an error, nor a crash, nor an edit of the config map, nor the
pod or the server of an earlier Keycloak leads there. Nor does `EventuallyRealm`
promise more than a realm that is recorded.

`ServedInTheEnd` and `DeletionNotHeldUp` are conditional on what an administrator
has to do: a config map that is not missing for good, one Keycloak that answers.

Five runs end in a violation. Each is a disagreement between the code and what
the repository says of it:

| Run | Property | What happens |
|---|---|---|
| `foreign_finalizer` | `NoOrphanBinding` | `addCodewindFinalizer` adds the operator's finalizer only to an empty list (`finalizer.go:28`). With somebody else's in it the Codewind is never guarded, and its cluster role binding survives it |
| `swallowed_error` | `NoLostWork` | a failed Delete of a binding returns the nil error of the Get before it (`finalizer.go:65`, `:78`): the pass settles and the deleted Codewind stays |
| `lost_url` | `PublishedURL` | the access URL is set only in the pass that makes the ingress or route; an edit before the status update loses it for good (`codewind_controller.go:586`, `:608`) |
| `missed_wakeup` | `NoMissedWakeUp` | the deployment's event wakes a pass whose pod cache still trails: no realm, and no further pass (`keycloak_controller.go:402`) |
| `unmade_realm` | `RecordedRealmMade` | an answer without a body counts as a realm made (`security/realm.go:118`): the status records it, and no later pass tries again |

More defects were met while modelling and are listed as hazards: an auth secret
made again of an empty key (`codewind_controller.go:527`), an ingress beside a
route after a failed detection (`:146`), a finished Codewind that is never
registered in the Keycloak that replaced its own (`:407`), the nil dereference of
`security/role.go:69` (part of `registration` as `Panic`), the whitelist that is
read and put back (`security/client.go:198`), and a failing list of pods that ends
a pass without an error (`keycloak_controller.go:400`; part of `keycloak`).

### Bounds

Every bound is a constant (`Max...`), spent by the action it limits (`Spend`).

- One Codewind made twice covers a name that is used again. Codewinds depend on
  each other only through the worker, the queue and the shared roles:
  `shared_worker` has two, and the theorems any number.
- One failed call, one crash and one edit are spent at any step of any pass. A
  pass keeps nothing between calls but its copy, its platform and its key, and
  starts over after each failure, so that a second failure meets a state the
  first one may have left. In `Operator` a crash and a failure come out of one
  budget.
- `stale_caches` lets the informers trail whose lag the code can tell: roles
  (whose Create may not answer AlreadyExists) and secrets (whose order matters).
  The others follow the pattern of one of these.
- `registration` has two workspaces because one worker registers both in turn,
  and two controllers that race for one realm.
- `keycloak` has one creation: with two and a fault TLC does not finish in
  reasonable time. Deleting a Keycloak and asking for it again is where the
  theorems (`AuthIDNeverChanges`, `StatusNeverTakenBack`,
  `RecordedRealmsAcknowledged`) go further than the run.
- `operator` has two Keycloaks and two realms: one that is replaced, and one
  setting that changes. `shared_worker` asks twice before it gives up, and has
  one Keycloak: the terminating pod of an earlier one is in `operator` only.

Deadlock is not checked: with every Codewind deleted and the bounds used up the
system rests, and that is meant.

### Fairness

`Fairness` asks for what the machinery does by itself: the worker goes on with
its pass, the queue hands out its names (strongly fair per name, as names wait
for one worker in turn), informers deliver, the garbage collector, the pods and
the other party's finalizer handling get there, an outage of Keycloak ends. It
asks nothing of users, failures, crashes, or of the resync, which would cover up
every missed wake-up by waiting ten hours. In `registration` the administrator
does make the accounts: no registration can succeed without them.

In `Operator` the process is started again, its worker goes on with a pass, and
the queue hands out its names in turn. Nothing is asked of Keycloak, neither
that there is one nor that its pod comes up: that is the point of
`DeletionNotHeldUp`.

## 4. What is proved

TLAPS proves, for every set of Codewinds, of workspaces, of realms, and every
value of the bounds:

| Theorem | Statement | Assumptions |
|---|---|---|
| `TypeCorrect` | `Spec => []TypeOK` | those of the module |
| `CopiesAlwaysTrail` | `Spec => []CopiesTrail` | " |
| `WorkspaceNeverChanges` | `Spec => WorkspaceStable` | " |
| `GuardAlwaysHolds` | `Spec => []GuardHolds` | `GuardAssumption` |
| `NoBindingOrphaned` | `Spec => []NoOrphanBinding` | `GuardAssumption` |
| `CompleteIsDeployed` | `Spec => []CompleteMeansDeployed` | `BringUpAssumption` |
| `DeployedIsBacked` | `Spec => []DeploymentsBacked` | `BringUpAssumption` |
| `AuthSecretsUsable` | `Spec => []AuthSecretUsable` | `BringUpAssumption` |
| `WorkNeverLost` | `Spec => []NoLostWork` | `QueueAssumption` |
| `ReconcilerKeepsLifecycle` | `Spec => ImplementsLifecycle` | `GuardAssumption`, `BringUpAssumption` |
| `RegistrationTypeCorrect` | `Spec => []TypeOK` of `KeycloakRegistration` | those of the module |
| `CompleteIsRegistered` | `Spec => []CompleteMeansRegistered` | " |
| `RegistrationKeepsPromise` | `Spec => ImplementsPromise` | " |
| `KeycloakTypeCorrect` | `Spec => []TypeOK` of `KeycloakController` | those of the module |
| `AuthIDNeverChanges` | `Spec => AuthIDStable` | " |
| `StatusNeverTakenBack` | `Spec => StatusKept` | " |
| `RecordedRealmsAcknowledged` | `Spec => []RealmAcknowledged` | " |
| `DeploymentsAreBacked` | `Spec => []PodBacked` | " |
| `OperatorTypeCorrect` | `Spec => []TypeOK` of `Operator` | " |
| `RecordedRealmsAcknowledged` | `Spec => []RecordedRealmAcknowledged` | " |
| `DeployedIsRegistered` | `Spec => []DeployedRegistered` | " |
| `SettingsAreKept` | `Spec => SettingsKept` | " |

`GuardAssumption` says: no foreign finalizers, the cache of cluster role bindings
does not trail, and the two Gets of the clean-up do not fail; any other call
may. Each part is needed. Without the first,
`foreign_finalizer` is a counterexample; without the others the clean-up takes a
binding it cannot read for one that is gone (`finalizer.go:60`) and clears the
finalizer. The theorem thus says exactly on what the promise of the finalizer
rests. `lifecycle` meets the assumption, `stale_caches` does not.

`BringUpAssumption` says: nobody deletes objects by hand, and a cluster that is
OpenShift is recognised as one in every pass. Without the first an auth secret
is made again of an empty key and a Complete Codewind lacks what was deleted;
without the second a pass ends Complete with an ingress and no route. Caches may
trail, calls fail and finalizers of others be there as they like.
`stale_caches` meets it.

`QueueAssumption` says: the Delete of a binding does not fail by itself, and the
cache of cluster role bindings does not trail (it would show a binding that is
gone, and its Delete would fail). Either failure ends the clean-up without an
error (`finalizer.go:65`, `:78`), which is what `swallowed_error` shows. All other
calls may fail, the other caches trail, and parties put finalizers of their own.

`lifecycle` meets all three assumptions, so that none of the theorems speaks of
no behaviour at all.

### Codewinds and their bindings

`NoOrphanBinding` is not inductive: it does not say why a pass that is about to
create a binding still has a living Codewind.

1. `TypeOK` is inductive alone: one lemma per action
   (`CodewindControllerProofs`).
2. `CopiesTrail`: the cached Codewind and the copy of the pass have a revision no
   higher than the stored one, and agree with it if it is equal. Every write
   raises the revision or changes nothing (`NextMoves`), so a copy can only fall
   behind. Hence an accepted write is one built on the current Codewind
   (`AcceptedAgrees`), and `WorkspaceNeverChanges` follows: `Identify` works on a
   copy without an id.
3. `GuardHolds` has five parts. A guarded Codewind is named and lives
   (`GuardNamed`). A copy that shows the guard and no deletion tells the truth
   (`SeenGuarded`): only a pass that saw the deletion lifts the guard, and it saw
   it in the cache, which never goes back. From the finalizer step on a pass
   works for a guarded Codewind (`PassGuarded`). A pass that cleans up saw the
   deletion and removes one binding after the other (`CleanUpOrdered`). Each
   binding in force is that of a guarded Codewind (`BindingsGuarded`). Each part
   has its own step lemma; `GuardHoldsStep` joins them.
4. `BindingsGuarded` and `GuardNamed` give `NoOrphanBinding`.

### The order of a bring-up

What a pass knows is its copy and what the caches show, either of which may be
out of date. `BringUpHolds` says what is true nevertheless:

1. Ids are given out once (`Given`, `Unique`), nothing is made without one
   (`Named`), and a workspace whose deletion was seen is not in use (`Retired`).
   So what was made for a workspace in use stays (`ObjectsKept`), and what a
   trailing cache shows of it is there (`Shown`).
2. Every copy that says Complete tells the truth (`Settled`): the stored
   Codewind, the cached one, and the one a pass works on unless that pass has
   registered the workspace itself.
3. A pass has behind it what comes before its step (`PassSound`): `Place` puts
   the steps in a row, `AfterPlace` says that a step of `After` leaves out none
   this platform needs. Past the registration it holds a key or a copy that
   was Complete.
4. Hence a deployment is made only over its mounts (`Backed`), and an auth secret
   of an empty key only for a workspace nobody uses (`AuthKept`): a pass without
   a key has a Complete copy, and if the workspace were in use its secret would
   be there. `Publish` closes the circle.

### The work queue

`NoLostWork` says that an unfinished Codewind is queued, in work, or changed
since the cache last showed it. A pass that settles takes the second away, so
that it must have brought about the third or have left nothing to do.
`QueueHolds` adds what that takes:

1. `DeletionPending`: a Codewind that is being deleted is there for a finalizer,
   so that lifting it is a change. `PassPurpose`: a pass brings up what its copy
   does not show as being deleted, and cleans up what it does. `PassStatus`: past
   the registration the pass has a status to store. `OnlyLagging`: what the caches
   show apart is of informers that trail.
2. `WorkerSettles`: under `QueueAssumption` only two steps end a pass without
   putting its Codewind back in the queue, the write of the status and the
   lifting of the finalizer, both accepted. `NothingToWrite`: if such a write
   changes nothing, the Codewind was finished before.
3. Otherwise it raised the revision (`WrittenUnseen`), and what the cache has
   not shown is queued once it does (`SeenEnqueues`). `QueueKeeps` says that a name
   leaves the queue only for its own pass, or when the cache shows no Codewind.

### The life cycle

The refinement is proved step by step, from an invariant that joins the others
(`LifeInv`: `GuardHolds`, `BringUpHolds`, `DeletionPending`, `PassPurpose`) and
adds two facts of its own (`LifeHolds`): what is gone is blank and what is
unguarded has no status, and no binding is there that the platform does not need.

1. `NextLife` sorts the steps by their effect: a step changes the life of one
   Codewind in one of six ways (`LifeStep`: `Appeared`, `Identified`,
   `GuardAdded`, `Completed`, `DeletionAsked`, `Gone`) or leaves it alone, or it
   leaves all Codewinds alone and grants or revokes at most one binding
   (`BindingStep`). There is one lemma per action, and each shows what the
   abstract action asks for: `Identify` is accepted only on a Codewind without an
   id (`CopiesTrail`); `Publish` stores Complete with every binding made and no
   deletion under way (`PassSound`, `PassPurpose`); `ClearFinalizers` finds no
   binding left (`CleanUpOrdered`), and neither does the deletion of what was
   never guarded (`UnguardedBare`, from `BindingsGuarded` and `Unique`); a binding
   that `DropBinding` removes is one of a Codewind being deleted.
2. `LifeStepImplements` and `BindingStepImplements` map each effect to the
   abstract action, or to a stutter. `OneEntry` and `SameEntry` say what a change
   of one Codewind does to the mapped functions.

Both assumptions are needed. Without that of the guard an orphaned binding is in
force for a Codewind that vanished; without that of the bring-up somebody revokes
a binding by hand, or an OpenShift taken for plain Kubernetes is served without
`ODOBinding`.

### Registration

1. `RegistrationHolds` is `CompleteMeansRegistered` with what makes it inductive:
   the answers so far have shown the realm and the role by the time the role was
   asked for, the grant once it was made, the client only with its secret
   (`AnswersShow`), and a role is only in a realm that is there (`RolesInRealm`).
   An answer without a body, which the code takes for a success, is why realm and
   client are not known to be there any earlier: one that was not made is
   missed by a later request.
2. `RegistrationKeepsPromise` maps each request to a step of the promise: most
   of them are not seen at all (`Unseen`), a failed one ends the call (`Ends`), and
   the one that completes realm, client, role and grant is its work (`GoesOn`).
   No assumption is needed beyond those of the module: it may fail in every way,
   and both controllers race for the realm.

### Keycloak controller

A Keycloak deleted and asked for again keeps its name and gets a new authID,
while passes still hold copies of the old one. `TypeInv` adds to `TypeOK` that a
pass past its first step works under an id that was given out. `CopiesTrail` is
the argument of the same name above. For the realm, the copy of a pass and the
cached Keycloak are as truthful as the stored one (`Recorded`): a copy with a
realm either has an older id or speaks of a server that acknowledged the realm
(`Acknowledged`: it has it, or answered its creation without a body), but for
the pass that is about to install it. No more can be proved of the code.
`PodBacked` follows from `PassBacked`: a pass has made everything before its
step, under the id it works for.

### Operator

1. `OnlyAsked`: a Keycloak that lives, has a pod, is referred to by an object of
   a Codewind, or is worked for by a pass of either controller was asked for. No
   id is asked for twice, so that no Keycloak comes back, and what a server knew
   is lost only with a Keycloak that is gone for good.
2. `PassRecorded`: a pass of the Keycloak controller past its realm step that
   holds a copy with a realm, of a Keycloak that lives, had that very realm
   acknowledged by its server. With it `RecordedRealmAcknowledged` is inductive.
3. `PassRegistered`: a pass of the Codewind controller at a making step is
   registered in the realm it read and the Keycloak it found, as long as that one
   lives and the Codewind is not Complete. `MadeInOrder`: such a pass has the
   objects made before its step, and a Complete Codewind has them all, so that
   passes which skip the registration make nothing. Then `DeployedRegistered`
   holds whatever the config map says by the time of the next pass.

### Only model-checked

Liveness (`EventuallyServed`, `EventuallyGone`, `EventuallyCollected`,
`EventuallyRegistered`, `EventuallyRealm`) and the conditional liveness of
`shared_worker` (`DeletionNotHeldUp`, `ServedInTheEnd`): fairness is beyond this
prover. Every invariant, every action property and both refinements of the
passing runs are proved. TLC was also run on the inductive invariants of the
queue, the life cycle and the registration (`QueueHolds`, `LifeHolds`,
`RegistrationHolds`), on OpenShift and off it.

## 5. What is not modelled

- Data no property tells apart: labels, ports, images, probes, sizes, hosts, the
  rules inside roles, HTTP bodies, the URLs of a client, themes, certificates.
  With them go the edits of `ingressDomain` in the config map and a URL that is
  appended twice when a registration is repeated.
- Time: the backoff of the queue and the seconds between the tries of
  `WaitForService`. `Operator` counts the tries, and the models say that others
  wait, not for how long.
- The access URL in the status of a Keycloak is kept once stored
  (`StatusKept`); that it is lost before is the course `lost_url` shows for a
  Codewind.
- The watch of the Codewind controller on config maps
  (`codewind_controller.go:99`): it looks for an owner the operator's config map
  does not have, so that no event of it starts a pass.
- A pod without an authID label (`codewind_controller.go:388`): the operator
  labels every Keycloak pod it makes.
- In `Operator`, objects of a Codewind deleted by hand (`CodewindController` has
  them, as `LoseObject`).
- Administrators who remove a realm from a Keycloak server: what is recorded of
  it would be out of date at once.
- PFE and gatekeeper of one Codewind at two instances of a Keycloak: reachable in
  `Operator`, and no line of the repository speaks of it.
- Leader election and metrics (set-up code of libraries), generated code.
- The installation scripts.

## 6. Plan

Done: the Codewind reconciler with the proofs of its guard, bring-up, work queue
and life cycle; the registration, its promise and the proofs of both; the
Keycloak reconciler and its proofs; the composition of both and its proofs. Left,
most important first:

1. An abstract specification of one Keycloak (named once, deployed with its
   secrets, a realm recorded once its server acknowledged it), joining what
   `AuthIDStable`, `StatusKept`, `PodBacked` and `RealmAcknowledged` say apart, and the proof that
   `KeycloakController` implements it.
2. Pure algorithms: the choice among themes and the names derived from ids,
   against reference definitions.
