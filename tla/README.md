# Verification of the platform controllers

TLA+ models of the controllers in this repository, the TLC configurations that
check them on small instances, and TLAPS proofs of their main theorems.

Tools: `tlasany M.tla` parses, `tlc -workers 2 -config X.cfg M` checks a run,
`tlapm M.tla` checks proofs. `PROJECT.json` lists the runs, maps every
definition to the lines it models, names for every property a mutation of the
code's model that breaks it, and lists the hazards and findings.

- [1. The system](#1-the-system)
- [2. The modules](#2-the-modules)
- [3. The tenant provisioner](#3-the-tenant-provisioner)
- [4. The platform controller](#4-the-platform-controller)
- [5. The configuration domain controller](#5-the-configuration-domain-controller)
- [6. The update of a stack](#6-the-update-of-a-stack)
- [7. What the runs show](#7-what-the-runs-show)
- [8. What is proved](#8-what-is-proved)
- [9. Findings](#9-findings)
- [10. What is not modelled](#10-what-is-not-modelled)

## 1. The system

Three programs watch custom resources in a Kubernetes cluster and bring
something outside of them to the state they describe. Each has informers (a
store of the watched objects, behind the API server), event handlers, a rate
limited work queue and workers. They share nothing but the API server.

| component | code (under `src/`) | state | operations | what is hard |
|---|---|---|---|---|
| tenant provisioner | `internal/controllers/provisioning/provisioning_controller.go`, `provisioning_resources.go`, `provisioning_targets.go` | work queue of keys `platform::tenant::domain`; stores of Tenants, TenantCategories, Platforms and twelve kinds of resources; last event and last message per key | event handlers and enqueue functions; `Run` with `SKIP_INITIAL_RECONCILE`; `processNextWorkItem`; `syncHandler`; `syncTarget` | live and cached reads in one sync; five workers; events in any order; failures at every step; restarts |
| Pulumi provisioner | `provisioners/pulumi/pulumi.go`, `import.go`, one file per kind | a stack per target and domain, outside of the cluster | `Create`: `updateStack` (up, or import and up again) or `tryDestroyAndDeleteStack` | an update stops half way; the stack's name is not unique; dependencies; imports; replacements |
| migrations | `provisioning/migration/migration.go` | Jobs | clone each template Job of a domain | errors in the middle of the loop |
| local script | `provisioners/pulumi/local_script.go` | the environment in a cached object | render | writes to the informer's store |
| platform controller | `internal/controllers/platform/platform_controller.go` | status of Platforms; ConfigMaps of tenants and domains; queue of platforms | handlers of Platforms, Tenants, Domains, Services; `syncHandler`; `syncConfigMap` | immutable ConfigMaps replaced in two calls; stale lister; conflicts of status updates |
| configuration domain controller | `internal/controllers/configuration-domain/*.go` | aggregated ConfigMap, Secret or SecretProviderClass of each domain; queue of `namespace::domain` | handlers of ConfigurationDomains, ConfigMaps, Secrets, Platforms; `syncHandler`; `Sync` and `Cleanup` of three handlers | which domains an event wakes against what a sync reads; a delayed requeue; cleanup without ownership |
| messaging | `internal/messaging` | one gRPC connection | `Publish` | lazily created, unguarded |
| client-go (external) | used by the three controllers | stores, notifications; dirty, processing and delayed keys | list, watch, notify; Add, Get, Done, AddRateLimited | stores ahead of handlers; keys added while they are processed |

How they interact: users write Tenants, TenantCategories, Platforms, Domains,
resources; the API server tells each informer, object by object; the informer
updates its store, then calls the handler from a goroutine of its own; the
handler puts keys on the queue; a worker takes a key, reads (live or from the
stores), and calls Pulumi, migrations and messaging, or writes ConfigMaps and
status back to the API server, which other informers see.

What makes each correct:

- provisioner: no change is lost, whatever it overtakes; a success event is the
  last one recorded only of a stack that is as the API server describes it; what is
  dropped is cleaned up; one worker per stack; a skipped tenant is left alone;
  migrations follow changes; after the edits end everything ends provisioned.
- platform controller: once at rest the ConfigMaps hold the tenants and domains
  of the platform and `Ready` says so; foreign ConfigMaps are not touched.
- configuration domain controller: the output of a domain is the aggregation of
  its inputs in their order of precedence; an event wakes every domain that
  reads the object; outputs that are not wanted are removed.
- Pulumi provisioner: every managed resource of a stack is one of the target's;
  dependencies are deployed once, before what needs them.

## 2. The modules

| module | what it is |
|---|---|
| `Informer` | one object as the API server, an informer's store and the event handlers see it |
| `WorkQueue` | client-go's rate limited queue, as operators on a record |
| `ProvisioningController` | the tenant provisioner, its users, failures and crashes |
| `ProvisioningProperties` | its types, safety properties, fairness and liveness |
| `MCProvisioning` + `MCProvisioning*.cfg` | small instances |
| `ClientGoProofs` | lemmas on views and the queue |
| `ProvisioningTypes` | type correctness, proved |
| `ProvisioningProofs` | exclusion, no lost wake-up, and what each `Settled...` property says, proved |
| `PlatformController` | the platform controller, its users, the garbage collector, failures and crashes |
| `PlatformProperties` | its types, safety properties, refinement mapping, fairness and liveness |
| `MCPlatform` + `MCPlatform*.cfg` | small instances |
| `Reconciler` | the abstract specification both the platform and the configuration domain controller implement, with a theorem about it |
| `PlatformProofs` | types, the Ready condition, whose ConfigMaps are replaced, the refinement of `Reconciler`, the ConfigMaps of domains at rest, proved |
| `ConfigRouting` | which objects a sync of a configuration domain reads, and which domains an event of an object wakes, as functions of labels |
| `ConfigurationDomain` | the configuration domain controller with its three handlers, its users, Vault, failures and crashes |
| `ConfigurationProperties` | its types, safety properties, refinement mapping (to `Reconciler`), fairness and liveness |
| `MCConfiguration` + `MCConfiguration*.cfg` | small instances |
| `ConfigurationTypes` | type correctness, proved |
| `ConfigurationProofs` | the Ready condition, cleanup, aggregation and precedence at rest, proved |
| `StackUpdate` | `Create` of the Pulumi provisioner: refresh, program, imports, update, second update, destroy |
| `StackProperties` | its types, safety and action properties, liveness |
| `MCStack` + `MCStack*.cfg` | small instances |
| `StackProofs` | every safety and action property that holds, proved |

Each controller is composed of the two operator modules with EXTENDS, and the
configuration domain controller of `ConfigRouting` too: client-go's state is
data of the controller (a view per object, a record for the queue), and every
action applies their operators. Nothing in the modules a theorem reaches is
RECURSIVE.

### client-go

`Informer`: a view is the history of an object from the version its handlers
saw last to the one in the API server, with the index of the version in the
store. A write appends, the store advances the index, a handler call consumes
the first pair as (old, new). So the store may be any number of versions behind
the API server and ahead of the handlers, each object at its own pace, and
notifications of one object stay in order. A handler call is one step: it only
reads stores and adds keys. After a start the initial list is in the stores and
its Adds are still to come. Not modelled: relists after a lost watch (a
deletion delivered as `DeletedFinalStateUnknown`, see the hazards) and resyncs.

`WorkQueue`: dirty, processing and delayed sets. The FIFO is the set of dirty
keys nobody processes; which one is taken is left open, which includes the
FIFO's choice. `Forget` only resets a back-off, whose duration is not modelled.

## 3. The tenant provisioner

### State

| variable | code |
|---|---|
| `platforms` | Platform objects; only `syncHandler` reads them, live |
| `tenants`, `categories`, `resources` | a view of each object |
| `phase` | `"down"` without a process; `"starting"` from `factory.Start` until the workers start; `"running"` |
| `initial` | objects whose first Add is not delivered (`handlerSyncFuncs`) |
| `queue` | `workqueue` |
| `job[w]` | the local variables of worker `w`: where it is, its key, the target it read, the manifests it selected, whether Pulumi reported changes, whether an error is to be published |
| `stacks[s]` | the rendered resources Pulumi has deployed in stack `s` |
| `unmigrated` | stacks that changed since their migrations last ran (no code reads it: it states a property) |
| `recorded[k]` | the last Kubernetes event recorded for key `k` |
| `published[k]` | the last message about key `k` that went out |
| `spent` | how much of each bound is used |

A resource stands for an object of any of the twelve kinds, which the
controller treats alike. A manifest is a resource, its spec, the category and
its overrides, and the tenant's settings: the rendered resource is a function
of these, and the four layers of `applyTargetOverrides` are that function. That
it may fail is modelled (`Malformed`, `Renderable`). A key's domain, platform
and tenant are those of `encodeKey`; `StackOf` follows `Create`: the project is
the platform, the name is the tenant's name (without namespace), or the word
`platform`, joined to the domain.

### Actions

| action | code |
|---|---|
| `EditTenant`, `EditCategory`, `EditResource`, `EditPlatform` | users |
| `Observe` | an informer's store takes the next version |
| `HandleTenant`, `HandleCategory`, `HandleResource` | `addTenantHandlers`, `addTenantCategoryHandlers`, `addResourceHandlers` with the enqueue functions they call, over the tenants in the store |
| `Retry` | the delaying queue adds a key again |
| `Take`, `Finish` | `processNextWorkItem`: Get; AddRateLimited or Forget, then Done |
| `ReadTarget`, `ReadFails` | `syncHandler`: the live Get; cleanup of a tenant that is gone or no longer asks for the domain |
| `List` | `syncTarget` up to the call of the provisioner: category, lists, selection, overrides |
| `Apply` | one difference between stack and manifests removed by `pulumi up` or `destroy` |
| `ProvisionSucceeds`, `ProvisionFails` | the result of the provisioner: cleanup ends, migration, or publication |
| `Migrate`, `MigrationFails` | the migrator |
| `Publish` | `publishSuccessEvents` or `publishFailureEvents`: the event is recorded; the message goes out, or is lost with an error that is only logged (`MaxLost` bounds how many are) |
| `Crash`, `Restart`, `StartWorkers` | the process; `Run`, with the drain of `SKIP_INITIAL_RECONCILE` |

`List` reads thirteen stores in one step where the code reads them one after
the other. Nothing is lost: each store lags on its own, so that a list read
before an `Observe` of a later step is a list of a store that lags more, and
the worker does nothing between the reads that another process sees.

`syncHandler` returns only the errors of its live reads. Its `err` is shadowed
in both branches, so the error of `syncTarget` never reaches `return err`
(line 362). The model does what the code does: a sync whose read failed ends in
`"retry"`, any other in `"done"` (see [Findings](#9-findings)).

### Assumptions on constants

`ValuesAssumption`, `NamesAssumption`, `BoundsAssumption` and
`InitialAssumption` say that versions users may write are of the API's types,
that the names of objects and the markers for absence are different, and that
bounds are naturals. TLC evaluates them in every run. The proofs about stacks
take two more hypotheses, stated in the theorems: `StacksAreDistinct` (no two
keys share a stack; `MCProvisioning` asserts it of its constants) and
`~SkipInitialReconcile`. Neither follows from the code: a tenant called
`platform`, or one name in two namespaces, shares a stack; and with
`SKIP_INITIAL_RECONCILE` the drain discards an edit that is handled between the
initial list and the start of the workers (both are among the hazards). No run
turns the option on.

### Properties

- `TypeOK`: types, and the shape of the views.
- `WorkersHoldKeys`: the processing set is exactly the keys the workers hold,
  each once; nobody works unless the controller runs.
- `OneWorkerPerStack`: two workers never drive Pulumi on one stack.
- `NoLostWakeup`: wherever the controller is, a domain that is *due* (the
  tenant in the API server asks for it and it can be rendered) and whose stack
  is not as the API server describes it is queued, under work, delayed, or
  will be queued by the handler of an event under way - or a failure of it was
  recorded. The events: of its tenant, of the category the tenant has now, of
  a resource that any version under way puts in its target.
- `StaleJobIsRedone`: a worker whose target, list or result is out of date
  has another sync of its key to come. This is where live reads, cached reads
  and the queue's dirty set have to work together.
- `SettledIsAnnounced`: when nothing is left to do for a due domain, the last
  event recorded is success only if its stack is exactly what the API server
  describes, and failure otherwise. The last message says the same as long as
  none was lost; a lost one is never made up for.
- `SettledIsCleanedUp`: when nothing is left to do for a domain its tenant does
  not ask for, its stack is empty.
- `SettledIsMigrated`: the migrations ran after the last change to the stack.
- `SettledPlatformIsProvisioned`: the platform's own stacks.
- `SkippedIsUntouched`: a tenant that always carries the skip label.
- `EventuallyProvisioned`: liveness, below.

Tenants that ever carry the skip label are outside the properties about settled
domains: removing the label is an update that leaves the spec alone, which the
handler ignores, so nothing brings such a tenant up to date.

### Fairness

`FairSpec` assumes weak fairness of the informers' stores and of the handlers
(goroutines of client-go that block on nothing else), of the delaying queue, of
the start of the workers, of each worker's sync, and of the restart of a dead
process (its Deployment). Taking a key needs strong fairness per key: a key is
not ready while another worker holds it, but the queue is a FIFO, so a key that
is ready again and again is taken. Edits, failures and crashes are never forced.

## 4. The platform controller

For each Platform, a worker writes one ConfigMap with its Tenants (in the
platform's namespace) and one for each of its Domains (in the domain's). The
ConfigMaps are immutable, so that one that differs is deleted and created again,
and the Platform controls them, so that the cluster collects them with it.

### State

| variable | code |
|---|---|
| `platforms`, `tenants`, `domains` | a view of each object. A version of a platform is its resource version, its UID and its target namespace |
| `ready[p]` | the Ready condition in the API server; `"none"` before the first sync |
| `behind` | platforms whose last status write has not reached the store: a status has a resource version of its own, and the controller is its only writer |
| `maps[m]` | a view of each ConfigMap (`<name>-tenants` in a namespace): who controls it and its data |
| `up`, `queue` | is there a process; `workqueue` |
| `job[w]` | the local variables of worker `w`: where it is, its key, the platform `resetStatus` returned, the ConfigMap at hand, the domains still to do |

### Actions

| action | code |
|---|---|
| `EditTenant`, `EditDomain`, `EditService`, `EditPlatform`, `CreatePlatform`, `DeletePlatform` | users |
| `Collect` | the garbage collector |
| `ObservePlatform`, `ObserveTenant`, `ObserveDomain`, `ObserveMap` | informers' stores |
| `HandlePlatform`, `HandleTenant`, `HandleDomain` | the handlers of `NewPlatformController`, with the enqueue functions |
| `Retry`, `Take`, `Finish` | the delaying queue; `processNextWorkItem` |
| `ResetStatus`, `ResetFails` | `syncHandler` up to and with `resetStatus`: not found ends the sync, a conflict is an error |
| `List` | the lists, their filters, `genPlatformTenantsCfgMap`, `genDomainTenantsCfgMap` |
| `Look` | `syncConfigMap`: the store, `IsControlledBy`, `DeepEqual` |
| `CallApi`, `CallFails` | its calls: Create; Delete, then Create. `CallFailed` has what `syncHandler` does about an error: the platform's ConfigMap stops the sync, a domain's is recorded |
| `UpdateStatus`, `UpdateFails` | `updateStatus`, whose error is only logged, and the result of the sync |
| `Crash`, `Restart` | the process; `Run` |

A call that fails may have taken effect, its answer being lost. The lists are
read in one step, for the reason given for the provisioner. An entry of a
ConfigMap is the tenant, its `Enabled` and what the ConfigMap says beside: id,
category and configs in a platform's, the active domains in a domain's. An empty
ConfigMap comes back from the API server without data, which `DeepEqual` tells
from the empty map, so it is replaced by every sync (`SameData`, `CallApi`).
Informers resync every 30 seconds; the handlers compare specs, so a resync
enqueues nothing and is left out. Services are not kept: they only decide which
warnings are recorded, and a change of one wakes any two platforms. Recorded
events and published messages are left out: nothing reads them.

Two constants are switches, so that each property is checked where it should
hold: `ConfigMapsLag` (may the ConfigMap store be behind?) and
`NamesReusedAtOnce` (may a platform be created again while an object, a worker
or a ConfigMap of its predecessor is still about?).

### Properties

- `TypeOK`, `ReadyIsWithdrawn` (a platform is not Ready while a worker is at its
  ConfigMaps), `FalseIsReconciling` (no platform rests with condition False):
  with a lagging store; proved for all constants.
- `SettledDomainMaps`: at rest, and if no call has failed, each domain's
  ConfigMap is what tenants and domains say, or another platform's.
- `OnlyOwnMapsAreReplaced`: a ConfigMap that an existing platform controls is
  deleted only by a worker on that platform.
- `ImplementsReconciler`: the refinement. `Reconciler` says of a set of keys
  that what is built is what is wanted, unless the key is pending or under
  work; only the begin of a sync takes a key off, and a sync that ends without
  the right result puts it back. The mapping: a key is a platform; `wanted` is
  its ConfigMap computed from the API server's tenants; `built` is the one in
  the API server; `pending` is what is queued, held back, or will be enqueued by
  the handler of an event under way, and everything while the process is down.
  `PlatformMapsAreConsistent` is the invariant that follows, in the run with two
  platforms and two workers.
- `EventuallyReconciled`: after the last edit, every platform's ConfigMap
  becomes right for good, and its condition is not False.

### What is not promised

Each of these TLC finds when the property concerned is checked without its
restriction:

- With a lagging store, a ConfigMap may miss a change for good
  (`config_map_stale_store`); if in addition the answer of a delete is lost, a
  second sync may find the old ConfigMap in the store and rest without any.
  Hence `ConfigMapsLag = FALSE` in `platform_moves` and `platform_liveness`.
- The delete of `syncConfigMap` is by name, after a check of the controller. If
  the platform is deleted in between, its ConfigMap is collected, its domain
  moves and the new platform creates one, then it is the new one that is
  deleted. Hence `PlatformsMayChange = FALSE` in `platform_moves`.
- A platform that is created again at once rests with the ConfigMap of its
  predecessor, and then with none (a hazard: `syncConfigMap` returns nil for a ConfigMap it
  does not control).
- A domain that is moved keeps the ConfigMap of the platform it left.
- A domain's ConfigMap that fails is not retried, and the platform becomes Ready.

## 5. The configuration domain controller

For each ConfigurationDomain (a name in a namespace, of a platform), a worker
aggregates the ConfigMaps of the platform into one ConfigMap in the domain's
namespace, and its Secrets into a Secret; with Vault, what Vault holds becomes a
SecretProviderClass too. What is aggregated is decided by two labels of each
object, `platform` and `domain`, in four lists, of which the later take
precedence: the global objects of the platform's target namespace, the global
ones of the domain's namespace, the domain's own in its namespace, and those
labelled `domain.namespace` anywhere. The handlers decide from the same labels,
in other code, which domains an event wakes. That the two agree, for labels that
come, change and go, is the heart of the model.

### State

| variable | code |
|---|---|
| `platforms` | views of the target namespaces of the Platforms |
| `domains`, `sources`, `outputs` | views of the ConfigurationDomains, of what is aggregated (Vault's objects have no informer: they are as they are), and of the aggregated objects |
| `ready` | the Ready condition of each domain in the API server |
| `behind` | domains whose last status write the store does not have |
| `up`, `queue` | the process, its work queue |
| `job[w]` | the local variables of worker `w`: key, domain and target read, whether the domain was read with its last status, the outputs still to do |
| `spent` | how much of each bound is used |

A name is the sequence of its parts between dots, so that `<<"d", "ns">>` is the
label `d.ns`. Data is a set of pairs of a key and a value.

### Actions

| action | code |
|---|---|
| `CreateDomain`, `EditDomain`, `DeleteDomain`, `EditPlatform`, `EditSource`, `EditOutput` | users, Vault; the last is somebody who deletes an output, empties it or takes its name |
| `Collect` | the garbage collector |
| `Observe...` | the informers' stores |
| `HandleDomain`, `HandleSource`, `HandleOutput` | the event handlers, with `handleKubeResource` (`Wakes`), the comparison of labels on updates (`TargetChanged`, `WakesOnUpdate`), and the owner lookup for SecretProviderClasses. Those of platforms only log |
| `Retry` | the delaying queue: back-off, and the interval after a sync with secrets |
| `Take`, `Finish` | `processNextWorkItem` |
| `ReadDomain` | `syncHandler`: domain and platform from the stores; which outputs are wanted |
| `Cleanup`, `CleanupFails` | `Cleanup` of the three handlers: deletes by name, of what is not wanted |
| `ResetStatus`, `ResetFails` | `resetStatus`: the write takes the resource version of the domain that was read; a conflict is an error |
| `Sync`, `SyncFails` | `Sync` of one handler: lists, aggregation, the store's output, Create or Update; after the last secrets `AddAfter` |
| `UpdateStatus`, `UpdateFails` | `updateStatus`, whose conflict is only logged |
| `Crash`, `Restart` | the process; `Run` |

A call of a worker that fails may have taken effect. The order of the objects in
one list is the lister's, so `Aggregates` is the set of all results. An Update
keeps labels and owner of the object in the store; an object of another owner,
and a domain whose name is too long for a label (`Unselectable`), is left alone
without an error.

### Assumptions on constants

`KindsAssumption`: with Vault there is a SecretProviderClass, and never without
a Secret. `NamesAssumption`: domains and namespaces have names without dots, and
no domain is called `global`; the code does not check either. `ValuesAssumption`,
`BoundsAssumption`, `InitialAssumption`: as for the other controllers.

### Properties

- `TypeOK`; `ReadyIsWithdrawn`: a domain is not Ready while a worker creates and
  updates its outputs. Those that `Cleanup` deletes before that, it deletes from
  a Ready domain.
- `SettledIsAggregated`: at rest each output a domain asks for is the
  aggregation of what the API server has, or somebody else's.
- `SettledIsCleanedUp`: at rest there is no output that its domain does not ask
  for, nor one that an earlier domain of its name left.
- `OwnConfigWins`: at rest a key that one of the domain's own ConfigMaps has
  comes from one of them.
- `ImplementsReconciler`: the refinement of `Reconciler`, keyed by domain; what
  is pending includes the domains the handlers of events under way will wake,
  and those whose ConfigMap the garbage collector is to delete.
- `EventuallyAggregated`: with Vault, whose changes are no events: in the end
  every output is the aggregation or deleted, for good. `configuration_liveness`
  checks it where Platforms may change and be deleted but none comes or comes back
  (`PlatformsMayCome = FALSE`): where one does, it is violated (below).

A domain with secrets is never at rest (each sync queues it for later), so the
`Settled...` properties are about domains with ConfigMaps, or without platform;
those with secrets are what `EventuallyAggregated` is about.

### Fairness

As for the provisioner, but per object: a domain with secrets is synced for ever
and makes events for ever, and its informers must still get to the others. In
client-go a watch delivers events in turn. `Retry` is weakly fair: it is a timer.

### What is not promised

TLC finds each of these when the restriction is dropped:

- A domain that is synced before its Platform exists, or while it is being created
  anew, has no outputs, and nothing wakes it when the Platform comes: the handlers
  of Platforms only log, and a sync without a Platform ends (lines 336-338) before
  it queues a domain with secrets again (line 370). So with
  `PlatformsMayCome = TRUE` and two edits TLC violates `EventuallyAggregated`: the
  Platform is deleted and created again, and a domain with secrets stays without
  outputs, where `README.md:994` has no such condition. Hence
  `PlatformsMayCome = FALSE` in `configuration_liveness`, and
  `PlatformsMayChange = FALSE` in `configuration_safety` and in the theorems.
- A label that moves from `d.ns1` to `d.ns2` wakes the new domain only
  (`TargetChanged` compares names without namespaces): the old one keeps what it
  had. Hence `LabelsKeepNamespaces` in the theorems.
- An output carries the platform label it was created with. A domain that
  changes platform keeps it, so events of its output may no longer wake it. Hence
  `DomainsKeepPlatforms`.
- Somebody else's object of the output's name is no error, and when it is
  deleted nobody is woken. Hence no `"take"` in `Tampering`, in
  `configuration_safety` and in the theorems.
- A sync that fails sets Ready to False; if aggregation is then turned off, the
  next sync deletes the outputs and ends before it touches the condition.
- Cleanup deletes by name: it deletes what is somebody else's, too.
- Two objects of one list with a key in common: each sync may choose another.

## 6. The update of a stack

What `ProvisioningController` takes for steps that change a stack one resource
at a time is, in `StackUpdate`, the code of `Create`: for each target (which is also
the worker on its stack, by `OneWorkerPerStack`) the checks, the refresh, the
program that registers resources, Pulumi applying them, the second update after
imports that may have drifted, and the destruction of a stack nobody asks for.

### State

| variable | code |
|---|---|
| `asked[t]` | the manifests of the next sync, with import settings, delete policy and the tags of scripts |
| `cloud[t][r]` | is the resource there, and are its inputs those of the manifest? |
| `state[t]`, `kept[t]`, `tags[t]` | what the stack manages, what of it was applied with `RetainOnDelete`, and which of its scripts ran with the second of two values of `forceUpdateTag` |
| `env[s]` | whose values the environment of a script holds in the informer's store |
| `given[t][s]` | whose values the script was deployed with |
| `server` | is MinIO reachable? |
| `run[t]` | the local variables of the update: the calls of `deployResourceWithDeps` under way (a stack of records), what is provisioned, registered, to be imported, applied; whether changes are to be reported |

### Actions

| action | code |
|---|---|
| `Start`, `Finish` | the call of `Create` and its return |
| `Check` | `checkMinioReachable` |
| `Refresh` | the refresh of `updateStack`, left out with `PULUMI_SKIP_REFRESH`; while MinIO is down its buckets seem to be gone |
| `Load` | `loadManagedResources`, if anything may be imported, and the begin of an `Up` |
| `Visit`, `Register` | the loops of `deployFunc` and `deployResourceWithDeps`; `deployResource`, with the import decision, the environment of scripts, and what Pulumi is told to wait for (`Goal`): the dependencies, but for an `AzurePowerShellScript` (`Undelayed`), which does not pass them on |
| `ApplySame`, `ApplyChange`, `Replace`, `ApplyFails`, `Registered`, `Delete`, `DeleteFails` | Pulumi (external): resources are applied after those they are to wait for, in any order, while the program still runs; a script with another tag (`Triggers`), and what is managed but imported, is deleted and then created again; what is not registered is deleted, or left in the cloud if retained |
| `Updated` | the result of the update: the second one, if there were imports of resources that ignore inputs |
| `Select`, `Remove` | `tryDestroyAndDeleteStack` |
| `Fail` | an error of any call, or of a template |
| `Ask`, `LoseState`, `DeleteByHand`, `Outage` | users and the world |

### Properties

- `DependenciesComeFirst`: no resource becomes part of a stack before those of
  its dependencies that are asked for, unless it is `Undelayed`.
- `DependenciesDelay`: the same without the exception, as `README.md:212` says.
  Violated, a finding.
- `OnlyRetaggedAreReplaced`: an update deletes nothing that is among its manifests
  but a script whose `forceUpdateTag` has changed (`README.md:857`), and no script
  in the second of two updates. That nothing is imported that is managed is what
  loading the managed resources after the refresh, and again before the second
  update, is for.
- `StatefulIsRetained`: what was applied under `RetainStatefulResources` is
  never deleted.
- `SucceededIsAsked`: an update that returns no error has left exactly the
  resources that were asked for, with their inputs, tags and policy; but for a
  bucket it has just imported, whose inputs follow in the next sync.
- `ChangesAreReported`: a stack that gained or lost resources reports changes.
- `UpdatesEnd`: an update that begins ends. The fairness is that of the worker
  (`WF(Work(t))`): the calls return.
- `ScriptsHaveOwnValues`: violated, a finding.

Not promised: if MinIO goes down between the check and the refresh, or while no
bucket is asked for, the refresh drops its buckets from the state, and they stay
behind (the comment at `pulumi.go:68-72` is about that); a delete policy that
changes together with the manifests comes too late for what they no longer hold;
dependencies with a cycle recurse for ever (`NoCycleAssumption`); after a second
update that failed no later sync reports the imports, so no migration follows.

What the grain of one resource per object leaves out: the address, the security
group, the network card and the password of a virtual machine
(`azure_virtual_machine.go:66-112`) get no dependencies and may be created before
them, while the machine waits (line 164); a virtual desktop passes them to its
component only (`azure_virtual_desktop.go:426`), whose parts are its children, and
it retains some of its parts under the policy although it is not importable. An
imported bucket ignores `forceDestroy` (`minio_bucket.go:95-98`) until the next
sync, which is modelled, and with `importBucketName` always, which is not. That a
replacement deletes first is Pulumi's choice for a command whose triggers change;
an update that replaces by creating first is not modelled.

## 7. What the runs show

The runs of the three controllers have `CHECK_DEADLOCK FALSE`: edits, failures
and crashes are bounded, so a controller that has handled everything rests, and
that is what the `Settled...` properties are about. The stack's runs check
deadlock: a worker can always start another sync.

| run | instance | shows |
|---|---|---|
| `provisioning_domains` | two workers, two domains, a tenant that drops one of them, one that skips provisioning, a resource that moves between domains and to the platform's target; 2 edits, no failures or crashes (917 thousand states) | `TypeOK`, `NoLostWakeup`, `StaleJobIsRedone`, `WorkersHoldKeys`, `OneWorkerPerStack`, `SettledIsCleanedUp`, `SettledIsMigrated`, `SettledPlatformIsProvisioned`, `SkippedIsUntouched` |
| `provisioning_liveness` | one tenant that may name the category or not, or drop its domain; a category that changes, moves to another platform or turns malformed; one resource with or without a filter on the category; a platform that comes and goes; an edit, a failure, a crash, a lost message, starting from an empty or a full cluster, with `FairSpec` (134 thousand) | `NoLostWakeup`, `StaleJobIsRedone`, `SettledIsAnnounced`, `EventuallyProvisioned` |
| `failure_not_retried` | violated: `FailureIsRetried` | finding 1 |
| `platform_moves` | two platforms, two workers (as `main` starts), a tenant and a domain that come, go and move between the platforms; 2 edits; ConfigMap store up to date; symmetric workers (1.6 million states) | `SettledDomainMaps`, `PlatformMapsAreConsistent`, `OnlyOwnMapsAreReplaced` |
| `platform_lag` | one platform that is written to, deleted, and created again at once; a domain that comes and goes, and no tenants, so that every sync replaces both ConfigMaps; a ConfigMap store that lags; 2 edits, 1 failure (1.4 million) | `TypeOK`, `ReadyIsWithdrawn`, `FalseIsReconciling` |
| `platform_liveness` | one of each, a platform that may move to another namespace; an edit, a failure, a crash, from an empty or a full cluster, with `FairSpec` (104 thousand) | `ImplementsReconciler`, `EventuallyReconciled` |
| `config_map_stale_store` | violated: `DifferentDataIsUpdated` | finding 2 |
| `configuration_safety` | a domain outside of the platform's target namespace, a global ConfigMap and one of its own with the same key, which may lose its labels; the domain turns aggregation off and on, is deleted and created again; somebody deletes or empties the output; 2 edits, 1 crash; stores that lag (685 thousand) | `TypeOK`, `ReadyIsWithdrawn`, `SettledIsAggregated`, `SettledIsCleanedUp`, `OwnConfigWins`, `ImplementsReconciler` |
| `configuration_liveness` | a domain with a Vault secret; an edit of the domain, of Vault, or of the platform (which may go, not come), or somebody takes the name of an output; a failure, a crash, with `FairSpec` (382 thousand) | `EventuallyAggregated` |
| `stack_update` | a bucket that depends on a script that depends on a database, the loops coming to the bucket first; script and database have one name; an `AzurePowerShellScript` that depends on the database; seven manifests with imports on and off, retained or not, and another tag of the script; 2 edits, 1 failure, 1 outage (457 thousand) | `TypeOK`, `SucceededIsAsked`, `ChangesAreReported`, `DependenciesComeFirst`, `OnlyRetaggedAreReplaced`, `StatefulIsRetained`, `UpdatesEnd` |
| `script_keeps_first_tenant` | violated: `ScriptsHaveOwnValues` | finding 3 |
| `script_before_dependencies` | violated: `DependenciesDelay` | finding 4 |

Why the bounds are enough for the provisioner: every property is about one key,
and what happens to a key depends on one tenant, its category and each resource
on its own. Two edits suffice for a change that overtakes the sync of the change before it, and
for a change that is taken back (`provisioning_domains`); an edit beside a failure,
a crash and a lost message gives every order of the four
(`provisioning_liveness`; the safety properties hold with two edits beside them too,
in 2.7 million states).
One worker interleaves with every handler and edit;
the second one is needed only for exclusion, which `provisioning_domains`
checks and the proofs settle for any number. The theorems below hold for every
value of the bounds, but for those that say nothing crashes.

For the platform controller: a key is a platform, what happens to it depends on
its tenants and domains one at a time, and two platforms meet only in the
ConfigMap of a domain that moves between them, which is the instance of
`platform_moves`. One edit beside one failure and one crash gives every order of
the three; two edits let a platform be deleted and created again under a worker
(`platform_lag`); a lagging store needs one sync to fall behind and one to be misled.

`SettledIsCleanedUp`, `SettledIsMigrated` and `SettledPlatformIsProvisioned` are
checked without failures, crashes and platforms that come and go, because the
code does not promise them otherwise: a failed cleanup is only logged, a domain
dropped while the controller is down has nothing to wake it, a failed migration
is not repeated when the next sync finds no changes, and Platform events wake
nobody. Each is listed as a hazard.

For the configuration domain controller: a key is a domain, and domains meet only in
the handlers, which the theorems settle for any number of them. What an event does
depends on one object. Two objects in two lists make precedence matter; two edits let
one overtake the sync of the other or be taken back, and delete and create a domain or
an output; a crash loses the queue between them. Failures are in the liveness run,
and unbounded in the theorems.

For the stack: targets share only the environment of scripts, so one is enough for
all but `ScriptsHaveOwnValues`. Bucket, script and database make a dependency that comes
later in the loops, one that is indirect, and one that is found twice; the
database is imported and drifts, the bucket sits behind a server. Two edits
change the manifests between updates and within one. `SKIP_REFRESH` is off in
the run; the proofs cover both.

Every property has a mutant in `PROJECT.json`: a definition of the model
changed as a plausible bug would change the code, under which TLC finds the
property violated in the same run.

## 8. What is proved

For every set of tenants, categories, resources, domains, platforms, sources,
targets and workers, any number of edits, failures, outages and crashes:

| theorem | module | says |
|---|---|---|
| `TypesAreCorrect` | `ProvisioningTypes` | `Spec => []TypeOK` |
| `KeysAreHeldOnce` | `ProvisioningProofs` | `Spec => []WorkersHoldKeys` |
| `StacksAreDrivenByOne` | | `Spec => []OneWorkerPerStack`, given `StacksAreDistinct` |
| `NothingIsEverLost` | | the inductive invariant below |
| `NoWakeupIsLost`, `StaleJobsAreRedone` | | its two parts |
| `SettledDomainsAreAnnounced` | | `Spec => []SettledIsAnnounced` |
| `SkippedTenantsAreUntouched` | | `Spec => []SkippedIsUntouched`, given `StacksAreDistinct` and `~WarmStart` |
| `NothingIsLeftBehind` | | a second inductive invariant, given `Uninterrupted` and `OnlyTenantUpdatesFail` |
| `SettledDomainsAreCleanedUp` | | `[]SettledIsCleanedUp`, given the same |
| `SettledPlatformsAreProvisioned` | | `[]SettledPlatformIsProvisioned`, given the same |
| `SettledStacksAreMigrated` | | `[]SettledIsMigrated`, given `StacksAreDistinct`, `MaxCrashes = 0`, `AllEnabled` and `NoUpdateFails` |
| `ReconciledAtRest` | `Reconciler` | `Spec => []Consistent` |
| `TypesAreCorrect` | `PlatformProofs` | `Spec => []TypeOK` |
| `ConditionsAreKept` | | the inductive invariant below |
| `ReadyIsAlwaysWithdrawn` | | `Spec => []ReadyIsWithdrawn` |
| `FalseIsAlwaysReconciling` | | `Spec => []FalseIsReconciling` |
| `OwnMapsAreReplacedOnly` | | `Spec => OnlyOwnMapsAreReplaced`, given `MapsAreSeen` |
| `MapsAreSynced` | | the inductive invariant of the refinement below, given `MapsAreApart` |
| `PlatformReconciles` | | `Spec => ImplementsReconciler`, given `MapsAreApart` |
| `PlatformMapsAreRight` | | `Spec => []PlatformMapsAreConsistent`, given the same |
| `DomainMapsAreSynced` | | the inductive invariant of the next, given `DomainsAreApart` |
| `SettledDomainMapsAreRight` | | `Spec => []SettledDomainMaps`, given the same |
| `TypesAreCorrect` | `ConfigurationTypes` | `Spec => [](TypeOK /\ VersionsArePast)` |
| `ReadyIsAlwaysWithdrawn` | `ConfigurationProofs` | `Spec => []ReadyIsWithdrawn` |
| `SettledIsAlwaysCleanedUp` | | `Spec => []SettledIsCleanedUp`, given `~PlatformsMayChange` |
| `SettledIsAlwaysAggregated` | | `Spec => []SettledIsAggregated`, given that and three conditions below |
| `OwnConfigAlwaysWins` | | `Spec => []OwnConfigWins`, given the same |
| `StackInvariance` | `StackProofs` | the inductive invariant below |
| `TypesAreCorrect` | | `Spec => []TypeOK` |
| `SuccessIsAsAsked` | | `Spec => []SucceededIsAsked` |
| `EveryChangeIsReported` | | `Spec => []ChangesAreReported` |
| `DependenciesAlwaysComeFirst` | | `Spec => DependenciesComeFirst` |
| `OnlyRetaggedAreEverReplaced` | | `Spec => OnlyRetaggedAreReplaced` |
| `StatefulIsAlwaysRetained` | | `Spec => StatefulIsRetained` |

The four from `NothingIsEverLost` to `SettledDomainsAreAnnounced` take
`StacksAreDistinct` and `~SkipInitialReconcile`, others what the table says, and
the rest nothing but the assumptions on constants. The hypotheses stand for what
the code does not promise, or for where it starts:

- `Uninterrupted`: distinct stacks, no `SKIP_INITIAL_RECONCILE`, platforms that
  stay, and no crash, after which nothing wakes the domain a tenant has dropped.
- `OnlyTenantUpdatesFail`: reads, migrations, and updates for a tenant that asks
  for the domain may fail; a cleanup and an update of a platform's own stack do
  not, since the controller only logs that and forgets it. Here failures are a
  condition on behaviours (`Spec /\ [][OnlyTenantUpdatesFail]_vars`), not a bound.
- `NoUpdateFails`: no update and no migration fails; `AllEnabled`: a tenant that
  is disabled while its stack changes is not migrated, and enabling it changes
  nothing in the stack that would.
- `~WarmStart`: a skipped tenant starts without a stack.
- `MapsAreSeen`: platforms that stay, whose uids tell owners apart, and a store of
  ConfigMaps that does not lag: the delete is by name, of whatever is there.
- `MapsAreApart`: a store of ConfigMaps that does not lag (finding 2), a platform
  whose ConfigMaps are collected before its name is used again (a hazard in
  `PROJECT.json`), and no domain with the name of a platform: both ConfigMaps are
  `<name>-tenants` (lines 635 and 666), so the two would be one. Platforms may be
  created, deleted and moved.
- `DomainsAreApart`: that, and platforms that stay. The ConfigMap of a domain has
  the domain's name and outlives a move of the domain, so it may be of a platform
  that is about to be deleted: once it is collected nothing wakes the platform
  the domain is of now. `SettledDomainMaps` says itself that no call has failed:
  an error of a domain's ConfigMap is recorded and not retried.

The instances of `provisioning_domains`, `platform_moves` and
`platform_liveness`, which check the same properties, satisfy these hypotheses.
`NoCycleAssumption` is cited by no proof: it is there for the liveness run, a
program with a cycle does not end.

The argument for the provisioner. `SettledIsAnnounced` is not inductive: it speaks of states at
rest only. `NoLostWakeup` says what holds on the way there, but a worker that
gives its key back ends what kept it true, so it needs `StaleJobIsRedone`: the
worker that ends has left the stack as it should be, or failed and said so, or
its key is queued again. That in turn needs `WorkersHoldKeys`, or another
worker's job on the same key could be the one that is taken off the queue, and
`StacksAreDistinct`, or another key's update could change the stack. The
conjunction `NothingIsLost` is inductive; that messages and events say the same
unless one was lost is an invariant of its own (`SentInv`, `MessagesAreSent`):

- `ItemsDepend`: what is selected for a key depends on its tenant, the category
  the tenant names, and the resources of its platform and domain only.
- `QuietStep`: so, if a step leaves those alone or leaves their events to come,
  then a key that is not pending after it was not pending before it, and a sync
  of it would find the same.
- `EditQuiet`, `ObserveQuiet`, `HandleTenantQuiet`, `HandleCategoryQuiet`,
  `HandleResourceQuiet`: that is so of the edits (an edit has its event to
  come), of the stores (they change nothing that is read live), and of the
  handlers: the last event of an object is of the version in the API server, and
  its handler enqueues the key, since it reads the tenant from a store that is
  up to date or has the tenant's own event to come.
- `ListedIsWanted`: the stores answer a key that is due and not pending as the
  API server would; hence `JobStaysUpToDate`.
- `StartsPending`: after a start every tenant has its Add to come.

`SkippedIsUntouched` follows from `SkippedInv`: a tenant that is always skipped is
on no queue and with no worker, because every path that enqueues a key asks
(`NoKeyIsSkipped`).

What `NothingIsLost` says of a key that is due, `UnbrokenInv` says of the others:
domains nobody asks for and the stacks of platforms.

- `Still`: no event to come asks for the key or touches it, and it is neither
  queued nor delayed. `Aim`: where its stack is to rest then, nothing or the
  platform's resources.
- `RestInv`: the stack of a still key nobody is on is at its aim, and every worker
  on it works towards it (`AimedJob`): it has read what leads there, or is about
  to. `TargetsOK`: a worker's target is of its key.
- `EditSteady`, `ObserveSteady`, `HandleSteady`: a key that is still after a step
  was still before it with the same aim, for an edit has its event to come and
  the last event enqueues the key.
- `ListedIsAim`, `JobStaysAimed`, `SyncRests`, `TakeRests`: the stores answer a
  still key as the API server would, so a worker's steps keep its aim, and a
  sync that ends has reached it; `OthersRest`: nobody else touches the stack.

`MigratedInv` says that a stack whose migrations have not run since it changed
is in the hands of a worker that will run them.

`ClientGoProofs` has the facts about views, by cases on indexes: a
notification is of a change, the one that leaves nothing to come is of the
current version, the store is never ahead of the API server.

The argument for the platform controller. Neither property of the Ready
condition is inductive. `ReadyIsWithdrawn` could be lost when the platform is
deleted and created again under a worker, or when a second worker takes the same
key; `FalseIsReconciling` when a key leaves the queue for a worker that then
does nothing. `ConditionInv` adds what the code relies on:

- `HeldOnce`: a key the queue has handed out is held by one worker.
- `VersionsArePast`, `JobsArePast`: a new version of a platform differs from
  every version a worker has read, so a status write that is accepted is on the
  very object that was read.
- `ConditionsArePresent`, `JobsAreSeen`: a platform has a condition only if the
  API server has it, and a worker that has read the last version has given it
  one; so a worker that finds its platform gone (`ResetStatus` ends the sync for
  good) leaves no condition behind, unless the Add of a successor is to come.
- `JobsAreUnready`, `FalseIsPending`: the two properties, in the form a step of
  a worker keeps.

`PresentViews` and `AddViews` are the facts about views it needs; one lemma per
kind of step (`EditConditions`, `OtherConditions`, `SyncConditions`,
`TakeConditions`) shows that the conjunction is kept. None of it depends on how
far the ConfigMap store lags, or on names not being reused.

`OnlyOwnMapsAreReplaced` is about steps; what they start from is `OwnMapsInv`: a
worker past its first read has the platform as it is, and what it is about to
delete is there and its platform's. `SyncMaps` says what a worker does to the
ConfigMaps: it reads, creates one where there is none, or deletes that one.
`OwnMapStays` is why the invariant is kept: a second worker about to delete the
same ConfigMap would be on the same platform, which `HeldOnce` excludes, and the
garbage collector takes only what has no owner.

That the controller implements `Reconciler` is shown action by action, with
*pending* the platforms that are queued, delayed or to be woken by an event:

- `Events`, `PendingIs`: the events to come are pairs of neighbouring versions
  of an object; a platform is pending if one of them wakes it.
- `EditPending`, `NothingForgotten`: an edit has its event to come, and an event
  that is handled leaves its platforms on the queue; so a platform that is not
  pending after a step was not before, and wants the same ConfigMap (`CalmStep`).
  The Update handler of tenants has to wake the platform of either version here.
- `InitPending`, `RestartPending`: the first list wakes every platform.
- `WritesAreApart`, `OwnersInv`, `UidsInv`: a worker writes `<namespace>/<key>` or a
  domain's ConfigMap; one with a platform's name is that platform's. Hence
  `OnlyOwnWanted`, `OthersKeepWanted`: only the worker on a platform writes the
  right ConfigMap, and the garbage collector never takes it.
- `CalmTenants`: a stale store of tenants is seen to be stale, for an event is to
  come; a worker on a platform that is not pending lists what is in the API server.
- `SyncInv`: so that worker is to write the ConfigMap as wanted (`Lists`), and
  past it has left it so (`Passes`), whichever of its calls failed; if it fails on
  the platform's own ConfigMap it ends in `retry` and the key is pending.
- `TakeChange`, `MapsChange`, `FinishChange`, `OthersChange`, `CrashChange`,
  `RestartChange`: the actions of `Reconciler` they are; status writes are none.

For the ConfigMaps of domains the events of domains count too: a platform is
`AllCalm` if it is not pending and none of them is to wake it. `SettledDomainMaps`
speaks of rest only, and of a ConfigMap that two platforms may claim, the one the
domain was moved from and the one it was moved to:

- `IsRight`: what a platform that is calm may find under its domain's name: what
  it wants, somebody else's ConfigMap, or nothing while a worker on another
  platform is between its Delete and its Create. `RightStays`: only the worker
  that is at it on this platform makes it wrong, for nobody deletes what is
  another's (`OwnMapsInv`) and nothing is collected (`NoOrphans`).
- `CreatedOnce`: a worker about to create finds nothing there, or what another
  platform's worker has created meanwhile. Hence the Create that fails with
  "already exists", whose error is only recorded, leaves the ConfigMap right.
- `DomainsBefore`, `CalmIsSteady`: a platform that is calm after a step was calm
  before it and has the same domains and tenants; `ListedAsked`: so its sync lists
  what the API server has.
- `DomainClaim`, `DomainSync`: its worker has ahead of it (`Ahead`) what is wanted,
  and behind it all is right (`MapMoves`, `GoesOn`, `DoneIsRight`); when it lets the
  key go (`OnlyFinishLetsGo`) all is right, and stays so.

The argument for the configuration domain controller. `ReadyIsWithdrawn` rests
on `HeldOnce` and `VersionsArePast`, as for the platform controller. The
theorems about rest are about *calm* domains: nothing of them is queued or
delayed, and every version of the domain that the store or the handlers may have
is the same object with the same spec (`Calm`).

- `SameBefore`, `CalmBefore`: a domain that is calm after a step was calm before
  it, or has just been taken off the queue, and asks for the same outputs: any
  other change would have an event to come, or have queued it.
- `JobClaim`: what a worker on a calm domain has done so far: read what is in
  the API server, deleted what is not asked for. `CleanInv` says so of every
  worker, and of a domain nobody is on that it is clean; `CleanStays` that
  nobody else undoes it; `CleanStep` that it is inductive, with `BaseInv`.

Aggregation needs the events of the other objects. A domain is `Quiet` if it is
calm, no event under way is of an object it aggregates (`SourceCalm`), and its
output was created since the handlers saw it last, or not touched (`MapCalm`).

- `NameParts`, `JoinedParts`, `ReadIsWoken`: an event of an object that a sync
  reads wakes the domain, for all labels: the handlers cut a label at the first
  dot, the lists join name and namespace. `ChangeIsWoken`: so does an update,
  before or after which the object is read.
- `AggregatesOfRead`: an aggregation depends on the objects that are read only.
- `LabelsInv`: every version under way is one users may write, and the output
  has the labels of its domain, whoever wrote it.
- `AvoidedBefore`, `SourceBefore`, `MapBefore`, `QuietBefore`: hence a domain that is quiet
  after a step was quiet before it, or has just been taken, nothing it
  aggregates changed, and neither did its output if it had one.
- `ListsAreLive`, `StoredIsLive`: the stores, which may lag, have of what a
  quiet domain aggregates what the API server has, and its output if any.
- `SyncClaim`, `MapIsDone`, `AggregatedStep`: so a sync that leaves the domain
  quiet has left the aggregation; one with secrets has queued it again.
- `AggregatesPreferOwn`: an aggregation has own values of own keys.

The hypotheses `~PlatformsMayChange`, `"take" \notin Tampering`,
`DomainsKeepPlatforms` and `LabelsKeepNamespaces` stand for what section 5 says
is not promised; the constants of `configuration_safety` satisfy them.

The argument for the stack. `StackInv` has, for each target: `LoopsInv`, that
each call under way has found or has yet to visit every dependency that is
asked for; `ProgramInv`, that what is registered was given its dependencies, and
that all is registered when the program ends; `AppliedInv`, that what is
applied is in the stack under the policy and with its tag, and what is to be
imported is not in the stack, so that only a script with another tag is replaced
(`OnlyScriptsAreReplaced`, `ReplaceStep`); `LoadedInv`, that what the stack manages was loaded or has been
applied since; `EndInv`, what a result says. One lemma per action shows that it
is kept.

Only model-checked: liveness (`EventuallyProvisioned`, `EventuallyReconciled`,
`EventuallyAggregated`, `UpdatesEnd`), which is outside of this prover, and the
refinement `ImplementsReconciler` of the configuration domain controller (what
follows from it is proved, in `Reconciler`). Every invariant the runs check is
proved.

## 9. Findings

1. `failure_not_retried` (bug): `syncHandler` shadows `err`, so the error of
   `syncTarget` is never returned; a failed provisioning, migration, override
   or category lookup is logged as "Successfully synced" and not retried.
   Comments at `provisioning_controller.go:274-277` and `:287` say it is.
2. `config_map_stale_store` (bug): `syncConfigMap` decides on the ConfigMap in
   the informer's store, which may not have seen the replacement of the sync
   before; a change that is taken back leaves the ConfigMap with the change,
   where `platform_controller.go:556-557` says different data is updated.
3. `script_keeps_first_tenant` (bug): `deployLocalScript` renders the environment
   of a LocalScript into the object of the informer's store
   (`local_script.go:27`), so that later tenants' scripts are deployed with the
   values of the first, where `README.md:855` says the placeholders are the
   tenant's.
4. `script_before_dependencies` (disagreement): `deployAzurePowerShellScript` takes
   the dependencies of the script and never passes them to Pulumi
   (`azure_powershell_script.go:40`, no `DependsOn`), so that the script may run
   before them, where `README.md:212` says it is delayed.

Smaller disagreements met on the way have no run of their own and are listed as
hazards: a category that cannot be found publishes no failure, the drain of
`SKIP_INITIAL_RECONCILE` discards genuine changes, a failed cleanup is
forgotten, and a ConfigMap of somebody else is not an error.

## 10. What is not modelled

- The merge of overrides (`applyTargetOverrides`): which manifests a target gets
  is modelled as a function of resource, category and tenant, which may fail;
  the deep merge of JSON documents and the globs are data no property of the
  controllers tells apart. That two globs may match and a map has no order is a
  hazard without a property.
- The resource kinds of the Pulumi provisioner: they translate a spec to calls
  of a library, without state or control of their own. What they share
  (dependencies, imports, retention) is in `StackUpdate`, and what sets the two
  kinds of scripts apart.
- Migration jobs one by one: a migration runs, fails or does not run. Explicit
  import IDs, and the lookups of IDs and aliases.
- Names with dots in them, dependencies with a cycle: left out by assumption.
- Relists after a lost watch, resyncs, and data races on the objects of the
  informers' stores (hazards).
- The command line programs (what they set are constants of the models), the
  gRPC connection and the HTTP calls to Vault: I/O. The last message per key, and
  that one may be lost, is what the models keep of messaging.
- Durations: back-offs and delays are steps that happen eventually.
- The generated clients, the generated Pulumi SDK, the protobuf code and the
  Helm chart. They are 73 of the repository's 85 thousand lines of Go, so that
  the share of all lines that a model can stand for is small; of the code of the
  three controllers, next to everything that changes state is mapped.
