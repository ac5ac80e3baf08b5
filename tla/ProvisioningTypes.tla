------------------------- MODULE ProvisioningTypes -------------------------
(***************************************************************************)
(* Type correctness of the tenant provisioner, for all constants.          *)
(***************************************************************************)
EXTENDS ProvisioningProperties, ClientGoProofs

-----------------------------------------------------------------------------
(* Values *)

(* The versions users may write are specs.                                 *)
LEMMA VersionsAreSpecs ==
    /\ \A t \in Tenants : TenantVals[t] \subseteq TenantSpec
    /\ \A c \in Categories : CategoryVals[c] \subseteq CategorySpec
    /\ ResourceVals \subseteq ResourceSpec
    /\ Absent \notin TenantSpec /\ Absent \notin CategorySpec /\ Absent \notin ResourceSpec
BY ValuesAssumption

(* What the stores and the API server answer are specs, or nothing.         *)
LEMMA ReadTypes ==
    ASSUME ViewsOK
    PROVE  /\ \A t \in Tenants :
                /\ Live(tenants[t]) \in TenantVals[t] \cup {Absent}
                /\ Cached(tenants[t]) \in TenantVals[t] \cup {Absent}
           /\ \A c \in Categories :
                /\ Live(categories[c]) \in CategoryVals[c] \cup {Absent}
                /\ Cached(categories[c]) \in CategoryVals[c] \cup {Absent}
           /\ \A r \in Resources :
                /\ Live(resources[r]) \in ResourceVals \cup {Absent}
                /\ Cached(resources[r]) \in ResourceVals \cup {Absent}
BY ReadsAreVersions DEF ViewsOK

(* ... as functions of the objects' names.                                 *)
LEMMA ListTypes ==
    ASSUME ViewsOK
    PROVE  /\ LiveCategories \in [Categories -> CategorySpec \cup {Absent}]
           /\ CachedCategories \in [Categories -> CategorySpec \cup {Absent}]
           /\ LiveResources \in [Resources -> ResourceSpec \cup {Absent}]
           /\ CachedResources \in [Resources -> ResourceSpec \cup {Absent}]
BY ReadTypes, VersionsAreSpecs
   DEF LiveCategories, CachedCategories, LiveResources, CachedResources

(* A key has a stack.                                                      *)
LEMMA KeyTypes ==
    /\ NoKey \in Keys
    /\ \A p \in PlatformRefs, t \in Tenants \cup {NoTenant}, d \in Domains \cup {NoDomain} :
            Key(p, t, d) \in Keys
    /\ \A k \in Keys : StackOf(k) \in Stacks
BY DEF NoKey, Keys, Key, Stacks, PlatformRefs

(* The key sets of the theorems are sets of keys.                          *)
LEMMA TenantKeysAreKeys ==
    ASSUME NEW k \in TenantKeySet
    PROVE  /\ k \in Keys /\ k.tenant \in Tenants /\ k.tenant \in Unskipped
           /\ k.platform \in Platforms /\ k.domain \in Domains
           /\ k = Key(k.platform, k.tenant, k.domain)
BY DEF TenantKeySet, Keys, Key, Unskipped, PlatformRefs
-----------------------------------------------------------------------------
(* Selection *)

(* What is selected for a tenant whose category is resolved are manifests. *)
LEMMA TenantItemTypes ==
    ASSUME NEW k \in Keys, NEW tenant \in TenantSpec,
           NEW cats \in [Categories -> CategorySpec \cup {Absent}],
           NEW ress \in [Resources -> ResourceSpec \cup {Absent}],
           CategoryResolved(tenant, cats)
    PROVE  TenantItems(k, tenant, cats, ress) \subseteq Manifests
<1> SUFFICES ASSUME NEW r \in Resources, ress[r] # Absent
             PROVE  ForTenant(r, ress[r], tenant, cats) \in Manifests
  BY DEF TenantItems, InTarget
<1>1. /\ ress[r].spec \in Specs
      /\ tenant.category \in CategoryRefs /\ tenant.settings \in Settings
  BY DEF ResourceSpec, TenantSpec
<1>2. tenant.category # NoCategory => cats[tenant.category].overrides \in Overrides
  BY DEF CategoryResolved, CategorySpec
<1> QED BY <1>1, <1>2, ValuesAssumption DEF ForTenant, Manifests

(* ... and so are those of a platform.                                     *)
LEMMA PlatformItemTypes ==
    ASSUME NEW k \in Keys, NEW ress \in [Resources -> ResourceSpec \cup {Absent}]
    PROVE  PlatformItems(k, ress) \subseteq Manifests
BY ValuesAssumption DEF PlatformItems, InTarget, ForPlatform, Manifests, ResourceSpec, CategoryRefs
-----------------------------------------------------------------------------
(* Keys of events *)

(* A tenant is enqueued under keys.                                        *)
LEMMA TenantKeyTypes ==
    ASSUME NEW t \in Tenants, NEW v \in TenantSpec \cup {Absent}
    PROVE  TenantKeys(t, v) \subseteq Keys
<1> SUFFICES ASSUME v \in TenantSpec, NEW d \in v.domains
             PROVE  Key(v.platform, t, d) \in Keys
  BY DEF TenantKeys
<1>1. v.platform \in PlatformRefs /\ d \in Domains
  BY DEF TenantSpec
<1> QED BY <1>1, KeyTypes

LEMMA OnTenantTypes ==
    ASSUME NEW t \in Tenants,
           NEW old \in TenantSpec \cup {Absent}, NEW new \in TenantSpec \cup {Absent}
    PROVE  OnTenant(t, old, new) \subseteq Keys
BY TenantKeyTypes DEF OnTenant

LEMMA OnCategoryTypes ==
    ASSUME ViewsOK, NEW c, NEW old, NEW new
    PROVE  OnCategory(c, old, new) \subseteq Keys
<1>1. \A p : KeysOfCategory(c, p) \subseteq Keys
  <2> SUFFICES ASSUME NEW u \in Tenants PROVE TenantKeys(u, Cached(tenants[u])) \subseteq Keys
    BY DEF KeysOfCategory
  <2> QED BY ReadTypes, VersionsAreSpecs, TenantKeyTypes
<1> QED BY <1>1 DEF OnCategory

LEMMA OnResourceTypes ==
    ASSUME NEW old \in ResourceSpec \cup {Absent}, NEW new \in ResourceSpec \cup {Absent}
    PROVE  OnResource(old, new) \subseteq Keys
<1>1. \A v \in ResourceSpec : KeysOfDomain(v.platform, v.domain, v.target) \subseteq Keys
  <2> SUFFICES ASSUME NEW v \in ResourceSpec
               PROVE  KeysOfDomain(v.platform, v.domain, v.target) \subseteq Keys
    OBVIOUS
  <2>1. v.platform \in PlatformRefs /\ v.domain \in Domains \cup {NoDomain}
    BY DEF ResourceSpec
  <2> QED BY <2>1, KeyTypes DEF KeysOfDomain
<1> QED BY <1>1 DEF OnResource
-----------------------------------------------------------------------------
(* Steps of the views *)

(* Replacing a view by one of the same object.                             *)
LEMMA TenantStep ==
    ASSUME ViewsOK, UNCHANGED <<categories, resources>>,
           NEW t \in Tenants, NEW view,
           view \in ViewOf(TenantVals[t] \cup {Absent}), WellFormed(view),
           tenants' = [tenants EXCEPT ![t] = view]
    PROVE  ViewsOK'
<1>1. view \in ViewOf(TenantSpec \cup {Absent})
  BY ViewsOfLess, VersionsAreSpecs
<1> QED BY <1>1 DEF ViewsOK

LEMMA CategoryStep ==
    ASSUME ViewsOK, UNCHANGED <<tenants, resources>>,
           NEW c \in Categories, NEW view,
           view \in ViewOf(CategoryVals[c] \cup {Absent}), WellFormed(view),
           categories' = [categories EXCEPT ![c] = view]
    PROVE  ViewsOK'
<1>1. view \in ViewOf(CategorySpec \cup {Absent})
  BY ViewsOfLess, VersionsAreSpecs
<1> QED BY <1>1 DEF ViewsOK

LEMMA ResourceStep ==
    ASSUME ViewsOK, UNCHANGED <<tenants, categories>>,
           NEW r \in Resources, NEW view,
           view \in ViewOf(ResourceVals \cup {Absent}), WellFormed(view),
           resources' = [resources EXCEPT ![r] = view]
    PROVE  ViewsOK'
<1>1. view \in ViewOf(ResourceSpec \cup {Absent})
  BY ViewsOfLess, VersionsAreSpecs
<1> QED BY <1>1 DEF ViewsOK

(* A write of another version leaves a view well formed, watched or not.   *)
LEMMA WriteView ==
    ASSUME NEW S, NEW view \in ViewOf(S), WellFormed(view),
           NEW v \in S, v # Live(view)
    PROVE  Write(view, v) \in ViewOf(S) /\ WellFormed(Write(view, v))
BY UnwatchedView, WrittenView DEF Write

(* The edits of the users.                                                 *)
LEMMA EditViews == ViewsOK /\ Edit => ViewsOK'
<1> SUFFICES ASSUME ViewsOK, Edit PROVE ViewsOK'
  OBVIOUS
<1>1. ASSUME NEW t \in Tenants, NEW v \in TenantVals[t] \cup {Absent}, EditTenant(t, v)
      PROVE  ViewsOK'
  <2>1. /\ Write(tenants[t], v) \in ViewOf(TenantVals[t] \cup {Absent})
        /\ WellFormed(Write(tenants[t], v))
    BY <1>1, WriteView DEF ViewsOK, EditTenant
  <2> QED BY <1>1, <2>1, TenantStep DEF EditTenant
<1>2. ASSUME NEW c \in Categories, NEW v \in CategoryVals[c] \cup {Absent}, EditCategory(c, v)
      PROVE  ViewsOK'
  <2>1. /\ Write(categories[c], v) \in ViewOf(CategoryVals[c] \cup {Absent})
        /\ WellFormed(Write(categories[c], v))
    BY <1>2, WriteView DEF ViewsOK, EditCategory
  <2> QED BY <1>2, <2>1, CategoryStep DEF EditCategory
<1>3. ASSUME NEW r \in Resources, NEW v \in ResourceVals \cup {Absent}, EditResource(r, v)
      PROVE  ViewsOK'
  <2>1. /\ Write(resources[r], v) \in ViewOf(ResourceVals \cup {Absent})
        /\ WellFormed(Write(resources[r], v))
    BY <1>3, WriteView DEF ViewsOK, EditResource
  <2> QED BY <1>3, <2>1, ResourceStep DEF EditResource
<1>4. ASSUME NEW p \in Platforms, EditPlatform(p)
      PROVE  ViewsOK'
  BY <1>4 DEF ViewsOK, EditPlatform
<1> QED BY <1>1, <1>2, <1>3, <1>4 DEF Edit

(* The steps of the informers.                                             *)
LEMMA ObserveViews == ViewsOK /\ Observe => ViewsOK'
<1> SUFFICES ASSUME ViewsOK, Observe PROVE ViewsOK'
  OBVIOUS
<1>1. CASE \E t \in Tenants : /\ CanObserve(tenants[t])
                              /\ tenants' = [tenants EXCEPT ![t] = Observed(@)]
                              /\ UNCHANGED <<categories, resources>>
  <2> PICK t \in Tenants : /\ CanObserve(tenants[t])
                           /\ tenants' = [tenants EXCEPT ![t] = Observed(@)]
                           /\ UNCHANGED <<categories, resources>>
    BY <1>1
  <2>1. /\ Observed(tenants[t]) \in ViewOf(TenantVals[t] \cup {Absent})
        /\ WellFormed(Observed(tenants[t]))
    BY ObservedView DEF ViewsOK
  <2> QED BY <2>1, TenantStep
<1>2. CASE \E c \in Categories : /\ CanObserve(categories[c])
                                 /\ categories' = [categories EXCEPT ![c] = Observed(@)]
                                 /\ UNCHANGED <<tenants, resources>>
  <2> PICK c \in Categories : /\ CanObserve(categories[c])
                              /\ categories' = [categories EXCEPT ![c] = Observed(@)]
                              /\ UNCHANGED <<tenants, resources>>
    BY <1>2
  <2>1. /\ Observed(categories[c]) \in ViewOf(CategoryVals[c] \cup {Absent})
        /\ WellFormed(Observed(categories[c]))
    BY ObservedView DEF ViewsOK
  <2> QED BY <2>1, CategoryStep
<1>3. CASE \E r \in Resources : /\ CanObserve(resources[r])
                                /\ resources' = [resources EXCEPT ![r] = Observed(@)]
                                /\ UNCHANGED <<tenants, categories>>
  <2> PICK r \in Resources : /\ CanObserve(resources[r])
                             /\ resources' = [resources EXCEPT ![r] = Observed(@)]
                             /\ UNCHANGED <<tenants, categories>>
    BY <1>3
  <2>1. /\ Observed(resources[r]) \in ViewOf(ResourceVals \cup {Absent})
        /\ WellFormed(Observed(resources[r]))
    BY ObservedView DEF ViewsOK
  <2> QED BY <2>1, ResourceStep
<1> QED BY <1>1, <1>2, <1>3 DEF Observe

(* The steps of the handlers.                                              *)
LEMMA HandleViews == ViewsOK /\ Handle => ViewsOK'
<1> SUFFICES ASSUME ViewsOK, Handle PROVE ViewsOK'
  OBVIOUS
<1>1. ASSUME NEW t \in Tenants, HandleTenant(t) PROVE ViewsOK'
  <2>1. /\ Notified(tenants[t]) \in ViewOf(TenantVals[t] \cup {Absent})
        /\ WellFormed(Notified(tenants[t]))
    BY <1>1, NotifiedView DEF ViewsOK, HandleTenant
  <2> QED BY <1>1, <2>1, TenantStep DEF HandleTenant
<1>2. ASSUME NEW c \in Categories, HandleCategory(c) PROVE ViewsOK'
  <2>1. /\ Notified(categories[c]) \in ViewOf(CategoryVals[c] \cup {Absent})
        /\ WellFormed(Notified(categories[c]))
    BY <1>2, NotifiedView DEF ViewsOK, HandleCategory
  <2> QED BY <1>2, <2>1, CategoryStep DEF HandleCategory
<1>3. ASSUME NEW r \in Resources, HandleResource(r) PROVE ViewsOK'
  <2>1. /\ Notified(resources[r]) \in ViewOf(ResourceVals \cup {Absent})
        /\ WellFormed(Notified(resources[r]))
    BY <1>3, NotifiedView DEF ViewsOK, HandleResource
  <2> QED BY <1>3, <2>1, ResourceStep DEF HandleResource
<1> QED BY <1>1, <1>2, <1>3 DEF Handle

(* A crash loses the notifications, a restart lists all objects anew.      *)
LEMMA ProcessViews == ViewsOK /\ (Crash \/ Restart) => ViewsOK'
<1> SUFFICES ASSUME ViewsOK, Crash \/ Restart PROVE ViewsOK'
  OBVIOUS
<1>1. \A S : \A v \in S \cup {Absent} :
        /\ Unwatched(v) \in ViewOf(S \cup {Absent}) /\ WellFormed(Unwatched(v))
        /\ Listed(v) \in ViewOf(S \cup {Absent}) /\ WellFormed(Listed(v))
  BY UnwatchedView, ListedView
<1>2. CASE Crash
  BY <1>1, <1>2, ReadTypes, VersionsAreSpecs DEF Crash, ViewsOK
<1>3. CASE Restart
  BY <1>1, <1>3, ReadTypes, VersionsAreSpecs DEF Restart, ViewsOK
<1> QED BY <1>2, <1>3
-----------------------------------------------------------------------------
(* Steps of the queue and of the workers *)

(* A worker goes from one job to another.                                  *)
LEMMA JobStep ==
    ASSUME ControlOK, UNCHANGED <<phase, initial>>, queue' \in QueueOver(Keys),
           NEW w \in Workers, NEW j \in Jobs, j.pc = "list" => j.target # Absent,
           job' = [job EXCEPT ![w] = j]
    PROVE  ControlOK'
BY DEF ControlOK

LEMMA IdleIsJob == Idle \in Jobs /\ Idle.pc = "idle"
BY KeyTypes DEF Idle, Jobs

(* Every step of a worker, failures included, keeps jobs jobs.             *)
LEMMA WorkerControl ==
    ASSUME ViewsOK, ControlOK, NEW w \in Workers,
           Work(w) \/ Fail(w) \/ \E k \in Ready(queue) : Take(w, k)
    PROVE  ControlOK'
<1>1. /\ job \in [Workers -> Jobs] /\ job[w] \in Jobs /\ queue \in QueueOver(Keys)
      /\ job[w].pc = "list" => job[w].target # Absent
  BY DEF ControlOK
<1>2. job[w].key \in Keys
  BY <1>1 DEF Jobs
<1>3. ASSUME NEW k \in Ready(queue), Take(w, k) PROVE ControlOK'
  <2>1. k \in Keys
    BY <1>1 DEF Ready, QueueOver
  <2>2. [Idle EXCEPT !.pc = "read", !.key = k] \in Jobs
    BY <2>1 DEF Idle, Jobs
  <2>3. queue' \in QueueOver(Keys)
    BY <1>1, <1>3, <2>1, QueueTypes DEF Take
  <2> DEFINE j == [Idle EXCEPT !.pc = "read", !.key = k]
  <2>4. j \in Jobs /\ j.pc = "read" /\ job' = [job EXCEPT ![w] = j]
    BY <1>3, <2>2 DEF Take, Idle
  <2> HIDE DEF j
  <2> QED BY <1>3, <2>3, <2>4, JobStep DEF Take
<1>4. CASE ReadTarget(w)
  <2> DEFINE k == job[w].key
             tenant == Live(tenants[k.tenant])
  <2>1. k.tenant # NoTenant => tenant \in TenantSpec \cup {Absent}
    <3>1. k.tenant # NoTenant => k.tenant \in Tenants
      BY <1>2 DEF Keys
    <3> QED BY <3>1, ReadTypes, VersionsAreSpecs
  <2>2. PlatformTarget # Absent
    BY NamesAssumption DEF PlatformTarget
  <2>3. k.tenant # NoTenant /\ Refs(tenant, k) => tenant \in TenantSpec /\ tenant # Absent
    BY <2>1, VersionsAreSpecs DEF Refs
  <2>4. \E pc \in {"list", "done", "provision"},
           target \in TenantSpec \cup {Absent, PlatformTarget} :
             /\ job' = [job EXCEPT ![w] = [job[w] EXCEPT !.pc = pc, !.target = target]]
             /\ pc = "list" => target # Absent
    <3>1. CASE k.tenant = NoTenant
      BY <1>1, <1>4, <2>2, <3>1 DEF ReadTarget
    <3>2. CASE k.tenant # NoTenant
      BY <1>1, <1>4, <2>3, <3>2 DEF ReadTarget
    <3> QED BY <3>1, <3>2
  <2> PICK pc \in {"list", "done", "provision"},
           target \in TenantSpec \cup {Absent, PlatformTarget} :
             /\ job' = [job EXCEPT ![w] = [job[w] EXCEPT !.pc = pc, !.target = target]]
             /\ pc = "list" => target # Absent
    BY <2>4
  <2> DEFINE j == [job[w] EXCEPT !.pc = pc, !.target = target]
  <2>5. j \in Jobs /\ j.pc = pc /\ j.target = target
    BY <1>1 DEF Jobs
  <2>6. job' = [job EXCEPT ![w] = j]
    OBVIOUS
  <2> HIDE DEF j
  <2> QED BY <1>1, <1>4, <2>5, <2>6, JobStep DEF ReadTarget
<1>5. CASE List(w)
  <2>1. PlatformItems(job[w].key, CachedResources) \subseteq Manifests
    BY <1>2, ListTypes, PlatformItemTypes
  <2>2. ASSUME job[w].pc = "list", job[w].target # PlatformTarget,
               Renderable(job[w].key, job[w].target, CachedCategories, CachedResources)
        PROVE  TenantItems(job[w].key, job[w].target, CachedCategories, CachedResources)
                  \subseteq Manifests
    <3>1. job[w].target \in TenantSpec
      BY <1>1, <2>2 DEF Jobs
    <3> QED BY <1>2, <2>2, <3>1, ListTypes, TenantItemTypes DEF Renderable
  <2>3. \/ \E items \in SUBSET Manifests :
              job' = [job EXCEPT ![w] = [job[w] EXCEPT !.pc = "provision", !.items = items]]
        \/ job' = [job EXCEPT ![w] = [job[w] EXCEPT !.pc = "done"]]
    BY <1>1, <1>5, <2>1, <2>2 DEF List
  <2>4. \E j \in Jobs : j.pc # "list" /\ job' = [job EXCEPT ![w] = j]
    <3>1. ASSUME NEW items \in SUBSET Manifests
          PROVE  [job[w] EXCEPT !.pc = "provision", !.items = items] \in Jobs
      BY <1>1 DEF Jobs
    <3>2. [job[w] EXCEPT !.pc = "done"] \in Jobs
      BY <1>1 DEF Jobs
    <3>3. \A items : [job[w] EXCEPT !.pc = "provision", !.items = items].pc # "list"
      BY <1>1 DEF Jobs
    <3>4. [job[w] EXCEPT !.pc = "done"].pc # "list"
      BY <1>1 DEF Jobs
    <3> QED BY <2>3, <3>1, <3>2, <3>3, <3>4
  <2> QED BY <1>1, <1>5, <2>4, JobStep DEF List
<1>6. CASE Apply(w)
  <2>1. [job[w] EXCEPT !.changed = TRUE] \in Jobs /\ job[w].pc = "provision"
    BY <1>1, <1>6 DEF Jobs, Apply
  <2>2. [job[w] EXCEPT !.changed = TRUE].pc # "list"
    BY <1>1, <2>1 DEF Jobs
  <2>3. \E j \in Jobs : j.pc # "list" /\ job' = [job EXCEPT ![w] = j]
    BY <1>1, <1>6, <2>1, <2>2 DEF Apply
  <2> QED BY <1>1, <1>6, <2>3, JobStep DEF Apply
<1>7. ASSUME NEW pc \in {"migrate", "publish", "done", "retry"}, NEW failed \in BOOLEAN,
             job' = [job EXCEPT ![w] = [job[w] EXCEPT !.pc = pc, !.failed = failed]],
             UNCHANGED <<phase, initial, queue>>
      PROVE  ControlOK'
  <2> DEFINE j == [job[w] EXCEPT !.pc = pc, !.failed = failed]
  <2>1. j \in Jobs /\ j.pc # "list"
    BY <1>1 DEF Jobs
  <2>2. job' = [job EXCEPT ![w] = j]
    BY <1>7
  <2> HIDE DEF j
  <2> QED BY <1>1, <1>7, <2>1, <2>2, JobStep
<1>8. \A pc : [job[w] EXCEPT !.pc = pc] = [job[w] EXCEPT !.pc = pc, !.failed = job[w].failed]
  BY <1>1 DEF Jobs
<1>9. job[w].failed \in BOOLEAN
  BY <1>1 DEF Jobs
<1>10. CASE ProvisionSucceeds(w)
  BY <1>1, <1>7, <1>8, <1>9, <1>10 DEF ProvisionSucceeds
<1>11. CASE Migrate(w)
  BY <1>1, <1>7, <1>8, <1>9, <1>11 DEF Migrate
<1>12. CASE Publish(w)
  BY <1>1, <1>7, <1>8, <1>9, <1>12 DEF Publish
<1>13. CASE Finish(w)
  <2>1. queue' \in QueueOver(Keys)
    <3>1. AddRateLimited(queue, job[w].key) \in QueueOver(Keys)
      BY <1>1, <1>2, QueueTypes
    <3> QED BY <1>1, <1>2, <1>13, <3>1, QueueTypes DEF Finish
  <2> QED BY <1>13, <2>1, IdleIsJob, JobStep DEF Finish
<1>14. CASE Fail(w)
  <2>1. CASE ReadFails(w)
    BY <1>1, <1>7, <1>8, <1>9, <2>1 DEF ReadFails
  <2>2. CASE ProvisionFails(w)
    BY <1>1, <1>7, <1>8, <1>9, <2>2 DEF ProvisionFails
  <2>3. CASE MigrationFails(w)
    BY <1>1, <1>7, <1>8, <1>9, <2>3 DEF MigrationFails
  <2> QED BY <1>14, <2>1, <2>2, <2>3 DEF Fail
<1> QED BY <1>3, <1>4, <1>5, <1>6, <1>10, <1>11, <1>12, <1>13, <1>14 DEF Work

(* The other steps: edits change no control, handlers add keys, a crash     *)
(* clears everything.                                                      *)
LEMMA OtherControl ==
    ASSUME ViewsOK, ControlOK,
           \/ Edit \/ Observe \/ Handle \/ Crash \/ Restart \/ StartWorkers
           \/ \E k \in queue.delayed : Retry(k)
    PROVE  ControlOK'
<1>1. queue \in QueueOver(Keys)
  BY DEF ControlOK
<1>2. CASE Edit
  BY <1>2 DEF Edit, EditTenant, EditCategory, EditResource, EditPlatform, ControlOK
<1>3. CASE Observe
  BY <1>3 DEF Observe, ControlOK
<1>4. ASSUME queue' \in QueueOver(Keys), initial' \subseteq Objects, UNCHANGED <<phase, job>>
      PROVE  ControlOK'
  BY <1>4 DEF ControlOK
<1>5. ASSUME NEW t \in Tenants, HandleTenant(t) PROVE ControlOK'
  <2>1. OnTenant(t, OldVersion(tenants[t]), NewVersion(tenants[t])) \subseteq Keys
    BY <1>5, NotifiedView, OnTenantTypes, VersionsAreSpecs DEF ViewsOK, HandleTenant
  <2> QED BY <1>1, <1>4, <1>5, <2>1, QueueTypes DEF HandleTenant, ControlOK
<1>6. ASSUME NEW c \in Categories, HandleCategory(c) PROVE ControlOK'
  <2>1. OnCategory(c, OldVersion(categories[c]), NewVersion(categories[c])) \subseteq Keys
    BY OnCategoryTypes
  <2> QED BY <1>1, <1>4, <1>6, <2>1, QueueTypes DEF HandleCategory, ControlOK
<1>7. ASSUME NEW r \in Resources, HandleResource(r) PROVE ControlOK'
  <2>1. OnResource(OldVersion(resources[r]), NewVersion(resources[r])) \subseteq Keys
    BY <1>7, NotifiedView, OnResourceTypes, VersionsAreSpecs DEF ViewsOK, HandleResource
  <2> QED BY <1>1, <1>4, <1>7, <2>1, QueueTypes DEF HandleResource, ControlOK
<1>8. ASSUME NEW k \in queue.delayed, Retry(k) PROVE ControlOK'
  <2>1. k \in Keys
    BY <1>1 DEF QueueOver
  <2> QED BY <1>1, <1>4, <1>8, <2>1, QueueTypes DEF Retry, ControlOK
<1>9. CASE StartWorkers
  <2>1. queue' \in QueueOver(Keys)
    BY <1>1, <1>9, QueueTypes DEF StartWorkers
  <2> QED BY <1>9, <2>1 DEF StartWorkers, ControlOK
<1>10. CASE Crash
  BY <1>1, <1>10, QueueTypes, IdleIsJob DEF Crash, ControlOK
<1>11. CASE Restart
  BY <1>11 DEF Restart, ControlOK, PresentIn, Objects
<1> QED BY <1>2, <1>3, <1>5, <1>6, <1>7, <1>8, <1>9, <1>10, <1>11 DEF Handle
-----------------------------------------------------------------------------
(* What the controller acts upon *)

(* A bounded action uses its bound up by one.                              *)
LEMMA SpendTypes ==
    ASSUME spent \in [edits : 0 .. MaxEdits, failures : 0 .. MaxFailures,
                      crashes : 0 .. MaxCrashes, lost : 0 .. MaxLost]
    PROVE  /\ spent.edits < MaxEdits /\ Spend("edits") =>
                spent' \in [edits : 0 .. MaxEdits, failures : 0 .. MaxFailures,
                            crashes : 0 .. MaxCrashes, lost : 0 .. MaxLost]
           /\ spent.failures < MaxFailures /\ Spend("failures") =>
                spent' \in [edits : 0 .. MaxEdits, failures : 0 .. MaxFailures,
                            crashes : 0 .. MaxCrashes, lost : 0 .. MaxLost]
           /\ spent.crashes < MaxCrashes /\ Spend("crashes") =>
                spent' \in [edits : 0 .. MaxEdits, failures : 0 .. MaxFailures,
                            crashes : 0 .. MaxCrashes, lost : 0 .. MaxLost]
           /\ spent.lost < MaxLost /\ Spend("lost") =>
                spent' \in [edits : 0 .. MaxEdits, failures : 0 .. MaxFailures,
                            crashes : 0 .. MaxCrashes, lost : 0 .. MaxLost]
BY BoundsAssumption DEF Spend

(* Users, informers, handlers and the process change no stack.             *)
LEMMA OtherOutside ==
    ASSUME OutsideOK,
           \/ Edit \/ Observe \/ Handle \/ Crash \/ Restart \/ StartWorkers
           \/ \E k \in queue.delayed : Retry(k)
    PROVE  OutsideOK'
<1>1. CASE Edit
  <2>1. ASSUME NEW p \in Platforms, EditPlatform(p) PROVE OutsideOK'
    BY <2>1, SpendTypes DEF OutsideOK, EditPlatform, stackVars
  <2>2. ASSUME UNCHANGED <<platforms, stackVars>>, spent.edits < MaxEdits, Spend("edits")
        PROVE  OutsideOK'
    BY <2>2, SpendTypes DEF OutsideOK, stackVars
  <2> QED BY <1>1, <2>1, <2>2 DEF Edit, EditTenant, EditCategory, EditResource
<1>2. ASSUME UNCHANGED <<platforms, stackVars, spent>> PROVE OutsideOK'
  BY <1>2 DEF OutsideOK, stackVars
<1>3. CASE Crash
  BY <1>3, SpendTypes DEF Crash, OutsideOK, stackVars
<1>4. CASE Observe \/ Handle \/ Restart \/ StartWorkers \/ \E k \in queue.delayed : Retry(k)
  BY <1>2, <1>4 DEF Observe, Handle, HandleTenant, HandleCategory, HandleResource, Restart,
                    StartWorkers, Retry, apiVars
<1> QED BY <1>1, <1>3, <1>4

(* Only pulumi changes a stack, towards the items of the job.              *)
LEMMA WorkerOutside ==
    ASSUME ControlOK, OutsideOK, NEW w \in Workers,
           Work(w) \/ Fail(w) \/ \E k \in Ready(queue) : Take(w, k)
    PROVE  OutsideOK'
<1>1. job[w].key \in Keys /\ job[w].items \subseteq Manifests
  BY DEF ControlOK, Jobs
<1>2. StackOf(job[w].key) \in Stacks
  BY <1>1, KeyTypes
<1>3. CASE Apply(w)
  <2> DEFINE s == StackOf(job[w].key)
  <2>1. \E T \in SUBSET Manifests : stacks' = [stacks EXCEPT ![s] = T]
    <3>1. stacks[s] \subseteq Manifests
      BY <1>2 DEF OutsideOK
    <3>2. CASE \E m \in job[w].items \ stacks[s] :
                 stacks' = [stacks EXCEPT ![s] = {n \in @ : n.resource # m.resource} \cup {m}]
      <4> PICK m \in job[w].items :
                 stacks' = [stacks EXCEPT ![s] = {n \in @ : n.resource # m.resource} \cup {m}]
        BY <3>2
      <4>1. {n \in stacks[s] : n.resource # m.resource} \cup {m} \in SUBSET Manifests
        BY <1>1, <3>1
      <4> QED BY <4>1
    <3>3. CASE \E m \in stacks[s] : stacks' = [stacks EXCEPT ![s] = @ \ {m}]
      BY <3>1, <3>3
    <3> QED BY <1>3, <3>2, <3>3 DEF Apply
  <2> HIDE DEF s
  <2> QED BY <1>2, <1>3, <2>1 DEF Apply, OutsideOK, apiVars, s
<1>4. CASE Migrate(w)
  BY <1>4 DEF Migrate, OutsideOK, apiVars
<1>5. CASE Publish(w)
  <2>1. PICK e \in {"success", "failure"} :
            /\ recorded' = [recorded EXCEPT ![job[w].key] = e]
            /\ published' \in {published, [published EXCEPT ![job[w].key] = e]}
    BY <1>5 DEF Publish
  <2>2. spent' = spent \/ (spent.lost < MaxLost /\ Spend("lost"))
    BY <1>5 DEF Publish
  <2>3. spent' \in [edits : 0 .. MaxEdits, failures : 0 .. MaxFailures,
                    crashes : 0 .. MaxCrashes, lost : 0 .. MaxLost]
    BY <2>2, SpendTypes DEF OutsideOK
  <2>4. /\ recorded' \in [Keys -> {"none", "success", "failure"}]
        /\ published' \in [Keys -> {"none", "success", "failure"}]
    BY <2>1 DEF OutsideOK
  <2> QED BY <1>5, <2>3, <2>4 DEF Publish, OutsideOK, apiVars
<1>6. CASE Fail(w)
  BY <1>6, SpendTypes DEF Fail, ReadFails, ProvisionFails, MigrationFails, OutsideOK,
                          apiVars, stackVars
<1>7. ASSUME UNCHANGED <<apiVars, stackVars, spent>> PROVE OutsideOK'
  BY <1>7 DEF OutsideOK, apiVars, stackVars
<1>8. CASE \/ ReadTarget(w) \/ List(w) \/ ProvisionSucceeds(w) \/ Finish(w)
           \/ \E k \in Ready(queue) : Take(w, k)
  BY <1>7, <1>8 DEF ReadTarget, List, ProvisionSucceeds, Finish, Take
<1> QED BY <1>3, <1>4, <1>5, <1>6, <1>8 DEF Work
-----------------------------------------------------------------------------
(* What an earlier incarnation left in a stack are manifests.              *)
LEMMA WantedTypes ==
    ASSUME NEW k \in Keys, NEW tenant \in TenantSpec \cup {Absent},
           NEW cats \in [Categories -> CategorySpec \cup {Absent}],
           NEW ress \in [Resources -> ResourceSpec \cup {Absent}]
    PROVE  Wanted(k, tenant, cats, ress) \subseteq Manifests
<1>1. CASE Refs(tenant, k) /\ Renderable(k, tenant, cats, ress)
  BY <1>1, TenantItemTypes DEF Refs, Renderable, Wanted
<1> QED BY <1>1 DEF Wanted

LEMMA InitTypes == Init => TypeOK
<1> SUFFICES ASSUME NEW api \in InitialApi,
               /\ platforms = api.platforms
               /\ tenants = [t \in Tenants |-> Listed(api.tenants[t])]
               /\ categories = [c \in Categories |-> Listed(api.categories[c])]
               /\ resources = [r \in Resources |-> Listed(api.resources[r])]
               /\ phase = "starting"
               /\ initial = PresentIn(api.tenants, api.categories, api.resources)
               /\ queue = EmptyQueue
               /\ job = [w \in Workers |-> Idle]
               /\ stacks = [s \in Stacks |->
                    IF WarmStart
                    THEN UNION {Wanted(k, api.tenants[k.tenant], api.categories, api.resources) :
                                  k \in {l \in Keys : l.tenant # NoTenant /\ StackOf(l) = s}}
                    ELSE {}]
               /\ unmigrated = {}
               /\ recorded = [k \in Keys |-> "none"]
               /\ published = [k \in Keys |-> "none"]
               /\ spent = [edits |-> 0, failures |-> 0, crashes |-> 0, lost |-> 0]
             PROVE  TypeOK
  BY DEF Init
<1>1. /\ api.platforms \subseteq Platforms
      /\ api.tenants \in [Tenants -> TenantSpec \cup {Absent}]
      /\ api.categories \in [Categories -> CategorySpec \cup {Absent}]
      /\ api.resources \in [Resources -> ResourceVals \cup {Absent}]
      /\ \A t \in Tenants : api.tenants[t] \in TenantVals[t] \cup {Absent}
      /\ \A c \in Categories : api.categories[c] \in CategoryVals[c] \cup {Absent}
  BY InitialAssumption DEF ApiStates
<1>2. ViewsOK
  <2>1. \A S : \A v \in S \cup {Absent} :
          Listed(v) \in ViewOf(S \cup {Absent}) /\ WellFormed(Listed(v))
    BY ListedView
  <2> QED BY <1>1, <2>1, VersionsAreSpecs DEF ViewsOK
<1>3. ControlOK
  <2>1. queue \in QueueOver(Keys)
    BY DEF QueueOver, EmptyQueue
  <2> QED BY <2>1, IdleIsJob DEF ControlOK, PresentIn, Objects
<1>4. stacks \in [Stacks -> SUBSET Manifests]
  <2>1. api.resources \in [Resources -> ResourceSpec \cup {Absent}]
    BY <1>1, VersionsAreSpecs
  <2>2. \A k \in Keys : k.tenant # NoTenant =>
          Wanted(k, api.tenants[k.tenant], api.categories, api.resources) \subseteq Manifests
    <3> SUFFICES ASSUME NEW k \in Keys, k.tenant # NoTenant
                 PROVE  Wanted(k, api.tenants[k.tenant], api.categories, api.resources)
                            \subseteq Manifests
      OBVIOUS
    <3>1. k.tenant \in Tenants
      BY DEF Keys
    <3> QED BY <1>1, <2>1, <3>1, WantedTypes
  <2>3. ASSUME NEW s \in Stacks
        PROVE  UNION {Wanted(k, api.tenants[k.tenant], api.categories, api.resources) :
                        k \in {l \in Keys : l.tenant # NoTenant /\ StackOf(l) = s}}
                    \subseteq Manifests
    BY <2>2
  <2> QED BY <2>3
<1>5. OutsideOK
  BY <1>1, <1>4, BoundsAssumption DEF OutsideOK
<1> QED BY <1>2, <1>3, <1>5 DEF TypeOK

LEMMA NextTypes == TypeOK /\ [Next]_vars => TypeOK'
<1> SUFFICES ASSUME ViewsOK, ControlOK, OutsideOK, [Next]_vars PROVE TypeOK'
  BY DEF TypeOK
<1>1. CASE \/ Edit \/ Observe \/ Handle \/ Crash \/ Restart \/ StartWorkers
           \/ \E k \in queue.delayed : Retry(k)
  <2>1. CASE Edit \/ Observe \/ Handle \/ Crash \/ Restart
    BY <1>1, <2>1, EditViews, ObserveViews, HandleViews, ProcessViews,
       OtherControl, OtherOutside DEF TypeOK
  <2>2. CASE StartWorkers \/ \E k \in queue.delayed : Retry(k)
    <3>1. ViewsOK'
      BY <2>2 DEF StartWorkers, Retry, ViewsOK, apiVars
    <3> QED BY <1>1, <3>1, OtherControl, OtherOutside DEF TypeOK
  <2> QED BY <1>1, <2>1, <2>2
<1>2. ASSUME NEW w \in Workers, Work(w) \/ Fail(w) \/ \E k \in Ready(queue) : Take(w, k)
      PROVE  TypeOK'
  <2>1. UNCHANGED apiVars
    BY <1>2 DEF Work, Fail, ReadTarget, List, Apply, ProvisionSucceeds, Migrate, Publish,
                Finish, ReadFails, ProvisionFails, MigrationFails, Take
  <2>2. ViewsOK'
    BY <2>1 DEF ViewsOK, apiVars
  <2> QED BY <1>2, <2>2, WorkerControl, WorkerOutside DEF TypeOK
<1>3. CASE UNCHANGED vars
  BY <1>3 DEF vars, apiVars, stackVars, TypeOK, ViewsOK, ControlOK, OutsideOK
<1> QED BY <1>1, <1>2, <1>3 DEF Next

(* Every variable keeps its type, whatever users, informers, handlers,      *)
(* workers, failures and crashes do.                                       *)
THEOREM TypesAreCorrect == Spec => []TypeOK
BY InitTypes, NextTypes, PTL DEF Spec
=============================================================================
