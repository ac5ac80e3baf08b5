------------------------- MODULE ProvisioningProofs -------------------------
(***************************************************************************)
(* The safety properties of the tenant provisioner, for all constants.     *)
(***************************************************************************)
EXTENDS ProvisioningTypes

-----------------------------------------------------------------------------
(* Exclusion of the workers *)

(* A step after which the workers hold the same keys.                      *)
LEMMA HoldTheSame ==
    ASSUME WorkersHoldKeys, queue'.processing = queue.processing,
           phase' = phase \/ phase' = "running" \/ \A w \in Workers : ~Busy(w)',
           \A w \in Workers : Busy(w)' = Busy(w) /\ (Busy(w) => job'[w].key = job[w].key)
    PROVE  WorkersHoldKeys'
BY DEF WorkersHoldKeys

(* A worker in the middle of a job keeps its key.                          *)
LEMMA WorkerKeeps ==
    ASSUME ControlOK, NEW w \in Workers,
           \/ ReadTarget(w) \/ List(w) \/ Apply(w) \/ ProvisionSucceeds(w) \/ Migrate(w)
           \/ Publish(w) \/ Fail(w)
    PROVE  /\ Busy(w) /\ Busy(w)' /\ job'[w].key = job[w].key
           /\ \A v \in Workers \ {w} : job'[v] = job[v]
           /\ UNCHANGED <<phase, initial, queue, apiVars>>
<1>1. job \in [Workers -> Jobs] /\ job[w] \in Jobs
  BY DEF ControlOK
<1>2. CASE ReadTarget(w)
  BY <1>1, <1>2 DEF ReadTarget, Busy, Jobs
<1>3. CASE List(w)
  BY <1>1, <1>3 DEF List, Busy, Jobs
<1>4. CASE Apply(w)
  BY <1>1, <1>4 DEF Apply, Busy, Jobs
<1>5. CASE ProvisionSucceeds(w)
  BY <1>1, <1>5 DEF ProvisionSucceeds, Busy, Jobs
<1>6. CASE Migrate(w)
  BY <1>1, <1>6 DEF Migrate, Busy, Jobs
<1>7. CASE Publish(w)
  BY <1>1, <1>7 DEF Publish, Busy, Jobs
<1>8. CASE ReadFails(w)
  BY <1>1, <1>8 DEF ReadFails, Busy, Jobs
<1>9. CASE ProvisionFails(w)
  BY <1>1, <1>9 DEF ProvisionFails, Busy, Jobs
<1>10. CASE MigrationFails(w)
  BY <1>1, <1>10 DEF MigrationFails, Busy, Jobs
<1> QED BY <1>2, <1>3, <1>4, <1>5, <1>6, <1>7, <1>8, <1>9, <1>10 DEF Fail

(* Handlers, edits and retries leave the processing set and the jobs alone.*)
LEMMA OthersHold ==
    ASSUME ControlOK,
           \/ Edit \/ Observe \/ Handle \/ StartWorkers
           \/ \E k \in queue.delayed : Retry(k)
    PROVE  /\ job' = job /\ queue'.processing = queue.processing
           /\ phase' = phase \/ phase' = "running"
<1>1. queue \in QueueOver(Keys)
  BY DEF ControlOK
<1>2. CASE Edit
  BY <1>2 DEF Edit, EditTenant, EditCategory, EditResource, EditPlatform
<1>3. CASE Observe
  BY <1>3 DEF Observe
<1>4. \A keys : AddAll(queue, keys).processing = queue.processing
  BY <1>1 DEF QueueOver, AddAll
<1>5. CASE Handle
  BY <1>4, <1>5 DEF Handle, HandleTenant, HandleCategory, HandleResource
<1>6. CASE StartWorkers
  BY <1>1, <1>6 DEF StartWorkers, QueueOver, Drain
<1>7. CASE \E k \in queue.delayed : Retry(k)
  BY <1>1, <1>7 DEF Retry, QueueOver, BackoffOver
<1> QED BY <1>2, <1>3, <1>5, <1>6, <1>7

(* Only Take makes a worker busy, with a key no other worker holds, and     *)
(* Finish gives the key back.                                              *)
LEMMA HoldStep == ControlOK /\ WorkersHoldKeys /\ [Next]_vars => WorkersHoldKeys'
<1> SUFFICES ASSUME ControlOK, WorkersHoldKeys, [Next]_vars PROVE WorkersHoldKeys'
  OBVIOUS
<1>1. /\ queue \in QueueOver(Keys) /\ job \in [Workers -> Jobs]
      /\ \A w \in Workers : job[w] \in Jobs
  BY DEF ControlOK
<1>2. CASE \/ Edit \/ Observe \/ Handle \/ StartWorkers
           \/ \E k \in queue.delayed : Retry(k)
  BY <1>2, OthersHold, HoldTheSame DEF Busy
<1>3. CASE Crash
  BY <1>3 DEF Crash, WorkersHoldKeys, EmptyQueue, Idle, Busy
<1>4. CASE Restart
  BY <1>4 DEF Restart, WorkersHoldKeys, Busy
<1>5. ASSUME NEW w \in Workers,
             \/ ReadTarget(w) \/ List(w) \/ Apply(w) \/ ProvisionSucceeds(w) \/ Migrate(w)
             \/ Publish(w) \/ Fail(w)
      PROVE  WorkersHoldKeys'
  <2>1. \A v \in Workers : Busy(v)' = Busy(v) /\ job'[v].key = job[v].key
    BY <1>5, WorkerKeeps DEF Busy
  <2> QED BY <1>5, <2>1, WorkerKeeps, HoldTheSame
<1>6. ASSUME NEW w \in Workers, Finish(w) PROVE WorkersHoldKeys'
  <2>1. /\ Busy(w) /\ ~Busy(w)'
        /\ \A v \in Workers \ {w} : job'[v] = job[v]
    BY <1>1, <1>6 DEF Finish, Busy, Idle
  <2>2. queue'.processing = queue.processing \ {job[w].key} /\ phase' = phase
    BY <1>1, <1>6 DEF Finish, AddRateLimited, Done, QueueOver
  <2> QED BY <2>1, <2>2 DEF WorkersHoldKeys, Busy
<1>7. ASSUME NEW w \in Workers, NEW k \in Ready(queue), Take(w, k) PROVE WorkersHoldKeys'
  <2>1. /\ ~Busy(w) /\ Busy(w)' /\ job'[w].key = k /\ phase = "running"
        /\ \A v \in Workers \ {w} : job'[v] = job[v]
    BY <1>1, <1>7 DEF Take, Busy, Idle
  <2>2. queue'.processing = queue.processing \cup {k} /\ phase' = phase
        /\ k \notin queue.processing
    BY <1>1, <1>7 DEF Take, Get, Ready, QueueOver
  <2> QED BY <2>1, <2>2 DEF WorkersHoldKeys, Busy
<1>8. CASE UNCHANGED vars
  BY <1>8 DEF vars, WorkersHoldKeys, Busy
<1> QED BY <1>2, <1>3, <1>4, <1>5, <1>6, <1>7, <1>8 DEF Next, Work

LEMMA HoldInit == Init => WorkersHoldKeys
BY DEF Init, WorkersHoldKeys, EmptyQueue, Idle, Busy

(* The queue hands a key to one worker at a time.                          *)
THEOREM KeysAreHeldOnce == Spec => []WorkersHoldKeys
<1>1. TypeOK => ControlOK
  BY DEF TypeOK
<1> QED BY <1>1, TypesAreCorrect, HoldInit, HoldStep, PTL DEF Spec

(* Two workers never drive pulumi on one stack, if keys have stacks of their *)
(* own.                                                                      *)
THEOREM StacksAreDrivenByOne ==
    ASSUME StacksAreDistinct
    PROVE  Spec => []OneWorkerPerStack
<1>1. TypeOK /\ WorkersHoldKeys => OneWorkerPerStack
  BY DEF StacksAreDistinct, TypeOK, ControlOK, Jobs, WorkersHoldKeys, OneWorkerPerStack
<1> QED BY <1>1, TypesAreCorrect, KeysAreHeldOnce, PTL
-----------------------------------------------------------------------------
(* What a key depends on *)

(* The items of a tenant, and whether they can be rendered, depend on its   *)
(* category and on the resources of its platform and the domain only.       *)
LEMMA ItemsDepend ==
    ASSUME NEW k, NEW tenant \in TenantSpec, tenant.platform = k.platform,
           NEW cats, NEW newCats, NEW ress, NEW newRess,
           \A c \in Categories : tenant.category = c => newCats[c] = cats[c],
           \A r \in Resources :
                \/ newRess[r] = ress[r]
                \/ /\ ~InTarget(ress[r], k.platform, k.domain, "Tenant")
                   /\ ~InTarget(newRess[r], k.platform, k.domain, "Tenant")
    PROVE  /\ TenantItems(k, tenant, newCats, newRess) = TenantItems(k, tenant, cats, ress)
           /\ Renderable(k, tenant, newCats, newRess) <=> Renderable(k, tenant, cats, ress)
<1>1. tenant.category \in Categories \/ tenant.category = NoCategory
  BY DEF TenantSpec, CategoryRefs
<1>2. ASSUME NEW r \in Resources
      PROVE  ForTenant(r, newRess[r], tenant, newCats) = ForTenant(r, newRess[r], tenant, cats)
  BY <1>1 DEF ForTenant
<1>3. TenantItems(k, tenant, newCats, newRess) = TenantItems(k, tenant, cats, ress)
  <2> DEFINE Selected(rs) ==
        {s \in Resources : /\ InTarget(rs[s], tenant.platform, k.domain, "Tenant")
                          /\ ~Excluded(rs[s].filter, TenantName[k.tenant], tenant.category)}
  <2>1. Selected(newRess) = Selected(ress) /\ \A r \in Selected(ress) : newRess[r] = ress[r]
    OBVIOUS
  <2>2. /\ TenantItems(k, tenant, newCats, newRess)
              = {ForTenant(r, newRess[r], tenant, newCats) : r \in Selected(newRess)}
        /\ TenantItems(k, tenant, cats, ress)
              = {ForTenant(r, ress[r], tenant, cats) : r \in Selected(ress)}
    BY DEF TenantItems
  <2>3. Selected(ress) \subseteq Resources
    OBVIOUS
  <2> HIDE DEF Selected
  <2> QED BY <1>2, <2>1, <2>2, <2>3
<1>4. CategoryResolved(tenant, newCats) <=> CategoryResolved(tenant, cats)
  BY <1>1 DEF CategoryResolved
<1> QED BY <1>3, <1>4 DEF Renderable

\* A step that leaves alone what a sync of k would find.
Undisturbed(k) ==
    /\ Due(k) /\ ~Pending(k)
    /\ LiveTenant(k)' = LiveTenant(k) /\ WantedNow(k)' = WantedNow(k)
    /\ k \in queue.delayed => k \in queue'.delayed

(* If k is not pending after a step that takes no key from the queue, and    *)
(* no event on an object k depends on is consumed, nothing k depends on has  *)
(* changed.                                                                  *)
LEMMA QuietStep ==
    ASSUME ViewsOK, ViewsOK', NEW k \in TenantKeySet, Due(k)', ~Pending(k)',
           queue.dirty \subseteq queue'.dirty,
           k \in queue.delayed => k \in queue'.delayed \cup queue'.dirty,
           LiveTenant(k)' = LiveTenant(k), TenantPending(k) => TenantPending(k)',
           \A c \in Categories : LiveTenant(k).category = c =>
                /\ Live(categories'[c]) = Live(categories[c])
                /\ UpToDate(categories'[c]) => UpToDate(categories[c]),
           \A r \in Resources :
                \/ Live(resources'[r]) = Live(resources[r])
                \/ /\ ~InTarget(Live(resources[r]), k.platform, k.domain, "Tenant")
                   /\ ~InTarget(Live(resources'[r]), k.platform, k.domain, "Tenant"),
           ResourcePending(k) => ResourcePending(k)'
    PROVE  Undisturbed(k)
<1> DEFINE tenant == LiveTenant(k)
<1>1. /\ tenant \in TenantSpec /\ tenant.platform = k.platform /\ Refs(tenant, k)
      /\ Renderable(k, tenant, LiveCategories', LiveResources')
  <2>1. tenant \in TenantSpec \cup {Absent}
    BY ReadTypes, VersionsAreSpecs, TenantKeysAreKeys DEF LiveTenant
  <2>2. Refs(tenant, k) /\ Renderable(k, tenant, LiveCategories', LiveResources')
    BY DEF Due
  <2> QED BY <2>1, <2>2 DEF Refs
<1>2. /\ \A c \in Categories : tenant.category = c => LiveCategories'[c] = LiveCategories[c]
      /\ \A r \in Resources :
            \/ LiveResources'[r] = LiveResources[r]
            \/ /\ ~InTarget(LiveResources[r], k.platform, k.domain, "Tenant")
               /\ ~InTarget(LiveResources'[r], k.platform, k.domain, "Tenant")
  BY DEF LiveCategories, LiveResources
<1> HIDE DEF tenant
<1>3. /\ TenantItems(k, tenant, LiveCategories', LiveResources')
            = TenantItems(k, tenant, LiveCategories, LiveResources)
      /\ Renderable(k, tenant, LiveCategories, LiveResources)
  BY <1>1, <1>2, ItemsDepend
<1>4. Due(k) /\ WantedNow(k)' = WantedNow(k)
  BY <1>1, <1>3 DEF Due, WantedNow, tenant
<1>5. ~Pending(k)
  BY DEF Pending, CategoryPending
<1> QED BY <1>4, <1>5 DEF Undisturbed, Pending

(* Pending events of the views that did not change.                        *)
LEMMA SameEvents ==
    ASSUME NEW k \in TenantKeySet
    PROVE  /\ LiveTenant(k)' = LiveTenant(k) /\ categories' = categories
              => (CategoryPending(k) => CategoryPending(k)')
           /\ resources' = resources => (ResourcePending(k) => ResourcePending(k)')
           /\ tenants' = tenants => /\ LiveTenant(k)' = LiveTenant(k)
                                    /\ TenantPending(k) => TenantPending(k)'
BY DEF CategoryPending, ResourcePending, TenantPending, LiveTenant

(* A step on another tenant.                                               *)
LEMMA OtherTenantStep ==
    ASSUME ViewsOK, ViewsOK', NEW k \in TenantKeySet, Due(k)', ~Pending(k)',
           queue.dirty \subseteq queue'.dirty,
           queue.delayed \subseteq queue'.delayed,
           UNCHANGED <<categories, resources>>,
           tenants'[k.tenant] = tenants[k.tenant]
    PROVE  Undisturbed(k)
<1>1. LiveTenant(k)' = LiveTenant(k) /\ (TenantPending(k) => TenantPending(k)')
  BY DEF LiveTenant, TenantPending
<1> QED BY <1>1, SameEvents, QuietStep

(* An edit of something a domain depends on has an event to come.          *)
LEMMA EditQuiet ==
    ASSUME ViewsOK, ViewsOK', phase # "down", Edit,
           NEW k \in TenantKeySet, Due(k)', ~Pending(k)'
    PROVE  Undisturbed(k)
<1>1. ASSUME NEW t \in Tenants, NEW v \in TenantVals[t] \cup {Absent}, EditTenant(t, v)
      PROVE  Undisturbed(k)
  <2>1. tenants' = [tenants EXCEPT ![t] = Written(tenants[t], v)]
    BY <1>1 DEF EditTenant, Write
  <2>2. ~UpToDate(tenants'[t])
    <3>1. tenants[t] \in ViewOf(TenantVals[t] \cup {Absent}) /\ WellFormed(tenants[t])
      BY DEF ViewsOK
    <3>2. ~UpToDate(Written(tenants[t], v))
      BY <1>1, <3>1, WrittenView DEF EditTenant
    <3> QED BY <2>1, <3>2 DEF ViewsOK
  <2>3. k.tenant # t
    BY <2>2 DEF Pending, TenantPending
  <2> QED BY <1>1, <2>1, <2>3, OtherTenantStep DEF EditTenant
<1>2. ASSUME NEW c \in Categories, NEW v \in CategoryVals[c] \cup {Absent}, EditCategory(c, v)
      PROVE  Undisturbed(k)
  <2>1. categories' = [categories EXCEPT ![c] = Written(categories[c], v)]
    BY <1>2 DEF EditCategory, Write
  <2>2. ~UpToDate(categories'[c])
    <3>1. categories[c] \in ViewOf(CategoryVals[c] \cup {Absent}) /\ WellFormed(categories[c])
      BY DEF ViewsOK
    <3>2. ~UpToDate(Written(categories[c], v))
      BY <1>2, <3>1, WrittenView DEF EditCategory
    <3> QED BY <2>1, <3>2 DEF ViewsOK
  <2>3. LiveTenant(k)' = LiveTenant(k) /\ (TenantPending(k) => TenantPending(k)')
    BY <1>2, SameEvents DEF EditCategory
  <2>4. LiveTenant(k).category # c
    BY <2>2, <2>3 DEF Pending, CategoryPending
  <2>5. \A b \in Categories : LiveTenant(k).category = b => categories'[b] = categories[b]
    BY <2>1, <2>4 DEF ViewsOK
  <2> QED BY <1>2, <2>3, <2>5, SameEvents, QuietStep DEF EditCategory
<1>3. ASSUME NEW r \in Resources, NEW v \in ResourceVals \cup {Absent}, EditResource(r, v)
      PROVE  Undisturbed(k)
  <2>1. resources' = [resources EXCEPT ![r] = Written(resources[r], v)]
    BY <1>3 DEF EditResource, Write
  <2>2. /\ resources'[r] = Written(resources[r], v) /\ ~UpToDate(resources'[r])
        /\ Live(resources'[r]) = v /\ Live(resources[r]) \in Versions(resources[r])
        /\ Versions(resources'[r]) = Versions(resources[r]) \cup {v}
    BY <1>3, <2>1, WrittenView, ReadsAreVersions DEF ViewsOK, EditResource
  <2>3. \A x \in Versions(resources'[r]) : ~InTarget(x, k.platform, k.domain, "Tenant")
    BY <2>2 DEF Pending, ResourcePending
  <2>4. \A q \in Resources : q # r => resources'[q] = resources[q]
    BY <2>1 DEF ViewsOK
  <2>5. ResourcePending(k) => ResourcePending(k)'
    BY <2>2, <2>3, <2>4 DEF ResourcePending
  <2>6. LiveTenant(k)' = LiveTenant(k) /\ (TenantPending(k) => TenantPending(k)')
    BY <1>3, SameEvents DEF EditResource
  <2> QED BY <1>3, <2>2, <2>3, <2>4, <2>5, <2>6, QuietStep DEF EditResource
<1>4. ASSUME NEW p \in Platforms, EditPlatform(p) PROVE Undisturbed(k)
  BY <1>4, SameEvents, QuietStep DEF EditPlatform
<1> QED BY <1>1, <1>2, <1>3, <1>4 DEF Edit

(* The store running ahead changes nothing a sync reads live.              *)
LEMMA ObserveQuiet ==
    ASSUME ViewsOK, ViewsOK', Observe, NEW k \in TenantKeySet, Due(k)', ~Pending(k)'
    PROVE  Undisturbed(k)
<1>1. CASE \E t \in Tenants : /\ CanObserve(tenants[t])
                              /\ tenants' = [tenants EXCEPT ![t] = Observed(@)]
                              /\ UNCHANGED <<categories, resources>>
  <2> PICK t \in Tenants : /\ CanObserve(tenants[t])
                           /\ tenants' = [tenants EXCEPT ![t] = Observed(@)]
                           /\ UNCHANGED <<categories, resources>>
    BY <1>1
  <2>1. \A u \in Tenants : /\ Live(tenants'[u]) = Live(tenants[u])
                            /\ UpToDate(tenants'[u]) = UpToDate(tenants[u])
    BY ObservedView DEF ViewsOK
  <2>2. LiveTenant(k)' = LiveTenant(k) /\ (TenantPending(k) => TenantPending(k)')
    BY <2>1, TenantKeysAreKeys DEF LiveTenant, TenantPending
  <2> QED BY <2>2, SameEvents, QuietStep DEF Observe
<1>2. CASE \E c \in Categories : /\ CanObserve(categories[c])
                                 /\ categories' = [categories EXCEPT ![c] = Observed(@)]
                                 /\ UNCHANGED <<tenants, resources>>
  <2> PICK c \in Categories : /\ CanObserve(categories[c])
                              /\ categories' = [categories EXCEPT ![c] = Observed(@)]
                              /\ UNCHANGED <<tenants, resources>>
    BY <1>2
  <2>1. \A b \in Categories : /\ Live(categories'[b]) = Live(categories[b])
                               /\ UpToDate(categories'[b]) = UpToDate(categories[b])
    BY ObservedView DEF ViewsOK
  <2> QED BY <2>1, SameEvents, QuietStep DEF Observe
<1>3. CASE \E r \in Resources : /\ CanObserve(resources[r])
                                /\ resources' = [resources EXCEPT ![r] = Observed(@)]
                                /\ UNCHANGED <<tenants, categories>>
  <2> PICK r \in Resources : /\ CanObserve(resources[r])
                             /\ resources' = [resources EXCEPT ![r] = Observed(@)]
                             /\ UNCHANGED <<tenants, categories>>
    BY <1>3
  <2>1. \A q \in Resources : /\ Live(resources'[q]) = Live(resources[q])
                              /\ UpToDate(resources'[q]) = UpToDate(resources[q])
                              /\ Versions(resources'[q]) = Versions(resources[q])
    BY ObservedView DEF ViewsOK
  <2>2. ResourcePending(k) => ResourcePending(k)'
    BY <2>1 DEF ResourcePending
  <2> QED BY <2>1, <2>2, SameEvents, QuietStep DEF Observe
<1> QED BY <1>1, <1>2, <1>3 DEF Observe

(* A handler only adds keys to the queue.                                  *)
LEMMA AddAllAdds ==
    ASSUME ControlOK, NEW keys, queue' = AddAll(queue, keys)
    PROVE  /\ queue.dirty \subseteq queue'.dirty /\ keys \subseteq queue'.dirty
           /\ queue'.delayed = queue.delayed
BY DEF ControlOK, QueueOver, AddAll

(* A version of a tenant that asks for the domain of k puts k on the queue. *)
LEMMA TenantKeysHasKey ==
    ASSUME NEW k \in TenantKeySet, NEW v \in TenantVals[k.tenant], Refs(v, k)
    PROVE  /\ k \in TenantKeys(k.tenant, v)
           /\ ~v.skip /\ v.platform # NoPlatform /\ v # Absent
<1>1. ~v.skip /\ v.platform = k.platform /\ k.domain \in v.domains /\ v # Absent
  BY TenantKeysAreKeys DEF Unskipped, Refs
<1>2. k.platform # NoPlatform
  BY TenantKeysAreKeys, NamesAssumption
<1>3. k = Key(v.platform, k.tenant, k.domain)
  BY <1>1, TenantKeysAreKeys
<1> QED BY <1>1, <1>2, <1>3 DEF TenantKeys

(* Versions without the label have the same spec only if they are equal.   *)
LEMMA SameSpecs ==
    ASSUME NEW old \in TenantSpec, NEW new \in TenantSpec, ~old.skip, ~new.skip,
           SameSpec(old, new)
    PROVE  old = new
<1>1. [old EXCEPT !.skip = FALSE] = old /\ [new EXCEPT !.skip = FALSE] = new
  BY DEF TenantSpec
<1> QED BY <1>1 DEF SameSpec

(* The store holds the tenant a key is due for, unless an event is to come. *)
LEMMA CachedTenant ==
    ASSUME ViewsOK, NEW k \in TenantKeySet, Refs(LiveTenant(k), k), ~TenantPending(k)
    PROVE  /\ Cached(tenants[k.tenant]) = LiveTenant(k)
           /\ LiveTenant(k) \in TenantVals[k.tenant]
           /\ k \in TenantKeys(k.tenant, LiveTenant(k)) /\ ~LiveTenant(k).skip
           /\ LiveTenant(k) # Absent
<1>1. Cached(tenants[k.tenant]) = LiveTenant(k)
  BY ReadsAreVersions, TenantKeysAreKeys DEF TenantPending, LiveTenant, ViewsOK
<1>2. LiveTenant(k) \in TenantVals[k.tenant]
  BY ReadTypes, TenantKeysAreKeys DEF LiveTenant, Refs
<1> QED BY <1>1, <1>2, TenantKeysHasKey

(* The handler of the last event on a tenant enqueues the domains it asks   *)
(* for.                                                                    *)
LEMMA HandleTenantQuiet ==
    ASSUME ViewsOK, ViewsOK', ControlOK, NEW t \in Tenants, HandleTenant(t),
           NEW k \in TenantKeySet, Due(k)', ~Pending(k)'
    PROVE  Undisturbed(k)
<1> DEFINE view == tenants[t]
           old  == OldVersion(view)
           new  == NewVersion(view)
<1>1. /\ queue.dirty \subseteq queue'.dirty /\ queue'.delayed = queue.delayed
      /\ OnTenant(t, old, new) \subseteq queue'.dirty
  BY AddAllAdds DEF HandleTenant
<1>2. CASE k.tenant # t
  BY <1>1, <1>2, OtherTenantStep DEF HandleTenant
<1>3. CASE k.tenant = t
  <2>1. view \in ViewOf(TenantVals[t] \cup {Absent}) /\ WellFormed(view) /\ CanNotify(view)
    BY DEF ViewsOK, HandleTenant
  <2>2. tenants'[t] = Notified(view)
    BY DEF HandleTenant, ViewsOK
  <2>3. UpToDate(Notified(view))
    BY <1>3, <2>2 DEF Pending, TenantPending
  <2>4. /\ new = Live(view) /\ Live(Notified(view)) = Live(view) /\ old # new
        /\ old \in TenantVals[t] \cup {Absent} /\ new \in TenantVals[t] \cup {Absent}
    BY <2>1, <2>3, NotifiedView
  <2>5. Refs(new, k)
    BY <1>3, <2>2, <2>4 DEF Due, LiveTenant
  <2>6. new \in TenantVals[t]
    BY <2>4, <2>5 DEF Refs
  <2>7. k \in TenantKeys(t, new) /\ ~new.skip /\ new.platform # NoPlatform /\ new # Absent
    BY <1>3, <2>5, <2>6, TenantKeysHasKey
  <2>8. ~(old # Absent /\ new # Absent /\ SameSpec(old, new))
    <3> SUFFICES ASSUME old # Absent, SameSpec(old, new) PROVE FALSE
      OBVIOUS
    <3>1. old \in TenantVals[t] /\ ~old.skip
      BY <1>3, <2>4, TenantKeysAreKeys DEF Unskipped
    <3> QED BY <2>4, <2>6, <2>7, <3>1, SameSpecs, VersionsAreSpecs
  <2>9. k \in OnTenant(t, old, new)
    BY <2>7, <2>8 DEF OnTenant
  <2> QED BY <1>1, <2>9 DEF Pending
<1> QED BY <1>2, <1>3

(* ... and so does that of the last event on its category.                 *)
LEMMA HandleCategoryQuiet ==
    ASSUME ViewsOK, ViewsOK', ControlOK, NEW c \in Categories, HandleCategory(c),
           NEW k \in TenantKeySet, Due(k)', ~Pending(k)'
    PROVE  Undisturbed(k)
<1> DEFINE view == categories[c]
           old  == OldVersion(view)
           new  == NewVersion(view)
<1>1. /\ queue.dirty \subseteq queue'.dirty /\ queue'.delayed = queue.delayed
      /\ OnCategory(c, old, new) \subseteq queue'.dirty
  BY AddAllAdds DEF HandleCategory
<1>2. /\ LiveTenant(k)' = LiveTenant(k) /\ (TenantPending(k) => TenantPending(k)')
      /\ TenantPending(k)' = TenantPending(k)
  BY SameEvents DEF HandleCategory, TenantPending
<1>3. view \in ViewOf(CategoryVals[c] \cup {Absent}) /\ WellFormed(view) /\ CanNotify(view)
  BY DEF ViewsOK, HandleCategory
<1>4. /\ categories'[c] = Notified(view)
      /\ \A b \in Categories : b # c => categories'[b] = categories[b]
  BY DEF HandleCategory, ViewsOK
<1>5. LiveTenant(k).category # c
  <2> SUFFICES ASSUME LiveTenant(k).category = c PROVE FALSE
    OBVIOUS
  <2>1. UpToDate(Notified(view))
    BY <1>2, <1>4 DEF Pending, CategoryPending
  <2>2. new = Live(view) /\ Live(Notified(view)) = Live(view) /\ old # new
    BY <1>3, <2>1, NotifiedView
  <2>3. new # Absent /\ new.platform = LiveTenant(k).platform
    <3>1. CategoryResolved(LiveTenant(k), LiveCategories') /\ LiveTenant(k).category # NoCategory
      BY <1>2, NamesAssumption DEF Due, Renderable
    <3>2. LiveCategories'[c] = new
      BY <1>4, <2>2 DEF LiveCategories
    <3> QED BY <3>1, <3>2 DEF CategoryResolved
  <2>4. Refs(LiveTenant(k), k) /\ ~TenantPending(k)
    BY <1>2 DEF Due, Pending
  <2>5. k \in KeysOfCategory(c, new.platform)
    BY <2>3, <2>4, CachedTenant, TenantKeysAreKeys DEF KeysOfCategory
  <2>6. k \in OnCategory(c, old, new)
    BY <2>2, <2>3, <2>5 DEF OnCategory
  <2> QED BY <1>1, <2>6 DEF Pending
<1> QED BY <1>1, <1>2, <1>4, <1>5, SameEvents, QuietStep DEF HandleCategory

(* ... and that of an event on a resource of its target, old or new.       *)
LEMMA HandleResourceQuiet ==
    ASSUME ViewsOK, ViewsOK', ControlOK, NEW r \in Resources, HandleResource(r),
           NEW k \in TenantKeySet, Due(k)', ~Pending(k)'
    PROVE  Undisturbed(k)
<1> DEFINE view == resources[r]
           old  == OldVersion(view)
           new  == NewVersion(view)
<1>1. /\ queue.dirty \subseteq queue'.dirty /\ queue'.delayed = queue.delayed
      /\ OnResource(old, new) \subseteq queue'.dirty
  BY AddAllAdds DEF HandleResource
<1>2. /\ LiveTenant(k)' = LiveTenant(k) /\ (TenantPending(k) => TenantPending(k)')
      /\ TenantPending(k)' = TenantPending(k)
  BY SameEvents DEF HandleResource, TenantPending
<1>3. view \in ViewOf(ResourceVals \cup {Absent}) /\ WellFormed(view) /\ CanNotify(view)
  BY DEF ViewsOK, HandleResource
<1>4. /\ resources'[r] = Notified(view)
      /\ \A q \in Resources : q # r => resources'[q] = resources[q]
  BY DEF HandleResource, ViewsOK
<1>5. /\ Versions(view) = {old} \cup Versions(Notified(view))
      /\ Live(Notified(view)) = Live(view)
      /\ UpToDate(Notified(view)) => Versions(Notified(view)) = {new}
  BY <1>3, NotifiedView
<1>6. Refs(LiveTenant(k), k) /\ ~TenantPending(k)
  BY <1>2 DEF Due, Pending
<1>7. ASSUME NEW v \in {old, new} PROVE ~InTarget(v, k.platform, k.domain, "Tenant")
  <2> SUFFICES ASSUME InTarget(v, k.platform, k.domain, "Tenant") PROVE FALSE
    OBVIOUS
  <2>1. /\ v # Absent /\ v.platform = k.platform /\ v.domain = k.domain
        /\ v.target = "Tenant" /\ v.platform # NoPlatform /\ v.domain # NoDomain
    BY TenantKeysAreKeys, NamesAssumption DEF InTarget
  <2>2. k \in KeysOfDomain(k.platform, k.domain, "Tenant")
    BY <1>6, CachedTenant, TenantKeysAreKeys DEF KeysOfDomain
  <2>3. k \in OnResource(old, new)
    BY <2>1, <2>2 DEF OnResource
  <2> QED BY <1>1, <2>3 DEF Pending
<1>8. ResourcePending(k) => ResourcePending(k)'
  <2>1. ASSUME NEW v \in Versions(view), InTarget(v, k.platform, k.domain, "Tenant")
        PROVE  ~UpToDate(Notified(view)) /\ v \in Versions(Notified(view))
    BY <1>5, <1>7, <2>1
  <2> QED BY <1>4, <2>1 DEF ResourcePending
<1> QED BY <1>1, <1>2, <1>4, <1>5, <1>8, SameEvents, QuietStep DEF HandleResource
-----------------------------------------------------------------------------
(* No wake-up is lost *)

(* Users, informers, handlers and the delaying queue, while the controller  *)
(* is up: what they change, a key is queued for, or will be.               *)
LEMMA OthersQuiet ==
    ASSUME ViewsOK, ViewsOK', ControlOK, phase # "down", ~SkipInitialReconcile,
           \/ Edit \/ Observe \/ Handle \/ StartWorkers
           \/ \E k \in queue.delayed : Retry(k),
           NEW k \in TenantKeySet, Due(k)', ~Pending(k)'
    PROVE  Undisturbed(k)
<1>1. CASE Edit \/ Observe \/ Handle
  BY <1>1, EditQuiet, ObserveQuiet, HandleTenantQuiet, HandleCategoryQuiet,
     HandleResourceQuiet DEF Handle
<1>2. ASSUME NEW l \in queue.delayed, Retry(l) PROVE Undisturbed(k)
  <2>1. /\ queue.dirty \subseteq queue'.dirty
        /\ queue.delayed \subseteq queue'.delayed \cup queue'.dirty
    BY <1>2 DEF Retry, BackoffOver, ControlOK, QueueOver
  <2> QED BY <1>2, <2>1, SameEvents, QuietStep DEF Retry, apiVars
<1>3. CASE StartWorkers
  BY <1>3, SameEvents, QuietStep DEF StartWorkers, apiVars
<1> QED BY <1>1, <1>2, <1>3

LEMMA OthersWake ==
    ASSUME TypeOK, TypeOK', WorkersHoldKeys', NoLostWakeup, StaleJobIsRedone,
           ~SkipInitialReconcile,
           \/ Edit \/ Observe \/ Handle \/ StartWorkers
           \/ \E k \in queue.delayed : Retry(k)
    PROVE  NoLostWakeup' /\ StaleJobIsRedone'
<1>1. /\ job' = job /\ queue'.processing = queue.processing
      /\ phase' = phase \/ phase' = "running"
  BY OthersHold DEF TypeOK
<1>2. stacks' = stacks /\ recorded' = recorded
  BY DEF Edit, EditTenant, EditCategory, EditResource, EditPlatform, Observe, Handle,
         HandleTenant, HandleCategory, HandleResource, StartWorkers, Retry, stackVars
<1>3. CASE phase = "down"
  <2>1. phase' = "down"
    BY <1>3 DEF Edit, EditTenant, EditCategory, EditResource, EditPlatform, Observe, Handle,
         HandleTenant, HandleCategory, HandleResource, StartWorkers, Retry
  <2> QED BY <2>1 DEF NoLostWakeup, StaleJobIsRedone, WorkersHoldKeys
<1>4. CASE phase # "down"
  <2>1. ASSUME NEW k \in TenantKeySet, Due(k)', ~Pending(k)' PROVE Undisturbed(k)
    BY <1>4, <2>1, OthersQuiet DEF TypeOK
  <2>2. ASSUME NEW k \in TenantKeySet, Undisturbed(k)
        PROVE  Provisioned(k)' <=> Provisioned(k)
    BY <1>2, <2>2 DEF Undisturbed, Provisioned
  <2>3. NoLostWakeup'
    BY <1>1, <1>2, <1>4, <2>1, <2>2 DEF NoLostWakeup, Undisturbed
  <2>4. ASSUME NEW w \in Workers, Undisturbed(job[w].key), job[w].key \in TenantKeySet,
               UpToDateJob(w)
        PROVE  UpToDateJob(w)'
    BY <1>1, <1>2, <2>2, <2>4 DEF UpToDateJob, Undisturbed
  <2>5. StaleJobIsRedone'
    BY <1>1, <2>1, <2>4 DEF StaleJobIsRedone, Undisturbed, Busy
  <2> QED BY <2>3, <2>5
<1> QED BY <1>3, <1>4

(* Starting: every tenant that exists has its Add to come.                 *)
LEMMA StartsPending ==
    ASSUME NEW api \in [Tenants -> TenantSpec \cup {Absent}],
           tenants' = [t \in Tenants |-> Listed(api[t])],
           NEW k \in TenantKeySet, Due(k)'
    PROVE  Pending(k)'
<1>1. k.tenant \in Tenants /\ api[k.tenant] \in TenantSpec \cup {Absent}
  BY TenantKeysAreKeys
<1>2. tenants'[k.tenant] = Listed(api[k.tenant])
  BY <1>1
<1>3. Live(Listed(api[k.tenant])) = api[k.tenant]
  BY <1>1, ListedView
<1>4. api[k.tenant] # Absent
  BY <1>2, <1>3 DEF Due, LiveTenant, Refs
<1>5. ~UpToDate(Listed(api[k.tenant]))
  BY <1>1, <1>4, ListedView
<1> QED BY <1>2, <1>5 DEF Pending, TenantPending

LEMMA ProcessWakes ==
    ASSUME TypeOK, WorkersHoldKeys', Crash \/ Restart
    PROVE  NoLostWakeup' /\ StaleJobIsRedone'
<1>1. phase' # "running"
  BY DEF Crash, Restart
<1>2. StaleJobIsRedone'
  BY <1>1 DEF StaleJobIsRedone, WorkersHoldKeys
<1>3. CASE Crash
  BY <1>2, <1>3 DEF Crash, NoLostWakeup
<1>4. CASE Restart
  <2> DEFINE api == [t \in Tenants |-> Live(tenants[t])]
  <2>1. api \in [Tenants -> TenantSpec \cup {Absent}]
    BY ReadTypes, VersionsAreSpecs DEF TypeOK
  <2>2. tenants' = [t \in Tenants |-> Listed(api[t])]
    BY <1>4 DEF Restart
  <2> HIDE DEF api
  <2>3. NoLostWakeup'
    BY <2>1, <2>2, StartsPending DEF NoLostWakeup
  <2> QED BY <1>2, <2>3
<1> QED BY <1>3, <1>4
-----------------------------------------------------------------------------
(* Workers *)

(* A worker changes no object, so that a key depends on what it depended on.*)
LEMMA WorkersWriteNothing ==
    ASSUME UNCHANGED apiVars, NEW k
    PROVE  /\ LiveTenant(k)' = LiveTenant(k) /\ WantedNow(k)' = WantedNow(k)
           /\ Due(k)' = Due(k)
           /\ queue' = queue => Pending(k)' = Pending(k)
<1>1. LiveTenant(k)' = LiveTenant(k)
  BY DEF apiVars, LiveTenant
<1>2. LiveCategories' = LiveCategories /\ LiveResources' = LiveResources
  BY DEF apiVars, LiveCategories, LiveResources
<1> QED BY <1>1, <1>2 DEF apiVars, WantedNow, Due, Pending, TenantPending,
                          CategoryPending, ResourcePending

(* The stores answer a sync of a key that is due and not pending as the API *)
(* server would.                                                           *)
LEMMA ListedIsWanted ==
    ASSUME ViewsOK, NEW k \in TenantKeySet, Due(k), ~Pending(k)
    PROVE  /\ TenantItems(k, LiveTenant(k), CachedCategories, CachedResources) = WantedNow(k)
           /\ Renderable(k, LiveTenant(k), CachedCategories, CachedResources)
<1> DEFINE tenant == LiveTenant(k)
<1>1. tenant \in TenantSpec /\ tenant.platform = k.platform
  <2>1. tenant \in TenantSpec \cup {Absent}
    BY ReadTypes, VersionsAreSpecs, TenantKeysAreKeys DEF LiveTenant
  <2> QED BY <2>1 DEF Due, Refs
<1>2. ASSUME NEW c \in Categories, tenant.category = c
      PROVE  CachedCategories[c] = LiveCategories[c]
  <2>1. UpToDate(categories[c])
    BY <1>2 DEF Pending, CategoryPending
  <2> QED BY <2>1, ReadsAreVersions DEF ViewsOK, CachedCategories, LiveCategories
<1>3. ASSUME NEW r \in Resources
      PROVE  \/ CachedResources[r] = LiveResources[r]
             \/ /\ ~InTarget(LiveResources[r], k.platform, k.domain, "Tenant")
                /\ ~InTarget(CachedResources[r], k.platform, k.domain, "Tenant")
  <2>1. /\ LiveResources[r] \in Versions(resources[r])
        /\ CachedResources[r] \in Versions(resources[r])
        /\ UpToDate(resources[r]) => CachedResources[r] = LiveResources[r]
    BY ReadsAreVersions DEF ViewsOK, CachedResources, LiveResources
  <2> QED BY <2>1 DEF Pending, ResourcePending
<1> HIDE DEF tenant
<1>4. /\ TenantItems(k, tenant, CachedCategories, CachedResources)
            = TenantItems(k, tenant, LiveCategories, LiveResources)
      /\ Renderable(k, tenant, CachedCategories, CachedResources)
            <=> Renderable(k, tenant, LiveCategories, LiveResources)
  BY <1>1, <1>2, <1>3, ItemsDepend
<1> QED BY <1>4 DEF WantedNow, Due, tenant

(* A worker on the way that nothing has overtaken stays on the way.         *)
LEMMA JobStaysUpToDate ==
    ASSUME TypeOK, NEW w \in Workers,
           \/ ReadTarget(w) \/ List(w) \/ Apply(w) \/ ProvisionSucceeds(w) \/ Migrate(w)
           \/ Publish(w) \/ Fail(w),
           job[w].key \in TenantKeySet, Due(job[w].key), ~Pending(job[w].key), UpToDateJob(w)
    PROVE  UpToDateJob(w)'
<1> DEFINE k == job[w].key
<1>1. /\ ViewsOK /\ ControlOK /\ OutsideOK
      /\ job \in [Workers -> Jobs] /\ job[w] \in Jobs
      /\ k \in Keys /\ StackOf(k) \in Stacks /\ k.tenant # NoTenant
  BY KeyTypes, TenantKeysAreKeys, NamesAssumption DEF TypeOK, ControlOK, Jobs
<1>2. /\ UNCHANGED apiVars /\ job'[w].key = k
      /\ LiveTenant(k)' = LiveTenant(k) /\ WantedNow(k)' = WantedNow(k)
  <2>1. UNCHANGED apiVars /\ job'[w].key = k
    BY <1>1, WorkerKeeps
  <2> QED BY <2>1, WorkersWriteNothing
<1>3. /\ LiveTenant(k) \in TenantSpec /\ Refs(LiveTenant(k), k)
      /\ LiveTenant(k) # Absent /\ LiveTenant(k) # PlatformTarget
  <2>1. LiveTenant(k) \in TenantSpec \cup {Absent}
    BY <1>1, ReadTypes, VersionsAreSpecs, TenantKeysAreKeys DEF LiveTenant
  <2> QED BY <2>1, NamesAssumption DEF Due, Refs, PlatformTarget
<1>4. CASE ReadTarget(w)
  BY <1>1, <1>2, <1>3, <1>4 DEF ReadTarget, UpToDateJob, LiveTenant, Jobs
<1>5. CASE List(w)
  <2>1. job[w].pc = "list" /\ job[w].target = LiveTenant(k)
    BY <1>5 DEF List, UpToDateJob
  <2>2. /\ TenantItems(k, LiveTenant(k), CachedCategories, CachedResources) = WantedNow(k)
        /\ Renderable(k, LiveTenant(k), CachedCategories, CachedResources)
    BY <1>1, ListedIsWanted
  <2>3. job' = [job EXCEPT ![w].pc = "provision", ![w].items = WantedNow(k)]
    BY <1>3, <1>5, <2>1, <2>2 DEF List
  <2> QED BY <1>1, <1>2, <2>1, <2>3 DEF UpToDateJob, Jobs
<1>6. CASE Apply(w)
  BY <1>1, <1>2, <1>6 DEF Apply, UpToDateJob, Jobs
<1>7. CASE ProvisionSucceeds(w)
  <2>1. Provisioned(k)' /\ job[w].target # Absent
    BY <1>2, <1>3, <1>7 DEF ProvisionSucceeds, UpToDateJob, Provisioned, stackVars
  <2>2. job'[w].pc \in {"migrate", "publish"}
    BY <1>1, <1>7, <2>1 DEF ProvisionSucceeds
  <2> QED BY <1>2, <2>1, <2>2 DEF UpToDateJob
<1>8. CASE Migrate(w)
  <2>1. Provisioned(k)' /\ job'[w].pc = "publish"
    BY <1>1, <1>2, <1>8 DEF Migrate, UpToDateJob, Provisioned
  <2> QED BY <1>2, <2>1 DEF UpToDateJob
<1>9. CASE Publish(w)
  <2>1. job[w].failed \/ Provisioned(k)'
    BY <1>2, <1>9 DEF Publish, UpToDateJob, Provisioned
  <2>2. job'[w].pc = "done"
    BY <1>1, <1>9 DEF Publish
  <2>3. recorded'[k] = IF job[w].failed THEN "failure" ELSE "success"
    BY <1>1, <1>9 DEF Publish, OutsideOK
  <2> QED BY <1>2, <2>1, <2>2, <2>3 DEF UpToDateJob
<1>10. CASE ReadFails(w)
  BY <1>1, <1>10 DEF ReadFails, UpToDateJob
<1>11. CASE ProvisionFails(w)
  <2>1. job[w].target # Absent
    BY <1>3, <1>11 DEF ProvisionFails, UpToDateJob
  <2>2. job'[w].pc = "publish" /\ job'[w].failed
    BY <1>1, <1>11, <2>1 DEF ProvisionFails, Jobs
  <2> QED BY <2>2 DEF UpToDateJob
<1>12. CASE MigrationFails(w)
  <2>1. job'[w].pc = "publish" /\ job'[w].failed
    BY <1>1, <1>12 DEF MigrationFails, Jobs
  <2> QED BY <2>1 DEF UpToDateJob
<1> QED BY <1>4, <1>5, <1>6, <1>7, <1>8, <1>9, <1>10, <1>11, <1>12 DEF Fail

(* A worker touches the stack of its own key, and announces that key.       *)
LEMMA WorkersKeepApart ==
    ASSUME StacksAreDistinct, TypeOK, NEW w \in Workers,
           \/ ReadTarget(w) \/ List(w) \/ Apply(w) \/ ProvisionSucceeds(w) \/ Migrate(w)
           \/ Publish(w) \/ Fail(w),
           NEW k \in Keys, k # job[w].key
    PROVE  /\ stacks'[StackOf(k)] = stacks[StackOf(k)]
           /\ recorded'[k] = recorded[k] /\ published'[k] = published[k]
<1>1. /\ job[w].key \in Keys /\ StackOf(k) # StackOf(job[w].key)
      /\ stacks \in [Stacks -> SUBSET Manifests]
      /\ recorded \in [Keys -> {"none", "success", "failure"}]
      /\ published \in [Keys -> {"none", "success", "failure"}]
  BY DEF TypeOK, ControlOK, OutsideOK, Jobs, StacksAreDistinct
<1>2. CASE Apply(w)
  <2>1. \E T : stacks' = [stacks EXCEPT ![StackOf(job[w].key)] = T]
    BY <1>2 DEF Apply
  <2> QED BY <1>1, <1>2, <2>1 DEF Apply
<1>3. CASE Publish(w)
  BY <1>1, <1>3 DEF Publish
<1>4. CASE \/ ReadTarget(w) \/ List(w) \/ ProvisionSucceeds(w) \/ Migrate(w) \/ Fail(w)
  BY <1>4 DEF ReadTarget, List, ProvisionSucceeds, Migrate, Fail, ReadFails, ProvisionFails,
              MigrationFails, stackVars
<1> QED BY <1>2, <1>3, <1>4

(* The steps of a sync.                                                    *)
LEMMA SyncWakes ==
    ASSUME StacksAreDistinct, TypeOK, WorkersHoldKeys, NoLostWakeup, StaleJobIsRedone,
           NEW w \in Workers,
           \/ ReadTarget(w) \/ List(w) \/ Apply(w) \/ ProvisionSucceeds(w) \/ Migrate(w)
           \/ Publish(w) \/ Fail(w)
    PROVE  NoLostWakeup' /\ StaleJobIsRedone'
<1>1. /\ Busy(w) /\ Busy(w)' /\ job'[w].key = job[w].key
      /\ \A v \in Workers \ {w} : job'[v] = job[v]
      /\ UNCHANGED <<phase, queue, apiVars>> /\ job[w].key \in queue.processing
  BY WorkerKeeps DEF TypeOK, WorkersHoldKeys
<1>2. ASSUME NEW k \in TenantKeySet
      PROVE  /\ LiveTenant(k)' = LiveTenant(k) /\ WantedNow(k)' = WantedNow(k)
             /\ Due(k)' = Due(k) /\ Pending(k)' = Pending(k)
  BY <1>1, WorkersWriteNothing
<1>3. ASSUME NEW k \in TenantKeySet, k # job[w].key
      PROVE  recorded'[k] = recorded[k] /\ Provisioned(k)' = Provisioned(k)
  BY <1>2, <1>3, WorkersKeepApart, TenantKeysAreKeys DEF Provisioned
<1>4. NoLostWakeup'
  <2> SUFFICES ASSUME NEW k \in TenantKeySet, phase' # "down", Due(k)',
                      ~(recorded'[k] = "success" /\ Provisioned(k)')
               PROVE  \/ Pending(k)' \/ k \in queue'.delayed \/ k \in queue'.processing
                      \/ recorded'[k] = "failure"
    BY DEF NoLostWakeup
  <2>1. CASE k = job[w].key
    BY <1>1, <2>1
  <2>2. CASE k # job[w].key
    BY <1>1, <1>2, <1>3, <2>2 DEF NoLostWakeup
  <2> QED BY <2>1, <2>2
<1>5. StaleJobIsRedone'
  <2> SUFFICES ASSUME NEW v \in Workers, Busy(v)', job'[v].key \in TenantKeySet,
                      Due(job[v].key)', ~Pending(job[v].key)'
               PROVE  UpToDateJob(v)'
    BY DEF StaleJobIsRedone
  <2>1. CASE v = w
    <3>1. UpToDateJob(w) /\ Due(job[w].key) /\ ~Pending(job[w].key)
      BY <1>1, <1>2, <2>1 DEF StaleJobIsRedone
    <3> QED BY <1>1, <2>1, <3>1, JobStaysUpToDate
  <2>2. CASE v # w
    <3> DEFINE k == job[v].key
    <3>1. job'[v] = job[v] /\ Busy(v) /\ k \in TenantKeySet
      BY <1>1, <2>2 DEF Busy
    <3>2. UpToDateJob(v)
      BY <1>2, <3>1 DEF StaleJobIsRedone
    <3>3. k # job[w].key
      BY <1>1, <2>2, <3>1 DEF WorkersHoldKeys
    <3>4. /\ LiveTenant(k)' = LiveTenant(k) /\ WantedNow(k)' = WantedNow(k)
          /\ recorded'[k] = recorded[k] /\ Provisioned(k)' = Provisioned(k)
      BY <1>2, <1>3, <3>1, <3>3
    <3> HIDE DEF k
    <3> QED BY <3>1, <3>2, <3>4 DEF UpToDateJob, k
  <2> QED BY <2>1, <2>2
<1> QED BY <1>4, <1>5

(* A key that is taken is under work; its job has read nothing yet.        *)
LEMMA TakeWakes ==
    ASSUME TypeOK, WorkersHoldKeys, NoLostWakeup, StaleJobIsRedone,
           NEW w \in Workers, NEW l \in Ready(queue), Take(w, l)
    PROVE  NoLostWakeup' /\ StaleJobIsRedone'
<1>1. /\ UNCHANGED <<apiVars, phase, stackVars>> /\ job'[w].pc = "read" /\ job'[w].key = l
      /\ \A v \in Workers \ {w} : job'[v] = job[v]
  BY DEF Take, TypeOK, ControlOK, Idle
<1>2. /\ queue'.dirty = queue.dirty \ {l} /\ queue'.delayed = queue.delayed
      /\ queue'.processing = queue.processing \cup {l} /\ l \notin queue.processing
  BY DEF Take, TypeOK, ControlOK, QueueOver, Get, Ready
<1>3. ASSUME NEW k \in TenantKeySet
      PROVE  /\ LiveTenant(k)' = LiveTenant(k) /\ WantedNow(k)' = WantedNow(k)
             /\ Due(k)' = Due(k) /\ Provisioned(k)' = Provisioned(k)
             /\ k # l => Pending(k)' = Pending(k)
  <2>1. /\ LiveTenant(k)' = LiveTenant(k) /\ WantedNow(k)' = WantedNow(k)
        /\ Due(k)' = Due(k)
    BY <1>1, WorkersWriteNothing
  <2>2. Provisioned(k)' = Provisioned(k)
    BY <1>1, <2>1 DEF Provisioned, stackVars
  <2>3. k # l => Pending(k)' = Pending(k)
    BY <1>1, <1>2, <2>1 DEF Pending, TenantPending, CategoryPending, ResourcePending, apiVars
  <2> QED BY <2>1, <2>2, <2>3
<1>4. NoLostWakeup'
  BY <1>1, <1>2, <1>3 DEF NoLostWakeup, stackVars
<1>5. StaleJobIsRedone'
  <2> SUFFICES ASSUME NEW v \in Workers, Busy(v)', job'[v].key \in TenantKeySet,
                      Due(job[v].key)', ~Pending(job[v].key)'
               PROVE  UpToDateJob(v)'
    BY DEF StaleJobIsRedone
  <2>1. CASE v = w
    BY <1>1, <2>1 DEF UpToDateJob
  <2>2. CASE v # w
    <3> DEFINE k == job[v].key
    <3>1. job'[v] = job[v] /\ Busy(v) /\ k \in TenantKeySet
      BY <1>1, <2>2 DEF Busy
    <3>2. k # l
      BY <1>2, <3>1 DEF WorkersHoldKeys
    <3>3. UpToDateJob(v)
      BY <1>3, <3>1, <3>2 DEF StaleJobIsRedone
    <3>4. /\ LiveTenant(k)' = LiveTenant(k) /\ WantedNow(k)' = WantedNow(k)
          /\ recorded' = recorded /\ Provisioned(k)' = Provisioned(k)
      BY <1>1, <1>3, <3>1 DEF stackVars
    <3> HIDE DEF k
    <3> QED BY <3>1, <3>3, <3>4 DEF UpToDateJob, k
  <2> QED BY <2>1, <2>2
<1> QED BY <1>4, <1>5

(* A key that is given back is queued again, waits for a retry, or is done. *)
LEMMA FinishWakes ==
    ASSUME TypeOK, WorkersHoldKeys, NoLostWakeup, StaleJobIsRedone,
           NEW w \in Workers, Finish(w)
    PROVE  NoLostWakeup' /\ StaleJobIsRedone'
<1> DEFINE l == job[w].key
<1>1. /\ UNCHANGED <<apiVars, phase, stackVars>> /\ Busy(w) /\ ~Busy(w)'
      /\ job[w].pc \in {"done", "retry"}
      /\ \A v \in Workers \ {w} : job'[v] = job[v]
  BY DEF Finish, TypeOK, ControlOK, Idle, Busy
<1>2. /\ queue'.dirty = queue.dirty /\ queue'.processing = queue.processing \ {l}
      /\ queue.delayed \subseteq queue'.delayed
      /\ job[w].pc = "retry" => l \in queue'.delayed
  BY DEF Finish, TypeOK, ControlOK, QueueOver, AddRateLimited, Done
<1>3. ASSUME NEW k \in TenantKeySet
      PROVE  /\ LiveTenant(k)' = LiveTenant(k) /\ WantedNow(k)' = WantedNow(k)
             /\ Due(k)' = Due(k) /\ Provisioned(k)' = Provisioned(k)
             /\ Pending(k)' = Pending(k)
  <2>1. /\ LiveTenant(k)' = LiveTenant(k) /\ WantedNow(k)' = WantedNow(k)
        /\ Due(k)' = Due(k)
    BY <1>1, WorkersWriteNothing
  <2>2. Provisioned(k)' = Provisioned(k)
    BY <1>1, <2>1 DEF Provisioned, stackVars
  <2>3. Pending(k)' = Pending(k)
    BY <1>1, <1>2, <2>1 DEF Pending, TenantPending, CategoryPending, ResourcePending, apiVars
  <2> QED BY <2>1, <2>2, <2>3
<1>4. NoLostWakeup'
  <2> SUFFICES ASSUME NEW k \in TenantKeySet, phase' # "down", Due(k)', ~Pending(k)',
                      ~(recorded'[k] = "success" /\ Provisioned(k)')
               PROVE  \/ k \in queue'.delayed \/ k \in queue'.processing
                      \/ recorded'[k] = "failure"
    BY DEF NoLostWakeup
  <2>1. CASE k # l
    BY <1>1, <1>2, <1>3, <2>1 DEF NoLostWakeup, stackVars
  <2>2. CASE k = l
    <3>1. UpToDateJob(w)
      BY <1>1, <1>3, <2>2 DEF StaleJobIsRedone
    <3> QED BY <1>1, <1>2, <1>3, <2>2, <3>1 DEF UpToDateJob, stackVars
  <2> QED BY <2>1, <2>2
<1>5. StaleJobIsRedone'
  <2> SUFFICES ASSUME NEW v \in Workers, Busy(v)', job'[v].key \in TenantKeySet,
                      Due(job[v].key)', ~Pending(job[v].key)'
               PROVE  UpToDateJob(v)'
    BY DEF StaleJobIsRedone
  <2> DEFINE k == job[v].key
  <2>1. job'[v] = job[v] /\ Busy(v) /\ k \in TenantKeySet
    BY <1>1 DEF Busy
  <2>2. UpToDateJob(v)
    BY <1>3, <2>1 DEF StaleJobIsRedone
  <2>3. /\ LiveTenant(k)' = LiveTenant(k) /\ WantedNow(k)' = WantedNow(k)
        /\ recorded' = recorded /\ Provisioned(k)' = Provisioned(k)
    BY <1>1, <1>3, <2>1 DEF stackVars
  <2> HIDE DEF k
  <2> QED BY <2>1, <2>2, <2>3 DEF UpToDateJob, k
<1> QED BY <1>4, <1>5
-----------------------------------------------------------------------------
(* The inductive invariant *)

\* What is due is queued, under work, retried, to come or announced; and what
\* a worker has read is as the API server has it, or will be read again.
NothingIsLost == TypeOK /\ WorkersHoldKeys /\ NoLostWakeup /\ StaleJobIsRedone

LEMMA LossInit == Init => NothingIsLost
<1> SUFFICES ASSUME Init PROVE NothingIsLost
  OBVIOUS
<1>1. TypeOK /\ WorkersHoldKeys
  BY InitTypes, HoldInit
<1>2. StaleJobIsRedone
  BY DEF Init, StaleJobIsRedone, Busy, Idle
<1>3. NoLostWakeup
  <2> SUFFICES ASSUME NEW k \in TenantKeySet, Due(k) PROVE TenantPending(k)
    BY DEF NoLostWakeup, Pending
  <2> PICK api \in InitialApi : tenants = [t \in Tenants |-> Listed(api.tenants[t])]
    BY DEF Init
  <2>1. k.tenant \in Tenants /\ api.tenants[k.tenant] \in TenantSpec \cup {Absent}
    BY TenantKeysAreKeys, InitialAssumption DEF ApiStates
  <2>2. Live(Listed(api.tenants[k.tenant])) = api.tenants[k.tenant]
    BY <2>1, ListedView
  <2>3. api.tenants[k.tenant] # Absent
    BY <2>1, <2>2 DEF Due, LiveTenant, Refs
  <2> QED BY <2>1, <2>3, ListedView DEF TenantPending
<1> QED BY <1>1, <1>2, <1>3 DEF NothingIsLost

LEMMA LossStep ==
    ASSUME StacksAreDistinct, ~SkipInitialReconcile, NothingIsLost, [Next]_vars
    PROVE  NothingIsLost'
<1>1. TypeOK /\ WorkersHoldKeys /\ NoLostWakeup /\ StaleJobIsRedone
  BY DEF NothingIsLost
<1>2. TypeOK' /\ WorkersHoldKeys'
  BY <1>1, NextTypes, HoldStep DEF TypeOK
<1>3. NoLostWakeup' /\ StaleJobIsRedone'
  <2>1. CASE \/ Edit \/ Observe \/ Handle \/ StartWorkers
             \/ \E k \in queue.delayed : Retry(k)
    BY <1>1, <1>2, <2>1, OthersWake
  <2>2. CASE Crash \/ Restart
    BY <1>1, <1>2, <2>2, ProcessWakes
  <2>3. ASSUME NEW w \in Workers, Work(w) \/ Fail(w) PROVE NoLostWakeup' /\ StaleJobIsRedone'
    BY <1>1, <2>3, SyncWakes, FinishWakes DEF Work
  <2>4. ASSUME NEW w \in Workers, NEW k \in Ready(queue), Take(w, k)
        PROVE  NoLostWakeup' /\ StaleJobIsRedone'
    BY <1>1, <2>4, TakeWakes
  <2>5. CASE UNCHANGED vars
    BY <1>1, <2>5 DEF vars, apiVars, stackVars, NoLostWakeup, StaleJobIsRedone, Busy,
       UpToDateJob, Pending, TenantPending, CategoryPending, ResourcePending, Due,
       Provisioned, WantedNow, LiveTenant, LiveCategories, LiveResources
  <2> QED BY <2>1, <2>2, <2>3, <2>4, <2>5 DEF Next
<1> QED BY <1>2, <1>3 DEF NothingIsLost

THEOREM NothingIsEverLost ==
    ASSUME StacksAreDistinct, ~SkipInitialReconcile
    PROVE  Spec => []NothingIsLost
<1>1. NothingIsLost /\ [Next]_vars => NothingIsLost'
  BY LossStep
<1> QED BY <1>1, LossInit, PTL DEF Spec

(* A domain that is due and not announced as it is has work under way for   *)
(* it or to come, whatever users, stores, failures and crashes do.         *)
THEOREM NoWakeupIsLost ==
    ASSUME StacksAreDistinct, ~SkipInitialReconcile
    PROVE  Spec => []NoLostWakeup
BY NothingIsEverLost, PTL DEF NothingIsLost

(* A worker that has read something out of date is followed by another sync.*)
THEOREM StaleJobsAreRedone ==
    ASSUME StacksAreDistinct, ~SkipInitialReconcile
    PROVE  Spec => []StaleJobIsRedone
BY NothingIsEverLost, PTL DEF NothingIsLost

\* The last message says what the last event does, unless one was lost.
SentInv == spent.lost = 0 => published = recorded

LEMMA MessagesAreSent == Spec => []SentInv
<1>1. Init => SentInv
  BY DEF Init, SentInv
<1>2. TypeOK /\ SentInv /\ [Next]_vars => SentInv'
  <2> SUFFICES ASSUME TypeOK, SentInv, [Next]_vars PROVE SentInv'
    OBVIOUS
  <2>1. spent \in [edits : 0 .. MaxEdits, failures : 0 .. MaxFailures,
                   crashes : 0 .. MaxCrashes, lost : 0 .. MaxLost]
    BY DEF TypeOK, OutsideOK
  <2>2. ASSUME UNCHANGED <<recorded, published>>, spent'.lost = spent.lost PROVE SentInv'
    BY <2>2 DEF SentInv
  <2>3. \A what \in {"edits", "failures", "crashes"} : Spend(what) => spent'.lost = spent.lost
    BY <2>1 DEF Spend
  <2>4. CASE Edit \/ Crash
    BY <2>2, <2>3, <2>4
       DEF Edit, EditTenant, EditCategory, EditResource, EditPlatform, Crash, stackVars
  <2>5. CASE \/ Observe \/ Handle \/ Restart \/ StartWorkers
             \/ \E k \in queue.delayed : Retry(k)
    BY <2>2, <2>5 DEF Observe, Handle, HandleTenant, HandleCategory, HandleResource, Restart,
                      StartWorkers, Retry, stackVars
  <2>6. ASSUME NEW w \in Workers,
               \/ ReadTarget(w) \/ List(w) \/ Apply(w) \/ ProvisionSucceeds(w) \/ Migrate(w)
               \/ Finish(w) \/ \E k \in Ready(queue) : Take(w, k)
        PROVE  SentInv'
    BY <2>2, <2>6 DEF ReadTarget, List, Apply, ProvisionSucceeds, Migrate, Finish, Take,
                      stackVars
  <2>7. ASSUME NEW w \in Workers, Fail(w) PROVE SentInv'
    BY <2>2, <2>3, <2>7 DEF Fail, ReadFails, ProvisionFails, MigrationFails, stackVars
  <2>8. ASSUME NEW w \in Workers, Publish(w) PROVE SentInv'
    <3>1. Spend("lost") => spent'.lost = spent.lost + 1 /\ spent.lost \in Nat
      BY <2>1, BoundsAssumption DEF Spend
    <3> QED BY <2>8, <3>1 DEF Publish, SentInv
  <2>9. CASE UNCHANGED vars
    BY <2>9 DEF vars, stackVars, SentInv
  <2> QED BY <2>4, <2>5, <2>6, <2>7, <2>8, <2>9 DEF Next, Work
<1> QED BY <1>1, <1>2, TypesAreCorrect, PTL DEF Spec

(* When the controller has nothing left to do for a domain that is due, its *)
(* stack is as the API server describes it and the last event recorded says *)
(* so, or it says failure; so does the last message unless one was lost.   *)
THEOREM SettledDomainsAreAnnounced ==
    ASSUME StacksAreDistinct, ~SkipInitialReconcile
    PROVE  Spec => []SettledIsAnnounced
<1>1. NothingIsLost /\ SentInv => SettledIsAnnounced
  <2> SUFFICES ASSUME NothingIsLost, NEW k \in TenantKeySet, Settled(k), Due(k)
               PROVE  \/ recorded[k] = "failure"
                      \/ recorded[k] = "success" /\ Provisioned(k)
    BY DEF SettledIsAnnounced, SentInv
  <2>1. ~Pending(k) /\ phase # "down" /\ k \notin queue.delayed \cup queue.processing
    BY TenantKeysAreKeys DEF Settled, Pending, TenantPending, CategoryPending, ResourcePending
  <2> QED BY <2>1 DEF NothingIsLost, NoLostWakeup
<1> QED BY <1>1, NothingIsEverLost, MessagesAreSent, PTL
-----------------------------------------------------------------------------
(* Tenants that skip provisioning *)

\* Every version of the tenant of k carries the label.
Skipped(k) == k.tenant # NoTenant /\ \A v \in TenantVals[k.tenant] : v.skip

\* No handler enqueues it.
LEMMA NoKeyIsSkipped ==
    ASSUME ViewsOK, NEW k \in Keys, Skipped(k)
    PROVE  /\ \A t \in Tenants : CanNotify(tenants[t]) =>
                k \notin OnTenant(t, OldVersion(tenants[t]), NewVersion(tenants[t]))
           /\ \A c, old, new : k \notin OnCategory(c, old, new)
           /\ \A old, new : k \notin OnResource(old, new)
<1>1. ASSUME NEW t \in Tenants, NEW v \in TenantVals[t] \cup {Absent}, k \in TenantKeys(t, v)
      PROVE  FALSE
  <2>1. v \in TenantVals[t] /\ ~v.skip /\ k.tenant = t
    BY <1>1 DEF TenantKeys, Key
  <2> QED BY <2>1 DEF Skipped
<1>2. ASSUME NEW t \in Tenants, CanNotify(tenants[t])
      PROVE  k \notin OnTenant(t, OldVersion(tenants[t]), NewVersion(tenants[t]))
  <2>1. /\ OldVersion(tenants[t]) \in TenantVals[t] \cup {Absent}
        /\ NewVersion(tenants[t]) \in TenantVals[t] \cup {Absent}
    BY <1>2, NotifiedView DEF ViewsOK
  <2> QED BY <1>1, <2>1 DEF OnTenant
<1>3. \A t \in Tenants : Cached(tenants[t]) \in TenantVals[t] \cup {Absent}
  BY ReadTypes
<1>4. \A c, platform : k \notin KeysOfCategory(c, platform)
  BY <1>1, <1>3 DEF KeysOfCategory
<1>5. ASSUME NEW p, NEW d, NEW target, k \in KeysOfDomain(p, d, target) PROVE FALSE
  <2>1. k.tenant # NoTenant
    BY DEF Skipped
  <2>2. PICK t \in Tenants : /\ k = Key(p, t, d) /\ ~Cached(tenants[t]).skip
                             /\ Cached(tenants[t]) # Absent
    BY <1>5, <2>1 DEF KeysOfDomain, Key, Refs
  <2> QED BY <1>3, <2>2 DEF Key, Skipped
<1> QED BY <1>2, <1>4, <1>5 DEF OnCategory, OnResource

\* Nothing is queued, under work, deployed or announced for such a tenant.
SkippedInv ==
    \A k \in Keys : Skipped(k) =>
        /\ k \notin queue.dirty \cup queue.delayed
        /\ \A w \in Workers : Busy(w) => job[w].key # k
        /\ stacks[StackOf(k)] = {} /\ recorded[k] = "none" /\ published[k] = "none"

LEMMA SkippedStep ==
    ASSUME StacksAreDistinct, TypeOK, SkippedInv, [Next]_vars
    PROVE  SkippedInv'
<1>1. /\ ViewsOK /\ ControlOK /\ OutsideOK
      /\ queue \in QueueOver(Keys) /\ job \in [Workers -> Jobs]
  BY DEF TypeOK, ControlOK
<1>2. ASSUME UNCHANGED <<job, stackVars>>,
             \A k \in Keys : Skipped(k) /\ k \in queue'.dirty \cup queue'.delayed =>
                                k \in queue.dirty \cup queue.delayed
      PROVE  SkippedInv'
  BY <1>2 DEF SkippedInv, Skipped, Busy, stackVars
<1>3. CASE Edit \/ Observe
  <2>1. UNCHANGED <<queue, job, stackVars>>
    BY <1>3 DEF Edit, EditTenant, EditCategory, EditResource, EditPlatform, Observe
  <2> QED BY <1>2, <2>1
<1>4. CASE Handle
  <2>1. \E keys : /\ queue' = AddAll(queue, keys) /\ UNCHANGED <<job, stackVars>>
                  /\ \A k \in Keys : Skipped(k) => k \notin keys
    BY <1>1, <1>4, NoKeyIsSkipped DEF Handle, HandleTenant, HandleCategory, HandleResource
  <2> QED BY <1>1, <1>2, <2>1 DEF AddAll, QueueOver
<1>5. CASE StartWorkers \/ Restart \/ \E k \in queue.delayed : Retry(k)
  <2>1. /\ UNCHANGED <<job, stackVars>>
        /\ queue'.dirty \cup queue'.delayed \subseteq queue.dirty \cup queue.delayed
    BY <1>1, <1>5 DEF StartWorkers, Drain, Restart, Retry, BackoffOver, QueueOver
  <2> QED BY <1>2, <2>1
<1>6. CASE Crash
  BY <1>6 DEF Crash, EmptyQueue, Idle, Busy, SkippedInv, Skipped, stackVars
<1>7. ASSUME NEW w \in Workers, NEW l \in Ready(queue), Take(w, l) PROVE SkippedInv'
  <2>1. /\ job'[w].key = l /\ l \in queue.dirty /\ UNCHANGED stackVars
        /\ \A v \in Workers \ {w} : job'[v] = job[v]
        /\ queue'.dirty \subseteq queue.dirty /\ queue'.delayed = queue.delayed
    BY <1>1, <1>7 DEF Take, Get, Ready, Idle, QueueOver
  <2> QED BY <2>1 DEF SkippedInv, Skipped, Busy, stackVars
<1>8. ASSUME NEW w \in Workers, Finish(w) PROVE SkippedInv'
  <2>1. /\ Busy(w) /\ ~Busy(w)' /\ UNCHANGED stackVars
        /\ \A v \in Workers \ {w} : job'[v] = job[v]
        /\ queue'.dirty = queue.dirty
        /\ queue'.delayed \subseteq queue.delayed \cup {job[w].key}
    BY <1>1, <1>8 DEF Finish, Done, AddRateLimited, Idle, Busy, QueueOver
  <2> QED BY <2>1 DEF SkippedInv, Skipped, Busy, stackVars
<1>9. ASSUME NEW w \in Workers,
             \/ ReadTarget(w) \/ List(w) \/ Apply(w) \/ ProvisionSucceeds(w) \/ Migrate(w)
             \/ Publish(w) \/ Fail(w)
      PROVE  SkippedInv'
  <2>1. /\ Busy(w) /\ job'[w].key = job[w].key /\ UNCHANGED queue
        /\ \A v \in Workers \ {w} : job'[v] = job[v]
    BY <1>1, <1>9, WorkerKeeps
  <2>2. \A k \in Keys : k # job[w].key =>
            /\ stacks'[StackOf(k)] = stacks[StackOf(k)]
            /\ recorded'[k] = recorded[k] /\ published'[k] = published[k]
    BY <1>9, WorkersKeepApart
  <2> QED BY <2>1, <2>2 DEF SkippedInv, Skipped, Busy
<1>10. CASE UNCHANGED vars
  BY <1>2, <1>10 DEF vars
<1> QED BY <1>3, <1>4, <1>5, <1>6, <1>7, <1>8, <1>9, <1>10 DEF Next, Work

(* A tenant that always carries the label is left alone, if keys have stacks*)
(* of their own and no earlier incarnation deployed anything for it.       *)
THEOREM SkippedTenantsAreUntouched ==
    ASSUME StacksAreDistinct, ~WarmStart
    PROVE  Spec => []SkippedIsUntouched
<1>1. Init => SkippedInv
  BY KeyTypes DEF Init, SkippedInv, EmptyQueue, Idle, Busy
<1>2. TypeOK /\ SkippedInv /\ [Next]_vars => SkippedInv'
  BY SkippedStep
<1>3. SkippedInv => SkippedIsUntouched
  BY DEF SkippedInv, SkippedIsUntouched, Skipped
<1> QED BY <1>1, <1>2, <1>3, TypesAreCorrect, PTL DEF Spec

-----------------------------------------------------------------------------
(* A controller that nothing interrupts *)

\* What a worker has read of its target fits its key.
TargetsOK ==
    \A w \in Workers :
        /\ job[w].pc = "read" => job[w].items = {}
        /\ job[w].pc \in {"list", "provision"} =>
             IF job[w].key.tenant = NoTenant THEN job[w].target = PlatformTarget
             ELSE \/ job[w].target \in TenantVals[job[w].key.tenant]
                  \/ job[w].target = Absent /\ job[w].items = {}

LEMMA TargetsStep ==
    ASSUME TypeOK, TargetsOK, [Next]_vars
    PROVE  TargetsOK'
<1>1. /\ ViewsOK /\ ControlOK /\ job \in [Workers -> Jobs]
      /\ \A w \in Workers : job[w] \in Jobs /\ job[w].key \in Keys
  BY DEF TypeOK, ControlOK, Jobs
<1>2. CASE UNCHANGED job
  BY <1>2 DEF TargetsOK
<1>3. CASE Crash
  BY <1>3 DEF Crash, Idle, TargetsOK
<1>4. ASSUME NEW w \in Workers, \A v \in Workers \ {w} : job'[v] = job[v],
             job'[w].pc \notin {"read", "list", "provision"}
      PROVE  TargetsOK'
  BY <1>4 DEF TargetsOK
<1>5. ASSUME NEW w \in Workers, NEW k, Take(w, k) PROVE TargetsOK'
  <2>1. /\ job'[w].pc = "read" /\ job'[w].items = {}
        /\ \A v \in Workers \ {w} : job'[v] = job[v]
    BY <1>1, <1>5 DEF Take, Idle
  <2> QED BY <2>1 DEF TargetsOK
<1>6. ASSUME NEW w \in Workers, ReadTarget(w) PROVE TargetsOK'
  <2> DEFINE k == job[w].key
  <2>1. /\ \A v \in Workers \ {w} : job'[v] = job[v]
        /\ job'[w].key = k /\ job'[w].items = {}
    BY <1>1, <1>6 DEF ReadTarget, TargetsOK, Jobs
  <2>2. k.tenant # NoTenant => Live(tenants[k.tenant]) \in TenantVals[k.tenant] \cup {Absent}
    BY <1>1, ReadTypes DEF Keys
  <2>3. CASE k.tenant = NoTenant
    <3>1. job'[w].target = PlatformTarget /\ job'[w].pc # "read"
      BY <1>1, <1>6, <2>3 DEF ReadTarget, Jobs
    <3> QED BY <2>1, <2>3, <3>1 DEF TargetsOK
  <2>4. CASE k.tenant # NoTenant
    <3>1. /\ job'[w].target \in TenantVals[k.tenant] \cup {Absent}
          /\ job'[w].pc # "read"
      BY <1>1, <1>6, <2>2, <2>4 DEF ReadTarget, Refs, Jobs
    <3> QED BY <2>1, <2>4, <3>1 DEF TargetsOK
  <2> QED BY <2>3, <2>4
<1>7. ASSUME NEW w \in Workers, List(w) PROVE TargetsOK'
  <2>1. /\ \A v \in Workers \ {w} : job'[v] = job[v]
        /\ job'[w].key = job[w].key /\ job'[w].target = job[w].target
        /\ job'[w].pc \in {"provision", "done"} /\ job[w].pc = "list"
    BY <1>1, <1>7 DEF List, Jobs
  <2>2. job[w].target # Absent
    BY <1>1, <2>1 DEF ControlOK
  <2> QED BY <2>1, <2>2 DEF TargetsOK
<1>8. ASSUME NEW w \in Workers, Apply(w) PROVE TargetsOK'
  <2>1. /\ \A v \in Workers \ {w} : job'[v] = job[v]
        /\ job'[w].key = job[w].key /\ job'[w].target = job[w].target
        /\ job'[w].items = job[w].items /\ job'[w].pc = job[w].pc
    BY <1>1, <1>8 DEF Apply, Jobs
  <2> QED BY <2>1 DEF TargetsOK
<1>9. ASSUME NEW w \in Workers,
             ProvisionSucceeds(w) \/ Migrate(w) \/ Publish(w) \/ Finish(w) \/ Fail(w)
      PROVE  TargetsOK'
  <2>1. /\ \A v \in Workers \ {w} : job'[v] = job[v]
        /\ job'[w].pc \notin {"read", "list", "provision"}
    BY <1>1, <1>9 DEF ProvisionSucceeds, Migrate, Publish, Finish, Idle, Fail, ReadFails,
       ProvisionFails, MigrationFails, Jobs
  <2> QED BY <1>4, <2>1
<1>10. CASE \/ Edit \/ Observe \/ Handle \/ StartWorkers \/ Restart \/ UNCHANGED vars
            \/ \E k \in queue.delayed : Retry(k)
  <2>1. UNCHANGED job
    BY <1>1, <1>10, OthersHold DEF Restart, vars
  <2> QED BY <1>2, <2>1
<1> QED BY <1>3, <1>5, <1>6, <1>7, <1>8, <1>9, <1>10 DEF Next, Work

LEMMA NothingCrashes == TypeOK /\ MaxCrashes = 0 => ~Crash
BY DEF TypeOK, OutsideOK, Crash

\* No update and no migration fails; reads may.
NoUpdateFails == \A w \in Workers : ~ProvisionFails(w) /\ ~MigrationFails(w)

\* A stack whose migrations have not run since it changed is gone, or its
\* worker will run them.
MigratedInv ==
    \A k \in TenantKeySet :
        StackOf(k) \in unmigrated /\ stacks[StackOf(k)] # {} =>
            \E w \in Workers : /\ job[w].key = k
                               /\ \/ job[w].pc = "migrate"
                                  \/ job[w].pc = "provision" /\ job[w].changed

\* No tenant is ever disabled: only the enabled are migrated.
AllEnabled == \A t \in Tenants : \A v \in TenantVals[t] : v.enabled

LEMMA MigratedStep ==
    ASSUME StacksAreDistinct, MaxCrashes = 0, AllEnabled,
           TypeOK, TargetsOK, MigratedInv, [Next]_vars, [NoUpdateFails]_vars
    PROVE  MigratedInv'
<1>1. /\ ControlOK /\ OutsideOK /\ job \in [Workers -> Jobs]
      /\ \A w \in Workers : job[w] \in Jobs /\ job[w].key \in Keys
      /\ \A k \in Keys : StackOf(k) \in Stacks
  BY KeyTypes DEF TypeOK, ControlOK, Jobs
<1>2. CASE UNCHANGED <<job, stackVars>>
  BY <1>2 DEF MigratedInv, stackVars
<1>3. CASE \/ Edit \/ Observe \/ Handle \/ StartWorkers \/ Restart \/ UNCHANGED vars
           \/ \E k \in queue.delayed : Retry(k)
  <2>1. UNCHANGED stackVars
    BY <1>3 DEF Edit, EditTenant, EditCategory, EditResource, EditPlatform, Observe, Handle,
       HandleTenant, HandleCategory, HandleResource, StartWorkers, Retry, Restart, vars
  <2>2. UNCHANGED job
    BY <1>1, <1>3, OthersHold DEF Restart, vars
  <2> QED BY <1>2, <2>1, <2>2
\* A worker that is not about to run the migrations has no part in this.
<1>4. ASSUME NEW w \in Workers, UNCHANGED stackVars, \A v \in Workers \ {w} : job'[v] = job[v],
             job[w].pc \notin {"provision", "migrate"}
      PROVE  MigratedInv'
  BY <1>4 DEF MigratedInv, stackVars
<1>5. ASSUME NEW w \in Workers,
             \/ (\E k \in Ready(queue) : Take(w, k)) \/ ReadTarget(w) \/ List(w) \/ Finish(w)
             \/ ReadFails(w)
      PROVE  MigratedInv'
  <2>1. /\ UNCHANGED stackVars /\ \A v \in Workers \ {w} : job'[v] = job[v]
        /\ job[w].pc \notin {"provision", "migrate"}
    BY <1>1, <1>5 DEF Take, ReadTarget, List, Finish, ReadFails
  <2> QED BY <1>4, <2>1
<1>6. ASSUME NEW w \in Workers, Apply(w) PROVE MigratedInv'
  <2>1. /\ job'[w].key = job[w].key /\ job'[w].pc = "provision" /\ job'[w].changed
        /\ \A v \in Workers \ {w} : job'[v] = job[v]
        /\ unmigrated' = unmigrated \cup {StackOf(job[w].key)}
    BY <1>1, <1>6 DEF Apply, Jobs
  <2>2. \A k \in TenantKeySet : k # job[w].key =>
            /\ stacks'[StackOf(k)] = stacks[StackOf(k)]
            /\ StackOf(k) \in unmigrated' => StackOf(k) \in unmigrated
    BY <1>1, <1>6, <2>1, WorkersKeepApart, TenantKeysAreKeys DEF StacksAreDistinct
  <2> QED BY <2>1, <2>2 DEF MigratedInv
<1>7. ASSUME NEW w \in Workers, ProvisionSucceeds(w) PROVE MigratedInv'
  <2>1. /\ UNCHANGED stackVars /\ \A v \in Workers \ {w} : job'[v] = job[v]
        /\ job[w].pc = "provision" /\ stacks[StackOf(job[w].key)] = job[w].items
        /\ job'[w].key = job[w].key
    BY <1>1, <1>7 DEF ProvisionSucceeds, Jobs
  <2>2. ASSUME job[w].key \in TenantKeySet, stacks[StackOf(job[w].key)] # {}, job[w].changed
        PROVE  job'[w].pc = "migrate"
    <3>1. job[w].key.tenant \in Tenants /\ job[w].key.tenant # NoTenant
      BY <2>2, TenantKeysAreKeys, NamesAssumption
    <3>2. job[w].target \in TenantVals[job[w].key.tenant]
      BY <2>1, <2>2, <3>1 DEF TargetsOK
    <3>3. job[w].target.enabled /\ job[w].target # Absent /\ job[w].target # PlatformTarget
      BY <3>1, <3>2, VersionsAreSpecs, NamesAssumption DEF PlatformTarget, AllEnabled
    <3> QED BY <1>1, <1>7, <2>2, <3>3 DEF ProvisionSucceeds
  <2> QED BY <2>1, <2>2 DEF MigratedInv, stackVars
<1>8. ASSUME NEW w \in Workers, Migrate(w) PROVE MigratedInv'
  <2>1. /\ UNCHANGED stacks /\ \A v \in Workers \ {w} : job'[v] = job[v]
        /\ unmigrated' = unmigrated \ {StackOf(job[w].key)}
    BY <1>1, <1>8 DEF Migrate
  <2> QED BY <2>1 DEF MigratedInv
<1>9. ASSUME NEW w \in Workers, Publish(w) PROVE MigratedInv'
  <2>1. /\ UNCHANGED <<stacks, unmigrated>> /\ \A v \in Workers \ {w} : job'[v] = job[v]
        /\ job[w].pc = "publish"
    BY <1>1, <1>9 DEF Publish
  <2> QED BY <2>1 DEF MigratedInv
<1>10. ASSUME NEW w \in Workers, ProvisionFails(w) \/ MigrationFails(w) PROVE MigratedInv'
  <2>1. vars' # vars
    BY <1>10 DEF TypeOK, OutsideOK, ProvisionFails, MigrationFails, Spend, vars
  <2> QED BY <1>10, <2>1 DEF NoUpdateFails
<1> QED BY <1>3, <1>5, <1>6, <1>7, <1>8, <1>9, <1>10, NothingCrashes DEF Next, Work, Fail

-----------------------------------------------------------------------------
(* Where a stack comes to rest *)

\* An event is to come of a version of the tenant that asks for the domain.
AskPending(k) == \E v \in Versions(tenants[k.tenant]) : Refs(v, k)

PlatformPending(k) ==
    \E r \in Resources :
        /\ ~UpToDate(resources[r])
        /\ \E v \in Versions(resources[r]) : InTarget(v, k.platform, k.domain, "Platform")

\* Nobody asks for a domain of a tenant, or a platform's resources stay as
\* they are ...
Still(k) == IF k.tenant = NoTenant THEN k.platform \in platforms /\ ~PlatformPending(k)
            ELSE ~AskPending(k)

\* ... and then this is what the stack should hold.
Aim(k) == IF k.tenant = NoTenant THEN PlatformItems(k, LiveResources) ELSE {}

AimedJob(k, w) ==
    LET j == job[w]
    IN  /\ j.pc = "list" => k.tenant = NoTenant
        /\ j.pc = "provision" => /\ j.items = Aim(k)
                                 /\ k.tenant # NoTenant => j.target = Absent
        /\ j.pc \in {"migrate", "publish", "done"} => stacks[StackOf(k)] = Aim(k)

RestInv ==
    \A k \in TenantKeySet \cup PlatformKeySet : Still(k) /\ k \notin queue.dirty =>
        /\ \A w \in Workers : Busy(w) /\ job[w].key = k => AimedJob(k, w)
        /\ k \notin queue.processing \cup queue.delayed => stacks[StackOf(k)] = Aim(k)

LEMMA RestKeys ==
    ASSUME NEW k \in TenantKeySet \cup PlatformKeySet
    PROVE  /\ k \in Keys /\ k.platform \in Platforms /\ k.domain \in Domains
           /\ k = Key(k.platform, k.tenant, k.domain)
           /\ k \in TenantKeySet => k.tenant \in Tenants /\ k.tenant # NoTenant
                                    /\ k.tenant \in Unskipped
           /\ k \in PlatformKeySet => k.tenant = NoTenant
<1>1. CASE k \in TenantKeySet
  BY <1>1, TenantKeysAreKeys, NamesAssumption DEF PlatformKeySet
<1>2. CASE k \in PlatformKeySet
  BY <1>2, NamesAssumption DEF PlatformKeySet, Keys, Key, PlatformRefs, TenantKeySet, Unskipped
<1> QED BY <1>1, <1>2

(* The items of a platform's stack depend on the resources of its domain    *)
(* only.                                                                    *)
LEMMA PlatformItemsDepend ==
    ASSUME NEW k, NEW ress, NEW newRess,
           \A r \in Resources :
                \/ newRess[r] = ress[r]
                \/ /\ ~InTarget(ress[r], k.platform, k.domain, "Platform")
                   /\ ~InTarget(newRess[r], k.platform, k.domain, "Platform")
    PROVE  PlatformItems(k, newRess) = PlatformItems(k, ress)
<1> DEFINE Selected(rs) ==
        {s \in Resources : InTarget(rs[s], k.platform, k.domain, "Platform")}
<1>1. Selected(newRess) = Selected(ress) /\ \A r \in Selected(ress) : newRess[r] = ress[r]
  OBVIOUS
<1>2. \A rs : PlatformItems(k, rs) = {ForPlatform(r, rs[r]) : r \in Selected(rs)}
  BY DEF PlatformItems
<1> HIDE DEF Selected
<1> QED BY <1>1, <1>2

\* A step that leaves alone where the stack of k comes to rest.
Steady(k) == Still(k) /\ Aim(k)' = Aim(k)

(* A resource's view changes, and no version that is lost is of k.          *)
LEMMA ResourceSteady ==
    ASSUME ViewsOK, NEW k \in PlatformKeySet, Still(k)', UNCHANGED platforms,
           NEW r \in Resources, \A q \in Resources : q # r => resources'[q] = resources[q],
           \/ Live(resources'[r]) = Live(resources[r])
           \/ /\ ~InTarget(Live(resources[r]), k.platform, k.domain, "Platform")
              /\ ~InTarget(Live(resources'[r]), k.platform, k.domain, "Platform"),
           ~UpToDate(resources[r]) =>
             \A v \in Versions(resources[r]) :
               InTarget(v, k.platform, k.domain, "Platform") =>
                 ~UpToDate(resources'[r]) /\ v \in Versions(resources'[r])
    PROVE  Steady(k)
<1>1. k.tenant = NoTenant
  BY RestKeys
<1>2. ~PlatformPending(k)
  <2> SUFFICES ASSUME NEW q \in Resources, ~UpToDate(resources[q]), NEW v \in Versions(resources[q]),
                      InTarget(v, k.platform, k.domain, "Platform")
               PROVE  PlatformPending(k)'
    BY <1>1 DEF Still, PlatformPending
  <2>1. ~UpToDate(resources'[q]) /\ v \in Versions(resources'[q])
    OBVIOUS
  <2> QED BY <2>1 DEF PlatformPending
<1>3. \A q \in Resources :
        \/ LiveResources'[q] = LiveResources[q]
        \/ /\ ~InTarget(LiveResources[q], k.platform, k.domain, "Platform")
           /\ ~InTarget(LiveResources'[q], k.platform, k.domain, "Platform")
  BY DEF LiveResources
<1>4. Aim(k)' = Aim(k)
  BY <1>1, <1>3, PlatformItemsDepend DEF Aim
<1> QED BY <1>1, <1>2, <1>4 DEF Steady, Still

(* Views of a tenant change, and no version that is lost asked for k.       *)
LEMMA TenantSteady ==
    ASSUME NEW k \in TenantKeySet, Still(k)',
           \A v \in Versions(tenants[k.tenant]) :
                Refs(v, k) => v \in Versions(tenants'[k.tenant])
    PROVE  Steady(k)
<1>1. k.tenant # NoTenant
  BY RestKeys
<1>2. ~AskPending(k)
  BY <1>1 DEF Still, AskPending
<1> QED BY <1>1, <1>2 DEF Steady, Still, Aim

LEMMA EditSteady ==
    ASSUME ViewsOK, ViewsOK', phase # "down", ~PlatformsMayChange, Edit,
           NEW k \in TenantKeySet \cup PlatformKeySet, Still(k)'
    PROVE  Steady(k)
<1>1. ASSUME NEW t \in Tenants, NEW v \in TenantVals[t] \cup {Absent}, EditTenant(t, v)
      PROVE  Steady(k)
  <2>1. tenants' = [tenants EXCEPT ![t] = Written(tenants[t], v)] /\ v # Live(tenants[t])
    BY <1>1 DEF EditTenant, Write
  <2>2. ASSUME NEW u \in Tenants PROVE Versions(tenants[u]) \subseteq Versions(tenants'[u])
    <3>1. CASE u = t
      <4>1. tenants[t] \in ViewOf(TenantVals[t] \cup {Absent}) /\ WellFormed(tenants[t])
        BY DEF ViewsOK
      <4>2. Versions(Written(tenants[t], v)) = Versions(tenants[t]) \cup {v}
        BY <2>1, <4>1, WrittenView
      <4> QED BY <2>1, <3>1, <4>2 DEF ViewsOK
    <3>2. CASE u # t
      BY <2>1, <3>2 DEF ViewsOK
    <3> QED BY <3>1, <3>2
  <2>3. UNCHANGED <<platforms, resources>>
    BY <1>1 DEF EditTenant
  <2>4. CASE k \in TenantKeySet
    BY <2>2, <2>4, TenantSteady, RestKeys
  <2>5. CASE k \in PlatformKeySet
    BY <2>3, <2>5, RestKeys DEF Steady, Still, PlatformPending, Aim, LiveResources
  <2> QED BY <2>4, <2>5
<1>2. ASSUME NEW r \in Resources, NEW v \in ResourceVals \cup {Absent}, EditResource(r, v)
      PROVE  Steady(k)
  <2>1. resources' = [resources EXCEPT ![r] = Written(resources[r], v)] /\ v # Live(resources[r])
    BY <1>2 DEF EditResource, Write
  <2>2. UNCHANGED <<platforms, tenants>>
    BY <1>2 DEF EditResource
  <2>3. /\ resources'[r] = Written(resources[r], v) /\ ~UpToDate(resources'[r])
        /\ Live(resources'[r]) = v /\ Live(resources[r]) \in Versions(resources[r])
        /\ Versions(resources'[r]) = Versions(resources[r]) \cup {v}
    BY <2>1, WrittenView, ReadsAreVersions DEF ViewsOK
  <2>4. \A q \in Resources : q # r => resources'[q] = resources[q]
    BY <2>1 DEF ViewsOK
  <2>5. CASE k \in TenantKeySet
    BY <2>2, <2>5, TenantSteady
  <2>6. CASE k \in PlatformKeySet
    <3>1. \A x \in Versions(resources'[r]) : ~InTarget(x, k.platform, k.domain, "Platform")
      BY <2>3, <2>6, RestKeys DEF Still, PlatformPending
    <3> QED BY <2>2, <2>3, <2>4, <2>6, <3>1, ResourceSteady
  <2> QED BY <2>5, <2>6
<1>3. ASSUME NEW c \in Categories, NEW v \in CategoryVals[c] \cup {Absent}, EditCategory(c, v)
      PROVE  Steady(k)
  <2>1. UNCHANGED <<platforms, tenants, resources>>
    BY <1>3 DEF EditCategory
  <2> QED BY <2>1 DEF Steady, Still, AskPending, PlatformPending, Aim, LiveResources
<1> QED BY <1>1, <1>2, <1>3 DEF Edit, EditPlatform

LEMMA ObserveSteady ==
    ASSUME ViewsOK, Observe, NEW k \in TenantKeySet \cup PlatformKeySet, Still(k)'
    PROVE  Steady(k)
<1>1. UNCHANGED platforms
  BY DEF Observe
<1>2. ASSUME NEW t \in Tenants, CanObserve(tenants[t]),
             tenants' = [tenants EXCEPT ![t] = Observed(@)], UNCHANGED resources
      PROVE  Steady(k)
  <2>1. \A u \in Tenants : Versions(tenants'[u]) = Versions(tenants[u])
    BY <1>2, ObservedView DEF ViewsOK
  <2>2. CASE k \in TenantKeySet
    BY <2>1, <2>2, TenantSteady, RestKeys
  <2>3. CASE k \in PlatformKeySet
    BY <1>1, <1>2, <2>3, RestKeys DEF Steady, Still, PlatformPending, Aim, LiveResources
  <2> QED BY <2>2, <2>3
<1>3. ASSUME NEW r \in Resources, CanObserve(resources[r]),
             resources' = [resources EXCEPT ![r] = Observed(@)], UNCHANGED tenants
      PROVE  Steady(k)
  <2>1. \A q \in Resources : /\ Live(resources'[q]) = Live(resources[q])
                             /\ UpToDate(resources'[q]) = UpToDate(resources[q])
                             /\ Versions(resources'[q]) = Versions(resources[q])
    BY <1>3, ObservedView DEF ViewsOK
  <2>2. CASE k \in TenantKeySet
    BY <1>3, <2>2, TenantSteady
  <2>3. CASE k \in PlatformKeySet
    <3>1. \A q \in Resources : q # r => resources'[q] = resources[q]
      BY <1>3 DEF ViewsOK
    <3> QED BY <1>1, <2>1, <2>3, <3>1, ResourceSteady
  <2> QED BY <2>2, <2>3
<1>4. CASE UNCHANGED <<tenants, resources>>
  BY <1>1, <1>4 DEF Steady, Still, AskPending, PlatformPending, Aim, LiveResources
<1> QED BY <1>2, <1>3, <1>4 DEF Observe

(* The handler of an event of a tenant enqueues the domains either version  *)
(* asks for.                                                                *)
LEMMA AskWakes ==
    ASSUME NEW k \in TenantKeySet,
           NEW old \in TenantVals[k.tenant] \cup {Absent},
           NEW new \in TenantVals[k.tenant] \cup {Absent}, Refs(old, k)
    PROVE  k \in OnTenant(k.tenant, old, new) \/ Refs(new, k)
<1>1. old \in TenantVals[k.tenant]
  BY DEF Refs
<1>2. /\ k \in TenantKeys(k.tenant, old) /\ ~old.skip
      /\ old.platform # NoPlatform /\ old # Absent
  BY <1>1, TenantKeysHasKey
<1>3. CASE new # Absent /\ SameSpec(old, new)
  <2>1. new \in TenantVals[k.tenant] /\ ~new.skip /\ k.tenant \in Tenants
    BY <1>3, RestKeys DEF Unskipped
  <2>2. old = new
    BY <1>1, <1>2, <1>3, <2>1, SameSpecs, VersionsAreSpecs
  <2> QED BY <2>2
<1>4. CASE ~(new # Absent /\ SameSpec(old, new))
  BY <1>2, <1>4 DEF OnTenant
<1> QED BY <1>3, <1>4

LEMMA HandleSteady ==
    ASSUME ViewsOK, ControlOK, Handle, NEW k \in TenantKeySet \cup PlatformKeySet,
           Still(k)', k \notin queue'.dirty
    PROVE  Steady(k)
<1>1. ASSUME NEW t \in Tenants, HandleTenant(t) PROVE Steady(k)
  <2> DEFINE view == tenants[t]
             old  == OldVersion(view)
             new  == NewVersion(view)
  <2>1. /\ OnTenant(t, old, new) \subseteq queue'.dirty /\ UNCHANGED <<platforms, resources>>
        /\ tenants' = [tenants EXCEPT ![t] = Notified(view)] /\ CanNotify(view)
    BY <1>1, AddAllAdds DEF HandleTenant
  <2>2. /\ old \in TenantVals[t] \cup {Absent} /\ new \in TenantVals[t] \cup {Absent}
        /\ Versions(view) = {old} \cup Versions(Notified(view))
        /\ new \in Versions(Notified(view))
    <3>1. view \in ViewOf(TenantVals[t] \cup {Absent}) /\ WellFormed(view)
      BY DEF ViewsOK
    <3> QED BY <2>1, <3>1, NotifiedView
  <2>3. CASE k \in TenantKeySet
    <3>1. CASE k.tenant = t
      <4>1. tenants'[t] = Notified(view)
        BY <2>1 DEF ViewsOK
      <4>2. ASSUME Refs(old, k) PROVE FALSE
        <5>1. Refs(new, k)
          BY <2>1, <2>2, <2>3, <3>1, <4>2, AskWakes
        <5> QED BY <2>2, <2>3, <3>1, <4>1, <5>1, RestKeys DEF Still, AskPending
      <4> QED BY <2>2, <2>3, <3>1, <4>1, <4>2, TenantSteady
    <3>2. CASE k.tenant # t
      BY <2>1, <2>3, <3>2, TenantSteady
    <3> QED BY <3>1, <3>2
  <2>4. CASE k \in PlatformKeySet
    BY <2>1, <2>4, RestKeys DEF Steady, Still, PlatformPending, Aim, LiveResources
  <2> QED BY <2>3, <2>4
<1>2. ASSUME NEW c \in Categories, HandleCategory(c) PROVE Steady(k)
  BY <1>2 DEF HandleCategory, Steady, Still, AskPending, PlatformPending, Aim, LiveResources
<1>3. ASSUME NEW r \in Resources, HandleResource(r) PROVE Steady(k)
  <2> DEFINE view == resources[r]
             old  == OldVersion(view)
             new  == NewVersion(view)
  <2>1. /\ OnResource(old, new) \subseteq queue'.dirty /\ UNCHANGED <<platforms, tenants>>
        /\ resources' = [resources EXCEPT ![r] = Notified(view)] /\ CanNotify(view)
    BY <1>3, AddAllAdds DEF HandleResource
  <2>2. /\ resources'[r] = Notified(view)
        /\ \A q \in Resources : q # r => resources'[q] = resources[q]
    BY <2>1 DEF ViewsOK
  <2>3. /\ Versions(view) = {old} \cup Versions(Notified(view))
        /\ Live(Notified(view)) = Live(view)
        /\ UpToDate(Notified(view)) => Versions(Notified(view)) = {new}
    <3>1. view \in ViewOf(ResourceVals \cup {Absent}) /\ WellFormed(view)
      BY DEF ViewsOK
    <3>2. UpToDate(Notified(view)) => Versions(Notified(view)) = {Live(view)} /\ new = Live(view)
      BY <2>1, <3>1, NotifiedView
    <3> QED BY <2>1, <3>1, <3>2, NotifiedView
  <2>4. CASE k \in TenantKeySet
    BY <2>1, <2>4, TenantSteady
  <2>5. CASE k \in PlatformKeySet
    <3>1. ASSUME NEW v \in {old, new}, InTarget(v, k.platform, k.domain, "Platform") PROVE FALSE
      <4>1. /\ v # Absent /\ v.platform = k.platform /\ v.domain = k.domain
            /\ v.target = "Platform" /\ v.platform # NoPlatform /\ v.domain # NoDomain
        BY <3>1, RestKeys, NamesAssumption DEF InTarget
      <4>2. k \in KeysOfDomain(k.platform, k.domain, "Platform")
        BY <2>5, RestKeys DEF KeysOfDomain
      <4>3. k \in OnResource(old, new)
        BY <4>1, <4>2 DEF OnResource
      <4> QED BY <2>1, <4>3
    <3>2. ASSUME NEW v \in Versions(view), InTarget(v, k.platform, k.domain, "Platform")
          PROVE  ~UpToDate(Notified(view)) /\ v \in Versions(Notified(view))
      BY <2>3, <3>1, <3>2
    <3> QED BY <2>1, <2>2, <2>3, <2>5, <3>2, ResourceSteady
  <2> QED BY <2>4, <2>5
<1> QED BY <1>1, <1>2, <1>3 DEF Handle

\* Steps of anybody but the workers.
LEMMA OthersRest ==
    ASSUME TypeOK, ViewsOK', RestInv, phase # "down", ~PlatformsMayChange,
           ~SkipInitialReconcile,
           \/ Edit \/ Observe \/ Handle \/ StartWorkers
           \/ \E k \in queue.delayed : Retry(k)
    PROVE  RestInv'
<1>1. ViewsOK /\ ControlOK /\ queue \in QueueOver(Keys)
  BY DEF TypeOK, ControlOK
<1>2. /\ job' = job /\ queue'.processing = queue.processing /\ stacks' = stacks
  BY <1>1, OthersHold DEF Edit, EditTenant, EditCategory, EditResource, EditPlatform,
     Observe, Handle, HandleTenant, HandleCategory, HandleResource, StartWorkers, Retry,
     stackVars
<1>3. /\ queue.dirty \subseteq queue'.dirty
      /\ queue.delayed \subseteq queue'.delayed \cup queue'.dirty
  <2>1. CASE Edit \/ Observe \/ StartWorkers
    BY <2>1 DEF Edit, EditTenant, EditCategory, EditResource, EditPlatform, Observe, StartWorkers
  <2>2. CASE Handle
    BY <1>1, <2>2, AddAllAdds DEF Handle, HandleTenant, HandleCategory, HandleResource
  <2>3. CASE \E k \in queue.delayed : Retry(k)
    BY <1>1, <2>3 DEF Retry, BackoffOver, QueueOver
  <2> QED BY <2>1, <2>2, <2>3
<1>4. ASSUME NEW k \in TenantKeySet \cup PlatformKeySet, Still(k)', k \notin queue'.dirty
      PROVE  Steady(k)
  <2>1. CASE Edit \/ Observe \/ Handle
    BY <1>1, <1>4, <2>1, EditSteady, ObserveSteady, HandleSteady
  <2>2. CASE UNCHANGED apiVars
    BY <1>4, <2>2 DEF apiVars, Steady, Still, AskPending, PlatformPending, Aim, LiveResources
  <2> QED BY <2>1, <2>2 DEF StartWorkers, Retry
<1> SUFFICES ASSUME NEW k \in TenantKeySet \cup PlatformKeySet, Still(k)', k \notin queue'.dirty
             PROVE  /\ \A w \in Workers : Busy(w)' /\ job'[w].key = k => AimedJob(k, w)'
                    /\ k \notin queue'.processing \cup queue'.delayed =>
                          stacks'[StackOf(k)] = Aim(k)'
  BY DEF RestInv
<1>5. Still(k) /\ Aim(k)' = Aim(k) /\ k \notin queue.dirty
  BY <1>3, <1>4 DEF Steady
<1> QED BY <1>2, <1>3, <1>5 DEF RestInv, AimedJob, Busy

\* What a worker changes of the cluster it only reads is nothing.
LEMMA WorkersSteady ==
    ASSUME UNCHANGED apiVars, NEW k
    PROVE  Still(k)' = Still(k) /\ Aim(k)' = Aim(k)
BY DEF apiVars, Still, AskPending, PlatformPending, Aim, LiveResources

(* The lists of a platform that is still are the API server's.              *)
LEMMA ListedIsAim ==
    ASSUME ViewsOK, NEW k \in PlatformKeySet, Still(k)
    PROVE  PlatformItems(k, CachedResources) = Aim(k)
<1>1. k.tenant = NoTenant /\ ~PlatformPending(k)
  BY RestKeys DEF Still
<1>2. ASSUME NEW r \in Resources
      PROVE  \/ CachedResources[r] = LiveResources[r]
             \/ /\ ~InTarget(LiveResources[r], k.platform, k.domain, "Platform")
                /\ ~InTarget(CachedResources[r], k.platform, k.domain, "Platform")
  <2>1. /\ LiveResources[r] \in Versions(resources[r])
        /\ CachedResources[r] \in Versions(resources[r])
        /\ UpToDate(resources[r]) => CachedResources[r] = LiveResources[r]
    BY ReadsAreVersions DEF ViewsOK, CachedResources, LiveResources
  <2> QED BY <1>1, <2>1 DEF PlatformPending
<1> QED BY <1>1, <1>2, PlatformItemsDepend DEF Aim

\* Reads and migrations may fail, and updates for tenants that ask for the
\* domain; cleanups and updates of a platform's own stacks do not.
OnlyTenantUpdatesFail ==
    \A w \in Workers : ProvisionFails(w) => job[w].target \in TenantSpec

(* A worker on a key that is still works towards where its stack will rest. *)
LEMMA JobStaysAimed ==
    ASSUME TypeOK, TargetsOK, OnlyTenantUpdatesFail, NEW w \in Workers,
           \/ ReadTarget(w) \/ List(w) \/ Apply(w) \/ ProvisionSucceeds(w) \/ Migrate(w)
           \/ Publish(w) \/ Fail(w),
           NEW k \in TenantKeySet \cup PlatformKeySet, k = job[w].key, Still(k), AimedJob(k, w)
    PROVE  AimedJob(k, w)'
<1>1. /\ ViewsOK /\ ControlOK /\ job \in [Workers -> Jobs] /\ job[w] \in Jobs
  BY DEF TypeOK, ControlOK
<1>2. UNCHANGED apiVars /\ Aim(k)' = Aim(k)
  BY <1>1, WorkerKeeps, WorkersSteady
<1>3. CASE ReadTarget(w)
  <2>1. CASE k.tenant = NoTenant
    <3>1. k.platform \in platforms
      BY <2>1 DEF Still
    <3>2. job'[w].pc = "list"
      BY <1>1, <1>3, <2>1, <3>1 DEF ReadTarget, Jobs
    <3> QED BY <2>1, <3>2 DEF AimedJob
  <2>2. CASE k.tenant # NoTenant
    <3>1. k \in TenantKeySet /\ k.tenant \in Tenants
      BY <2>2, RestKeys
    <3>2. ~Refs(Live(tenants[k.tenant]), k)
      BY <1>1, <2>2, <3>1, ReadsAreVersions DEF ViewsOK, Still, AskPending
    <3>3. job'[w].pc = "provision" /\ job'[w].items = {} /\ job'[w].target = Absent
      BY <1>1, <1>3, <2>2, <3>2 DEF ReadTarget, TargetsOK, Jobs
    <3> QED BY <1>2, <2>2, <3>3 DEF AimedJob, Aim
  <2> QED BY <2>1, <2>2
<1>4. CASE List(w)
  <2>1. k \in PlatformKeySet /\ k.tenant = NoTenant
    BY <1>4, RestKeys DEF List, AimedJob
  <2>2. job[w].target = PlatformTarget
    BY <1>4, <2>1 DEF TargetsOK, List
  <2>3. job'[w].pc = "provision" /\ job'[w].items = PlatformItems(k, CachedResources)
    BY <1>1, <1>4, <2>2 DEF List, Jobs
  <2> QED BY <1>1, <1>2, <2>1, <2>3, ListedIsAim DEF AimedJob
<1>5. CASE Apply(w)
  BY <1>1, <1>2, <1>5 DEF Apply, AimedJob, Jobs
<1>6. CASE ProvisionSucceeds(w)
  <2>1. stacks'[StackOf(k)] = Aim(k) /\ job'[w].pc \in {"done", "migrate", "publish"}
    BY <1>1, <1>6 DEF ProvisionSucceeds, AimedJob, stackVars
  <2> QED BY <1>2, <2>1 DEF AimedJob
<1>7. CASE Migrate(w) \/ Publish(w)
  <2>1. stacks[StackOf(k)] = Aim(k) /\ UNCHANGED stacks
    BY <1>7 DEF Migrate, Publish, AimedJob
  <2>2. \E pc \in {"done", "publish"} : job' = [job EXCEPT ![w].pc = pc]
    BY <1>7 DEF Migrate, Publish
  <2>3. job'[w].pc \in {"done", "publish"}
    BY <1>1, <2>2
  <2> QED BY <1>2, <2>1, <2>3 DEF AimedJob
<1>8. CASE ReadFails(w)
  <2>1. job'[w].pc = "retry"
    BY <1>1, <1>8 DEF ReadFails
  <2> QED BY <2>1 DEF AimedJob
<1>9. CASE MigrationFails(w)
  <2>1. stacks'[StackOf(k)] = Aim(k)
    BY <1>9 DEF MigrationFails, AimedJob, stackVars
  <2>2. job'[w].pc = "publish"
    BY <1>1, <1>9 DEF MigrationFails, Jobs
  <2> QED BY <1>2, <2>1, <2>2 DEF AimedJob
<1>10. ~ProvisionFails(w)
  <2>1. ProvisionFails(w) => job[w].target \in {Absent, PlatformTarget}
    BY DEF ProvisionFails, AimedJob, TargetsOK
  <2> QED BY <2>1, VersionsAreSpecs, NamesAssumption DEF OnlyTenantUpdatesFail, PlatformTarget
<1> QED BY <1>3, <1>4, <1>5, <1>6, <1>7, <1>8, <1>9, <1>10 DEF Fail

LEMMA SyncRests ==
    ASSUME StacksAreDistinct, TypeOK, TargetsOK, WorkersHoldKeys, RestInv,
           OnlyTenantUpdatesFail, NEW w \in Workers,
           \/ ReadTarget(w) \/ List(w) \/ Apply(w) \/ ProvisionSucceeds(w) \/ Migrate(w)
           \/ Publish(w) \/ Fail(w)
    PROVE  RestInv'
<1>1. /\ Busy(w) /\ job'[w].key = job[w].key /\ job[w].key \in queue.processing
      /\ \A v \in Workers \ {w} : job'[v] = job[v]
      /\ UNCHANGED <<queue, apiVars>>
  BY WorkerKeeps DEF TypeOK, WorkersHoldKeys
<1> SUFFICES ASSUME NEW k \in TenantKeySet \cup PlatformKeySet, Still(k)', k \notin queue'.dirty
             PROVE  /\ \A v \in Workers : Busy(v)' /\ job'[v].key = k => AimedJob(k, v)'
                    /\ k \notin queue'.processing \cup queue'.delayed =>
                          stacks'[StackOf(k)] = Aim(k)'
  BY DEF RestInv
<1>2. Still(k) /\ k \notin queue.dirty /\ Aim(k)' = Aim(k)
  BY <1>1, WorkersSteady
<1>3. CASE k = job[w].key
  <2>1. AimedJob(k, w)'
    BY <1>1, <1>2, <1>3, JobStaysAimed DEF RestInv
  <2>2. \A v \in Workers \ {w} : Busy(v) => job[v].key # k
    BY <1>1, <1>3 DEF WorkersHoldKeys
  <2> QED BY <1>1, <1>3, <2>1, <2>2 DEF Busy
<1>4. CASE k # job[w].key
  <2>1. stacks'[StackOf(k)] = stacks[StackOf(k)]
    BY <1>4, WorkersKeepApart, RestKeys
  <2>2. ASSUME NEW v \in Workers, Busy(v)', job'[v].key = k PROVE AimedJob(k, v)'
    <3>1. v # w /\ job'[v] = job[v]
      BY <1>1, <1>4, <2>2
    <3>2. AimedJob(k, v)
      BY <1>2, <2>2, <3>1 DEF RestInv, Busy
    <3> QED BY <1>2, <2>1, <3>1, <3>2 DEF AimedJob
  <2>3. k \notin queue'.processing \cup queue'.delayed => stacks'[StackOf(k)] = Aim(k)'
    BY <1>1, <1>2, <2>1 DEF RestInv
  <2> QED BY <2>2, <2>3
<1> QED BY <1>3, <1>4

LEMMA TakeRests ==
    ASSUME TypeOK, TargetsOK, WorkersHoldKeys, RestInv, NEW w \in Workers,
           Finish(w) \/ \E k \in Ready(queue) : Take(w, k)
    PROVE  RestInv'
<1>1. /\ UNCHANGED <<apiVars, stackVars>> /\ \A v \in Workers \ {w} : job'[v] = job[v]
      /\ queue \in QueueOver(Keys) /\ job \in [Workers -> Jobs]
  BY DEF TypeOK, ControlOK, Finish, Take
<1> SUFFICES ASSUME NEW k \in TenantKeySet \cup PlatformKeySet, Still(k)', k \notin queue'.dirty
             PROVE  /\ \A v \in Workers : Busy(v)' /\ job'[v].key = k => AimedJob(k, v)'
                    /\ k \notin queue'.processing \cup queue'.delayed =>
                          stacks'[StackOf(k)] = Aim(k)'
  BY DEF RestInv
<1>2. Still(k) /\ Aim(k)' = Aim(k)
  BY <1>1, WorkersSteady
<1>3. ASSUME NEW v \in Workers, v # w, Busy(v)', job'[v].key = k, k \notin queue.dirty
      PROVE  AimedJob(k, v)'
  <2>1. AimedJob(k, v) /\ job'[v] = job[v]
    BY <1>1, <1>2, <1>3 DEF RestInv, Busy
  <2> QED BY <1>1, <1>2, <2>1 DEF AimedJob, stackVars
<1>4. CASE Finish(w)
  <2>1. /\ Busy(w) /\ ~Busy(w)' /\ queue'.dirty = queue.dirty
        /\ queue'.processing = queue.processing \ {job[w].key}
        /\ queue.delayed \subseteq queue'.delayed
        /\ job[w].pc = "retry" => job[w].key \in queue'.delayed
        /\ job[w].pc \in {"done", "retry"}
    BY <1>1, <1>4 DEF Finish, Done, AddRateLimited, QueueOver, Idle, Busy
  <2>2. ASSUME k = job[w].key, k \notin queue'.delayed PROVE stacks'[StackOf(k)] = Aim(k)'
    BY <1>1, <1>2, <2>1, <2>2 DEF RestInv, AimedJob, stackVars
  <2> QED BY <1>1, <1>2, <1>3, <2>1, <2>2 DEF RestInv, stackVars
<1>5. ASSUME NEW l \in Ready(queue), Take(w, l)
      PROVE  /\ \A v \in Workers : Busy(v)' /\ job'[v].key = k => AimedJob(k, v)'
             /\ k \notin queue'.processing \cup queue'.delayed =>
                   stacks'[StackOf(k)] = Aim(k)'
  <2>1. /\ queue'.dirty = queue.dirty \ {l} /\ queue'.delayed = queue.delayed
        /\ queue'.processing = queue.processing \cup {l} /\ l \notin queue.processing
        /\ job'[w].pc = "read" /\ job'[w].key = l
    BY <1>1, <1>5 DEF Take, Get, Ready, QueueOver, Idle
  <2>2. AimedJob(k, w)'
    BY <2>1 DEF AimedJob
  <2>3. CASE k = l
    <3>1. \A v \in Workers \ {w} : Busy(v) => job[v].key # l
      BY <2>1 DEF WorkersHoldKeys
    <3> QED BY <1>1, <2>1, <2>2, <2>3, <3>1 DEF Busy
  <2>4. CASE k # l
    BY <1>1, <1>2, <1>3, <2>1, <2>2, <2>4 DEF RestInv, stackVars
  <2> QED BY <2>3, <2>4
<1> QED BY <1>4, <1>5

\* Together, for a process that does not crash.
UnbrokenInv == TypeOK /\ WorkersHoldKeys /\ phase # "down" /\ TargetsOK /\ RestInv

LEMMA UnbrokenInit ==
    ASSUME StacksAreDistinct
    PROVE  Init => UnbrokenInv
<1> SUFFICES ASSUME Init PROVE UnbrokenInv
  OBVIOUS
<1>1. TypeOK /\ WorkersHoldKeys /\ phase # "down"
  BY InitTypes, HoldInit DEF Init
<1>2. TargetsOK
  BY DEF Init, TargetsOK, Idle
<1>3. \A w \in Workers : ~Busy(w)
  BY DEF Init, Idle, Busy
<1>4. PICK api \in InitialApi :
        /\ tenants = [t \in Tenants |-> Listed(api.tenants[t])]
        /\ resources = [r \in Resources |-> Listed(api.resources[r])]
        /\ stacks = [s \in Stacks |->
             IF WarmStart
             THEN UNION {Wanted(k, api.tenants[k.tenant], api.categories, api.resources) :
                           k \in {l \in Keys : l.tenant # NoTenant /\ StackOf(l) = s}}
             ELSE {}]
  BY DEF Init
<1>5. ASSUME NEW k \in TenantKeySet \cup PlatformKeySet, Still(k)
      PROVE  stacks[StackOf(k)] = Aim(k)
  <2>1. k \in Keys /\ StackOf(k) \in Stacks
    BY RestKeys, KeyTypes
  <2>2. CASE k \in TenantKeySet
    <3>1. k.tenant \in Tenants /\ k.tenant # NoTenant
      BY <2>2, RestKeys
    <3>2. api.tenants[k.tenant] \in TenantSpec \cup {Absent}
      BY <3>1, InitialAssumption DEF ApiStates
    <3>3. api.tenants[k.tenant] \in Versions(tenants[k.tenant])
      <4>1. /\ Listed(api.tenants[k.tenant]) \in ViewOf(TenantSpec \cup {Absent})
            /\ WellFormed(Listed(api.tenants[k.tenant]))
            /\ Live(Listed(api.tenants[k.tenant])) = api.tenants[k.tenant]
        BY <3>2, ListedView
      <4>2. tenants[k.tenant] = Listed(api.tenants[k.tenant])
        BY <1>4, <3>1
      <4> QED BY <4>1, <4>2, ReadsAreVersions
    <3>4. ~Refs(api.tenants[k.tenant], k)
      BY <1>5, <3>1, <3>3 DEF Still, AskPending
    <3>5. \A l \in Keys : StackOf(l) = StackOf(k) => l = k
      BY <2>1 DEF StacksAreDistinct
    <3>6. Wanted(k, api.tenants[k.tenant], api.categories, api.resources) = {}
      BY <3>4 DEF Wanted
    <3>7. stacks[StackOf(k)] = {}
      BY <1>4, <2>1, <3>5, <3>6
    <3> QED BY <3>1, <3>7 DEF Aim
  <2>3. CASE k \in PlatformKeySet
    <3>1. k.tenant = NoTenant /\ ~PlatformPending(k)
      BY <1>5, <2>3, RestKeys DEF Still
    <3>2. \A l \in Keys : StackOf(l) = StackOf(k) => l.tenant = NoTenant
      BY <2>1, <3>1 DEF StacksAreDistinct
    <3>3. stacks[StackOf(k)] = {}
      BY <1>4, <2>1, <3>2
    <3>4. ASSUME NEW r \in Resources
          PROVE  ~InTarget(LiveResources[r], k.platform, k.domain, "Platform")
      <4>1. api.resources[r] \in ResourceVals \cup {Absent}
        BY InitialAssumption DEF ApiStates
      <4>2. /\ resources[r] = Listed(api.resources[r])
            /\ Live(resources[r]) = api.resources[r]
            /\ Live(resources[r]) # Absent => ~UpToDate(resources[r])
            /\ Live(resources[r]) \in Versions(resources[r])
        <5>1. resources[r] = Listed(api.resources[r])
          BY <1>4
        <5>2. /\ Listed(api.resources[r]) \in ViewOf(ResourceVals \cup {Absent})
              /\ WellFormed(Listed(api.resources[r]))
              /\ Live(Listed(api.resources[r])) = api.resources[r]
              /\ api.resources[r] # Absent => ~UpToDate(Listed(api.resources[r]))
          BY <4>1, ListedView
        <5> QED BY <5>1, <5>2, ReadsAreVersions
      <4> QED BY <3>1, <4>2 DEF PlatformPending, InTarget, LiveResources
    <3>5. PlatformItems(k, LiveResources) = {}
      BY <3>4 DEF PlatformItems
    <3> QED BY <3>1, <3>3, <3>5 DEF Aim
  <2> QED BY <2>2, <2>3
<1> QED BY <1>1, <1>2, <1>3, <1>5 DEF UnbrokenInv, RestInv

\* What the theorems below assume of the constants.
Uninterrupted ==
    /\ StacksAreDistinct /\ ~SkipInitialReconcile /\ ~PlatformsMayChange
    /\ MaxCrashes = 0

LEMMA UnbrokenStep ==
    ASSUME Uninterrupted, UnbrokenInv, [Next]_vars, [OnlyTenantUpdatesFail]_vars
    PROVE  UnbrokenInv'
<1>1. /\ TypeOK /\ WorkersHoldKeys /\ phase # "down" /\ TargetsOK /\ RestInv
      /\ StacksAreDistinct /\ ~SkipInitialReconcile /\ ~PlatformsMayChange
      /\ MaxCrashes = 0
  BY DEF UnbrokenInv, Uninterrupted
<1>2. TypeOK' /\ WorkersHoldKeys' /\ TargetsOK'
  BY <1>1, NextTypes, HoldStep, TargetsStep DEF TypeOK
<1>3. ~Crash /\ ~Restart
  BY <1>1, NothingCrashes DEF Restart
<1>4. phase' # "down" /\ RestInv'
  <2>1. CASE \/ Edit \/ Observe \/ Handle \/ StartWorkers
             \/ \E k \in queue.delayed : Retry(k)
    <3>1. phase' = phase \/ phase' = "running"
      BY <1>1, <2>1, OthersHold DEF TypeOK
    <3> QED BY <1>1, <1>2, <2>1, <3>1, OthersRest DEF TypeOK
  <2>2. ASSUME NEW w \in Workers,
               \/ ReadTarget(w) \/ List(w) \/ Apply(w) \/ ProvisionSucceeds(w) \/ Migrate(w)
               \/ Publish(w) \/ Fail(w)
        PROVE  phase' # "down" /\ RestInv'
    <3>1. CASE OnlyTenantUpdatesFail
      BY <1>1, <2>2, <3>1, SyncRests, WorkerKeeps DEF TypeOK
    <3>2. CASE UNCHANGED vars
      BY <1>1, <3>2, WorkersSteady DEF vars, RestInv, AimedJob, Busy, stackVars
    <3> QED BY <3>1, <3>2
  <2>3. ASSUME NEW w \in Workers, Finish(w) \/ \E k \in Ready(queue) : Take(w, k)
        PROVE  phase' # "down" /\ RestInv'
    BY <1>1, <2>3, TakeRests DEF Finish, Take
  <2>4. CASE UNCHANGED vars
    BY <1>1, <2>4, WorkersSteady DEF vars, RestInv, AimedJob, Busy, stackVars
  <2> QED BY <1>3, <2>1, <2>2, <2>3, <2>4 DEF Next, Work
<1> QED BY <1>2, <1>4 DEF UnbrokenInv

(* While the process does not crash, and neither cleanups nor updates of the *)
(* platforms' own stacks fail: what a worker has read and done for a domain  *)
(* that nobody asks for, or for a platform.                                  *)
THEOREM NothingIsLeftBehind ==
    ASSUME Uninterrupted
    PROVE  Spec /\ [][OnlyTenantUpdatesFail]_vars => []UnbrokenInv
<1>1. Init => UnbrokenInv
  BY UnbrokenInit DEF Uninterrupted
<1>2. UnbrokenInv /\ [Next]_vars /\ [OnlyTenantUpdatesFail]_vars => UnbrokenInv'
  BY UnbrokenStep
<1> QED BY <1>1, <1>2, PTL DEF Spec

(* Then the stack of a domain no tenant asks for any more is gone, once the  *)
(* controller has nothing left to do for it, whatever else fails.            *)
THEOREM SettledDomainsAreCleanedUp ==
    ASSUME Uninterrupted
    PROVE  Spec /\ [][OnlyTenantUpdatesFail]_vars => []SettledIsCleanedUp
<1>1. UnbrokenInv => SettledIsCleanedUp
  <2> SUFFICES ASSUME UnbrokenInv, NEW k \in TenantKeySet, Settled(k), ~Refs(LiveTenant(k), k)
               PROVE  stacks[StackOf(k)] = {}
    BY DEF SettledIsCleanedUp
  <2>1. k.tenant \in Tenants /\ k.tenant # NoTenant
    BY RestKeys
  <2>2. Versions(tenants[k.tenant]) = {LiveTenant(k)}
    BY <2>1 DEF Settled, UpToDate, Versions, LiveTenant, Live
  <2>3. Still(k)
    BY <2>1, <2>2 DEF Still, AskPending
  <2> QED BY <2>1, <2>3 DEF UnbrokenInv, RestInv, Settled, Aim
<1> QED BY <1>1, NothingIsLeftBehind, PTL

(* ... and the stacks of the platforms are as the API server describes them. *)
THEOREM SettledPlatformsAreProvisioned ==
    ASSUME Uninterrupted
    PROVE  Spec /\ [][OnlyTenantUpdatesFail]_vars => []SettledPlatformIsProvisioned
<1>1. UnbrokenInv => SettledPlatformIsProvisioned
  <2> SUFFICES ASSUME UnbrokenInv, NEW k \in PlatformKeySet, Settled(k), k.platform \in platforms
               PROVE  stacks[StackOf(k)] = PlatformItems(k, LiveResources)
    BY DEF SettledPlatformIsProvisioned
  <2>1. k.tenant = NoTenant
    BY RestKeys
  <2>2. Still(k)
    BY <2>1 DEF Still, PlatformPending, Settled
  <2> QED BY <2>1, <2>2 DEF UnbrokenInv, RestInv, Settled, Aim
<1> QED BY <1>1, NothingIsLeftBehind, PTL

(* If all tenants are enabled, no update or migration fails and the process  *)
(* does not crash, then the migrations of a stack have run since it last     *)
(* changed, once the controller has nothing left to do for it.               *)
THEOREM SettledStacksAreMigrated ==
    ASSUME StacksAreDistinct, MaxCrashes = 0, AllEnabled
    PROVE  Spec /\ [][NoUpdateFails]_vars => []SettledIsMigrated
<1> DEFINE Inv == TypeOK /\ WorkersHoldKeys /\ TargetsOK /\ MigratedInv
<1>1. Init => Inv
  <2>1. Init => TargetsOK /\ MigratedInv
    BY DEF Init, TargetsOK, MigratedInv, Idle
  <2> QED BY <2>1, InitTypes, HoldInit
<1>2. Inv /\ [Next]_vars /\ [NoUpdateFails]_vars => Inv'
  BY NextTypes, HoldStep, TargetsStep, MigratedStep DEF TypeOK
<1>3. Inv => SettledIsMigrated
  <2> SUFFICES ASSUME Inv, NEW k \in TenantKeySet, Settled(k), stacks[StackOf(k)] # {},
                      StackOf(k) \in unmigrated
               PROVE  FALSE
    BY DEF SettledIsMigrated
  <2>1. PICK w \in Workers : job[w].key = k /\ job[w].pc \in {"migrate", "provision"}
    BY DEF MigratedInv
  <2> QED BY <2>1 DEF WorkersHoldKeys, Busy, Settled
<1> QED BY <1>1, <1>2, <1>3, PTL DEF Spec
=============================================================================
