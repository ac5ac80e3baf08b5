----------------------- MODULE ProvisioningController -----------------------
(***************************************************************************)
(* The tenant provisioner: informers on Tenants, TenantCategories and      *)
(* provisioning resources put keys platform::tenant::domain on a rate      *)
(* limited queue; workers take a key, read the Tenant (or Platform) from   *)
(* the API server and everything else from the informers' stores, and bring*)
(* the Pulumi stack of that key to the manifests selected for it, or       *)
(* destroy the stack.                                                      *)
(*                                                                         *)
(* A provisioning resource stands for an object of any of the twelve kinds:*)
(* the controller handles them alike.  The lists of the kinds, and the     *)
(* category, are read one after the other; they are read in one step here, *)
(* because a list read before a change is the list of a store that has not *)
(* observed the change yet.                                                *)
(***************************************************************************)
EXTENDS Informer, WorkQueue

CONSTANTS
    Platforms, NoPlatform,      \* names of platforms; the empty reference
    Tenants, NoTenant,          \* namespace/name of tenants; none: a platform key
    TenantName,                 \* metadata.name of a tenant
    PlatformWord,               \* the word that replaces the name in a platform's stack
    StackName(_, _),            \* of a name and a domain: the two joined by a hyphen
    Domains, NoDomain,
    Categories, NoCategory,     \* names of TenantCategories
    Resources,                  \* provisioning resources of all kinds
    TenantVals, CategoryVals, ResourceVals,     \* versions users may write
    Specs, Settings, Overrides, NoOverride, NoSettings,
    Malformed,                  \* overrides and settings that no spec can be merged with
    SkipInitialReconcile,       \* SKIP_INITIAL_RECONCILE
    InitialApi,                 \* what may be in the API server at start-up
    WarmStart,                  \* stacks converged by an earlier incarnation?
    Workers,
    PlatformsMayChange,         \* may Platforms come and go?
    MaxEdits, MaxFailures, MaxCrashes,  \* bounds of the model
    MaxLost                     \* messages the publisher may fail to send

PlatformRefs == Platforms \cup {NoPlatform}
CategoryRefs == Categories \cup {NoCategory}

\* settings: the rest of the spec that reaches the rendered resources
\* (id, description, provisioningOverrides, deletePolicy, import).
TenantSpec == [platform : PlatformRefs, domains : SUBSET Domains,
               category : CategoryRefs, enabled : BOOLEAN,
               skip : BOOLEAN, settings : Settings]

CategorySpec == [platform : PlatformRefs, overrides : Overrides]

Filters == [kind : {"Blacklist", "Whitelist"}, by : {"Name", "Category"},
            values : SUBSET ({TenantName[t] : t \in Tenants} \cup CategoryRefs)]

ResourceSpec == [platform : PlatformRefs, domain : Domains \cup {NoDomain},
                 target : {"Tenant", "Platform"}, filter : Filters,
                 spec : Specs]

ASSUME ValuesAssumption ==
    /\ TenantVals \in [Tenants -> SUBSET TenantSpec]
    /\ CategoryVals \in [Categories -> SUBSET CategorySpec]
    /\ ResourceVals \subseteq ResourceSpec
    /\ Absent \notin TenantSpec \cup CategorySpec \cup ResourceSpec
    /\ NoOverride \in Overrides /\ NoSettings \in Settings

ASSUME NamesAssumption ==
    /\ NoTenant \notin Tenants \cup TenantSpec \cup {Absent}
    /\ NoCategory \notin Categories
    /\ NoPlatform \notin Platforms
    /\ NoDomain \notin Domains
    /\ Tenants \cap Categories = {}
    /\ Tenants \cap Resources = {}
    /\ Categories \cap Resources = {}

ASSUME BoundsAssumption ==
    /\ MaxEdits \in Nat /\ MaxFailures \in Nat /\ MaxCrashes \in Nat /\ MaxLost \in Nat
    /\ SkipInitialReconcile \in BOOLEAN /\ WarmStart \in BOOLEAN
    /\ PlatformsMayChange \in BOOLEAN

ApiStates == [platforms : SUBSET Platforms,
              tenants : [Tenants -> TenantSpec \cup {Absent}],
              categories : [Categories -> CategorySpec \cup {Absent}],
              resources : [Resources -> ResourceVals \cup {Absent}]]

ASSUME InitialAssumption ==
    /\ InitialApi \subseteq ApiStates
    /\ \A api \in InitialApi :
            /\ \A t \in Tenants : api.tenants[t] \in TenantVals[t] \cup {Absent}
            /\ \A c \in Categories : api.categories[c] \in CategoryVals[c] \cup {Absent}

VARIABLES
    platforms,      \* Platforms in the API server (only ever read live)
    tenants, categories, resources,     \* views of the watched objects
    phase,          \* of the controller: "down", "starting", "running"
    initial,        \* objects whose Add of the initial list is not delivered
    queue,          \* the work queue
    job,            \* what each worker is doing
    stacks,         \* the resources each Pulumi stack holds
    unmigrated,     \* stacks changed since the migrations last ran for them
    recorded,       \* the last Kubernetes event recorded for each key
    published,      \* the last message about each key that went out
    spent           \* how much of each bound is used

apiVars   == <<platforms, tenants, categories, resources>>
stackVars == <<stacks, unmigrated, recorded, published>>
vars == <<apiVars, phase, initial, queue, job, stackVars, spent>>
-----------------------------------------------------------------------------
(* Keys and stacks *)

Keys == [platform : PlatformRefs, tenant : Tenants \cup {NoTenant},
         domain : Domains \cup {NoDomain}]

Key(p, t, d) == [platform |-> p, tenant |-> t, domain |-> d]

NoKey == Key(NoPlatform, NoTenant, NoDomain)

\* project and name of a stack; the tenant's namespace is not part of it
StackOf(k) == <<k.platform,
                StackName(IF k.tenant = NoTenant THEN PlatformWord
                          ELSE TenantName[k.tenant], k.domain)>>

Stacks == {StackOf(k) : k \in Keys}

Manifests == [resource : Resources, spec : Specs, category : CategoryRefs,
              fromCategory : Overrides, fromTenant : Settings]
-----------------------------------------------------------------------------
(* Selection of the resources of a target, from values of the objects *)

Excluded(filter, name, category) ==
    LET value == IF filter.by = "Category" THEN category ELSE name
    IN  \/ filter.kind = "Blacklist" /\ value \in filter.values
        \/ filter.kind = "Whitelist" /\ value \notin filter.values

CategoryResolved(tenant, cats) ==
    \/ tenant.category = NoCategory
    \/ /\ tenant.category \in Categories
       /\ cats[tenant.category] # Absent
       /\ cats[tenant.category].platform = tenant.platform

\* The resource as rendered for a tenant: a function of the resource, the
\* tenant, and the overrides of its category.
ForTenant(r, v, tenant, cats) ==
    [resource |-> r, spec |-> v.spec, category |-> tenant.category,
     fromCategory |-> IF tenant.category = NoCategory THEN NoOverride
                      ELSE cats[tenant.category].overrides,
     fromTenant |-> tenant.settings]

ForPlatform(r, v) ==
    [resource |-> r, spec |-> v.spec, category |-> NoCategory,
     fromCategory |-> NoOverride, fromTenant |-> NoSettings]

InTarget(v, platform, domain, target) ==
    v # Absent /\ v.platform = platform /\ v.domain = domain /\ v.target = target

TenantItems(k, tenant, cats, ress) ==
    {ForTenant(r, ress[r], tenant, cats) :
        r \in {s \in Resources :
                 /\ InTarget(ress[s], tenant.platform, k.domain, "Tenant")
                 /\ ~Excluded(ress[s].filter, TenantName[k.tenant], tenant.category)}}

PlatformItems(k, ress) ==
    {ForPlatform(r, ress[r]) :
        r \in {s \in Resources : InTarget(ress[s], k.platform, k.domain, "Platform")}}

\* Does this version of the tenant ask for the domain of k on its platform?
Refs(tenant, k) ==
    tenant # Absent /\ tenant.platform = k.platform /\ k.domain \in tenant.domains

\* syncTarget gets as far as the provisioner: the category is found and the
\* overrides of every selected resource can be merged into its spec.
Renderable(k, tenant, cats, ress) ==
    /\ CategoryResolved(tenant, cats)
    /\ \A m \in TenantItems(k, tenant, cats, ress) :
            m.fromCategory \notin Malformed /\ m.fromTenant \notin Malformed

LiveCategories   == [c \in Categories |-> Live(categories[c])]
CachedCategories == [c \in Categories |-> Cached(categories[c])]
LiveResources    == [r \in Resources |-> Live(resources[r])]
CachedResources  == [r \in Resources |-> Cached(resources[r])]
-----------------------------------------------------------------------------
(* The keys the event handlers put on the queue *)

\* Mutant of TenantKeys: encodeKey called with tenant and domain swapped.
TenantKeysSwapped(t, v) ==
    IF v = Absent \/ v.skip THEN {}
    ELSE {Key(v.platform, d, t) : d \in v.domains}

\* enqueueTenant: every domain of this version, unless provisioning is skipped
TenantKeys(t, v) ==
    IF v = Absent \/ v.skip THEN {}
    ELSE {Key(v.platform, t, d) : d \in v.domains}

SameSpec(old, new) == [old EXCEPT !.skip = FALSE] = [new EXCEPT !.skip = FALSE]

\* Mutant of OnTenant: an update enqueues the new domains only.
OnTenantNewOnly(t, old, new) ==
    LET seen == IF new = Absent THEN old ELSE new
    IN  IF seen = Absent \/ seen.platform = NoPlatform THEN {} ELSE TenantKeys(t, seen)

\* Add, Update and Delete of a tenant.  An update that leaves the spec alone
\* (the skip label is metadata) is ignored; versions without a platform too.
OnTenant(t, old, new) ==
    LET keys(v) == IF v = Absent \/ v.platform = NoPlatform THEN {}
                   ELSE TenantKeys(t, v)
    IN  IF old # Absent /\ new # Absent /\ SameSpec(old, new) THEN {}
        ELSE keys(old) \cup keys(new)

\* enqueueTenantsByCategory, over the tenants in the store
KeysOfCategory(c, platform) ==
    UNION {TenantKeys(t, Cached(tenants[t])) :
             t \in {u \in Tenants : /\ Cached(tenants[u]) # Absent
                                    /\ Cached(tenants[u]).platform = platform
                                    /\ Cached(tenants[u]).category = c}}

\* Mutant of OnCategory: an updated category wakes nobody.
OnCategoryNotUpdated(c, old, new) ==
    IF new = Absent THEN KeysOfCategory(c, old.platform)
    ELSE IF old = Absent THEN KeysOfCategory(c, new.platform) ELSE {}

\* Only the new platform of an updated category is looked at.
OnCategory(c, old, new) ==
    IF new = Absent THEN KeysOfCategory(c, old.platform)
    ELSE IF old = new THEN {}
    ELSE KeysOfCategory(c, new.platform)

\* Mutant of KeysOfDomain: enqueueTenantDomain does not look at the label.
KeysOfDomainSkipped(platform, domain, target) ==
    IF target = "Platform" THEN {Key(platform, NoTenant, domain)}
    ELSE {Key(platform, t, domain) :
            t \in {u \in Tenants : Refs(Cached(tenants[u]), Key(platform, u, domain))}}

\* enqueueDomain, over the tenants in the store
KeysOfDomain(platform, domain, target) ==
    IF target = "Platform" THEN {Key(platform, NoTenant, domain)}
    ELSE {Key(platform, t, domain) :
            t \in {u \in Tenants : LET v == Cached(tenants[u])
                                   IN  /\ Refs(v, Key(platform, u, domain))
                                       /\ ~v.skip}}

\* Mutant of OnResource: an update enqueues the new keys only.
OnResourceNewOnly(old, new) ==
    LET v == IF new = Absent THEN old ELSE new
    IN  IF v = Absent \/ v.platform = NoPlatform \/ v.domain = NoDomain
        THEN {} ELSE KeysOfDomain(v.platform, v.domain, v.target)

\* Add, Update and Delete of a resource.  An update enqueues the old platform,
\* domain and target only if they changed: the union is the same.
OnResource(old, new) ==
    LET keys(v) == IF v = Absent \/ v.platform = NoPlatform \/ v.domain = NoDomain
                   THEN {}
                   ELSE KeysOfDomain(v.platform, v.domain, v.target)
    IN  keys(old) \cup keys(new)
-----------------------------------------------------------------------------
(* What the users and the cluster do *)

Spend(what) == spent' = [spent EXCEPT ![what] = @ + 1]

\* While the controller is down nobody watches: only the last version remains.
Write(view, v) == IF phase = "down" THEN Unwatched(v) ELSE Written(view, v)

EditTenant(t, v) ==
    /\ spent.edits < MaxEdits /\ Spend("edits")
    /\ v # Live(tenants[t])
    /\ tenants' = [tenants EXCEPT ![t] = Write(@, v)]
    /\ UNCHANGED <<platforms, categories, resources, phase, initial, queue, job, stackVars>>

EditCategory(c, v) ==
    /\ spent.edits < MaxEdits /\ Spend("edits")
    /\ v # Live(categories[c])
    /\ categories' = [categories EXCEPT ![c] = Write(@, v)]
    /\ UNCHANGED <<platforms, tenants, resources, phase, initial, queue, job, stackVars>>

EditResource(r, v) ==
    /\ spent.edits < MaxEdits /\ Spend("edits")
    /\ v # Live(resources[r])
    /\ resources' = [resources EXCEPT ![r] = Write(@, v)]
    /\ UNCHANGED <<platforms, tenants, categories, phase, initial, queue, job, stackVars>>

\* The handlers of Platform events only log.
EditPlatform(p) ==
    /\ PlatformsMayChange
    /\ spent.edits < MaxEdits /\ Spend("edits")
    /\ platforms' = (platforms \ {p}) \cup ({p} \ platforms)
    /\ UNCHANGED <<tenants, categories, resources, phase, initial, queue, job, stackVars>>
-----------------------------------------------------------------------------
(* Informers and event handlers *)

Observe ==
    /\ phase # "down"
    /\ \/ \E t \in Tenants : /\ CanObserve(tenants[t])
                             /\ tenants' = [tenants EXCEPT ![t] = Observed(@)]
                             /\ UNCHANGED <<categories, resources>>
       \/ \E c \in Categories : /\ CanObserve(categories[c])
                                /\ categories' = [categories EXCEPT ![c] = Observed(@)]
                                /\ UNCHANGED <<tenants, resources>>
       \/ \E r \in Resources : /\ CanObserve(resources[r])
                               /\ resources' = [resources EXCEPT ![r] = Observed(@)]
                               /\ UNCHANGED <<tenants, categories>>
    /\ UNCHANGED <<platforms, phase, initial, queue, job, stackVars, spent>>

HandleTenant(t) ==
    /\ phase # "down" /\ CanNotify(tenants[t])
    /\ queue' = AddAll(queue, OnTenant(t, OldVersion(tenants[t]), NewVersion(tenants[t])))
    /\ tenants' = [tenants EXCEPT ![t] = Notified(@)]
    /\ initial' = initial \ {t}
    /\ UNCHANGED <<platforms, categories, resources, phase, job, stackVars, spent>>

HandleCategory(c) ==
    /\ phase # "down" /\ CanNotify(categories[c])
    /\ queue' = AddAll(queue, OnCategory(c, OldVersion(categories[c]), NewVersion(categories[c])))
    /\ categories' = [categories EXCEPT ![c] = Notified(@)]
    /\ initial' = initial \ {c}
    /\ UNCHANGED <<platforms, tenants, resources, phase, job, stackVars, spent>>

HandleResource(r) ==
    /\ phase # "down" /\ CanNotify(resources[r])
    /\ queue' = AddAll(queue, OnResource(OldVersion(resources[r]), NewVersion(resources[r])))
    /\ resources' = [resources EXCEPT ![r] = Notified(@)]
    /\ initial' = initial \ {r}
    /\ UNCHANGED <<platforms, tenants, categories, phase, job, stackVars, spent>>

\* The delaying queue hands a rate limited key back.
Retry(k) ==
    /\ phase # "down" /\ k \in queue.delayed
    /\ queue' = BackoffOver(queue, k)
    /\ UNCHANGED <<apiVars, phase, initial, job, stackVars, spent>>
-----------------------------------------------------------------------------
(* Workers *)

Idle == [pc |-> "idle", key |-> NoKey, target |-> Absent,
         items |-> {}, changed |-> FALSE, failed |-> FALSE]

\* target of a job on a platform key; Absent is the bare tenant of a cleanup
PlatformTarget == NoTenant

\* Mutant of Take: Done is called before the key is processed.
TakeDoneEarly(w, k) ==
    /\ phase = "running" /\ job[w].pc = "idle" /\ k \in Ready(queue)
    /\ queue' = Done(Get(queue, k), k)
    /\ job' = [job EXCEPT ![w] = [Idle EXCEPT !.pc = "read", !.key = k]]
    /\ UNCHANGED <<apiVars, phase, initial, stackVars, spent>>

Take(w, k) ==
    /\ phase = "running" /\ job[w].pc = "idle" /\ k \in Ready(queue)
    /\ queue' = Get(queue, k)
    /\ job' = [job EXCEPT ![w] = [Idle EXCEPT !.pc = "read", !.key = k]]
    /\ UNCHANGED <<apiVars, phase, initial, stackVars, spent>>

\* The Tenant or Platform of the key, live.  A tenant that is gone, or that no
\* longer asks for this domain on this platform, has its stack cleaned up; a
\* platform that is gone ends the sync.
ReadTarget(w) ==
    LET k      == job[w].key
        tenant == Live(tenants[k.tenant])
        goto(pc, target) == [job EXCEPT ![w].pc = pc, ![w].target = target]
    IN  /\ job[w].pc = "read"
        /\ \/ /\ k.tenant = NoTenant
              /\ job' = IF k.platform \in platforms
                        THEN goto("list", PlatformTarget)
                        ELSE goto("done", PlatformTarget)
           \/ /\ k.tenant # NoTenant
              /\ job' = IF Refs(tenant, k) THEN goto("list", tenant)
                        ELSE goto("provision", Absent)
        /\ UNCHANGED <<apiVars, phase, initial, queue, stackVars, spent>>

\* The live read fails for another reason than NotFound: the one error that
\* syncHandler returns.
ReadFails(w) ==
    /\ job[w].pc = "read"
    /\ spent.failures < MaxFailures /\ Spend("failures")
    /\ job' = [job EXCEPT ![w].pc = "retry"]
    /\ UNCHANGED <<apiVars, phase, initial, queue, stackVars>>

\* Resolve the category, list the resources and select and override them, all
\* from the stores.  If that fails the sync ends: no event is recorded, and
\* syncHandler drops the error (it assigns a variable of an inner scope).
List(w) ==
    LET j == job[w]
        renderable == Renderable(j.key, j.target, CachedCategories, CachedResources)
        goOn(items) == [job EXCEPT ![w].pc = "provision", ![w].items = items]
    IN  /\ j.pc = "list"
        /\ \/ /\ j.target = PlatformTarget
              /\ job' = goOn(PlatformItems(j.key, CachedResources))
           \/ /\ j.target # PlatformTarget /\ renderable
              /\ job' = goOn(TenantItems(j.key, j.target, CachedCategories, CachedResources))
           \/ /\ j.target # PlatformTarget /\ ~renderable
              /\ job' = [job EXCEPT ![w].pc = "done"]
        /\ UNCHANGED <<apiVars, phase, initial, queue, stackVars, spent>>

\* pulumi up, or destroy when there are no items: the stack takes one more
\* difference to the items.  It may stop anywhere, by a failure or a crash.
Apply(w) ==
    LET j == job[w]
        s == StackOf(j.key)
    IN  /\ j.pc = "provision"
        /\ \/ \E m \in j.items \ stacks[s] :
                stacks' = [stacks EXCEPT ![s] =
                             {n \in @ : n.resource # m.resource} \cup {m}]
           \/ \E m \in stacks[s] :
                /\ \A n \in j.items : n.resource # m.resource
                /\ stacks' = [stacks EXCEPT ![s] = @ \ {m}]
        /\ unmigrated' = unmigrated \cup {s}
        /\ job' = [job EXCEPT ![w].changed = TRUE]
        /\ UNCHANGED <<apiVars, phase, initial, queue, recorded, published, spent>>

\* Mutant of ProvisionSucceeds: the changes of the update are not reported.
ProvisionUnchanged(w) ==
    LET j == job[w]
    IN  /\ j.pc = "provision" /\ stacks[StackOf(j.key)] = j.items
        /\ job' = [job EXCEPT ![w].pc = IF j.target = Absent THEN "done" ELSE "publish"]
        /\ UNCHANGED <<apiVars, phase, initial, queue, stackVars, spent>>

\* The stack is as wanted.  Changes to the stack of an enabled tenant are
\* followed by its migrations; a cleanup ends here, without an event.
ProvisionSucceeds(w) ==
    LET j == job[w]
    IN  /\ j.pc = "provision" /\ stacks[StackOf(j.key)] = j.items
        /\ job' = [job EXCEPT ![w].pc =
                     IF j.target = Absent THEN "done"
                     ELSE IF j.target # PlatformTarget /\ j.changed /\ j.target.enabled
                          THEN "migrate" ELSE "publish"]
        /\ UNCHANGED <<apiVars, phase, initial, queue, stackVars, spent>>

\* Mutant of ProvisionFails: the failed update goes down the path of success.
ProvisionErrorIgnored(w) ==
    LET j == job[w]
    IN  /\ j.pc = "provision"
        /\ spent.failures < MaxFailures /\ Spend("failures")
        /\ job' = [job EXCEPT ![w].pc = IF j.target = Absent THEN "done" ELSE "publish"]
        /\ UNCHANGED <<apiVars, phase, initial, queue, stackVars>>

\* pulumi fails.  The error of a cleanup is only logged.
ProvisionFails(w) ==
    LET j == job[w]
    IN  /\ j.pc = "provision"
        /\ spent.failures < MaxFailures /\ Spend("failures")
        /\ job' = IF j.target = Absent
                  THEN [job EXCEPT ![w].pc = "done"]
                  ELSE [job EXCEPT ![w].pc = "publish", ![w].failed = TRUE]
        /\ UNCHANGED <<apiVars, phase, initial, queue, stackVars>>

Migrate(w) ==
    /\ job[w].pc = "migrate"
    /\ unmigrated' = unmigrated \ {StackOf(job[w].key)}
    /\ job' = [job EXCEPT ![w].pc = "publish"]
    /\ UNCHANGED <<apiVars, phase, initial, queue, stacks, recorded, published, spent>>

MigrationFails(w) ==
    /\ job[w].pc = "migrate"
    /\ spent.failures < MaxFailures /\ Spend("failures")
    /\ job' = [job EXCEPT ![w].pc = "publish", ![w].failed = TRUE]
    /\ UNCHANGED <<apiVars, phase, initial, queue, stackVars>>

\* The outcome is recorded as a Kubernetes event and sent as a message.  An
\* error of the publisher is only logged: the message is lost, as it is if the
\* process crashes between the two.
Publish(w) ==
    LET j == job[w]
        outcome == IF j.failed THEN "failure" ELSE "success"
    IN  /\ j.pc = "publish"
        /\ recorded' = [recorded EXCEPT ![j.key] = outcome]
        /\ \/ published' = [published EXCEPT ![j.key] = outcome] /\ UNCHANGED spent
           \/ UNCHANGED published /\ spent.lost < MaxLost /\ Spend("lost")
        /\ job' = [job EXCEPT ![w].pc = "done"]
        /\ UNCHANGED <<apiVars, phase, initial, queue, stacks, unmigrated>>

\* Mutant of Finish: a key is forgotten even if its sync returned an error.
FinishForgets(w) ==
    /\ job[w].pc \in {"done", "retry"}
    /\ queue' = Done(queue, job[w].key)
    /\ job' = [job EXCEPT ![w] = Idle]
    /\ UNCHANGED <<apiVars, phase, initial, stackVars, spent>>

\* The end of processNextWorkItem: a key whose sync returned an error is retried
\* after a back-off.
Finish(w) ==
    LET j == job[w]
        q == IF j.pc = "retry" THEN AddRateLimited(queue, j.key) ELSE queue
    IN  /\ j.pc \in {"done", "retry"}
        /\ queue' = Done(q, j.key)
        /\ job' = [job EXCEPT ![w] = Idle]
        /\ UNCHANGED <<apiVars, phase, initial, stackVars, spent>>
-----------------------------------------------------------------------------
(* The process *)

Objects == Tenants \cup Categories \cup Resources

\* What is lost with the process: stores, notifications, queue and jobs.
Crash ==
    /\ phase # "down"
    /\ spent.crashes < MaxCrashes /\ Spend("crashes")
    /\ phase' = "down"
    /\ tenants' = [t \in Tenants |-> Unwatched(Live(tenants[t]))]
    /\ categories' = [c \in Categories |-> Unwatched(Live(categories[c]))]
    /\ resources' = [r \in Resources |-> Unwatched(Live(resources[r]))]
    /\ initial' = {} /\ queue' = EmptyQueue /\ job' = [w \in Workers |-> Idle]
    /\ UNCHANGED <<platforms, stackVars>>

PresentIn(ts, cs, rs) ==
    {t \in Tenants : ts[t] # Absent} \cup {c \in Categories : cs[c] # Absent}
        \cup {r \in Resources : rs[r] # Absent}

\* The initial list fills the stores, then the caches are synced.
Restart ==
    /\ phase = "down"
    /\ phase' = "starting"
    /\ tenants' = [t \in Tenants |-> Listed(Live(tenants[t]))]
    /\ categories' = [c \in Categories |-> Listed(Live(categories[c]))]
    /\ resources' = [r \in Resources |-> Listed(Live(resources[r]))]
    /\ initial' = PresentIn([t \in Tenants |-> Live(tenants[t])],
                            LiveCategories, LiveResources)
    /\ UNCHANGED <<platforms, queue, job, stackVars, spent>>

\* With SKIP_INITIAL_RECONCILE the workers start once the initial Adds are
\* delivered and the queue is drained.
StartWorkers ==
    /\ phase = "starting"
    /\ phase' = "running"
    /\ IF SkipInitialReconcile THEN initial = {} /\ queue' = Drain(queue)
                               ELSE queue' = queue
    /\ UNCHANGED <<apiVars, initial, job, stackVars, spent>>
-----------------------------------------------------------------------------
Wanted(k, tenant, cats, ress) ==
    IF Refs(tenant, k) /\ Renderable(k, tenant, cats, ress)
    THEN TenantItems(k, tenant, cats, ress) ELSE {}

\* A first start on an existing cluster, or a restart after a previous
\* incarnation brought every stack up to date.
Init ==
    \E api \in InitialApi :
        /\ platforms = api.platforms
        /\ tenants = [t \in Tenants |-> Listed(api.tenants[t])]
        /\ categories = [c \in Categories |-> Listed(api.categories[c])]
        /\ resources = [r \in Resources |-> Listed(api.resources[r])]
        /\ phase = "starting"
        /\ initial = PresentIn(api.tenants, api.categories, api.resources)
        /\ queue = EmptyQueue
        /\ job = [w \in Workers |-> Idle]
        /\ stacks = [s \in Stacks |->
                       IF WarmStart
                       THEN UNION {Wanted(k, api.tenants[k.tenant], api.categories, api.resources) :
                                     k \in {l \in Keys : l.tenant # NoTenant /\ StackOf(l) = s}}
                       ELSE {}]
        /\ unmigrated = {}
        /\ recorded = [k \in Keys |-> "none"]
        /\ published = [k \in Keys |-> "none"]
        /\ spent = [edits |-> 0, failures |-> 0, crashes |-> 0, lost |-> 0]

Edit ==
    \/ \E t \in Tenants : \E v \in TenantVals[t] \cup {Absent} : EditTenant(t, v)
    \/ \E c \in Categories : \E v \in CategoryVals[c] \cup {Absent} : EditCategory(c, v)
    \/ \E r \in Resources, v \in ResourceVals \cup {Absent} : EditResource(r, v)
    \/ \E p \in Platforms : EditPlatform(p)

Handle ==
    \/ \E t \in Tenants : HandleTenant(t)
    \/ \E c \in Categories : HandleCategory(c)
    \/ \E r \in Resources : HandleResource(r)

\* The steps of a sync that do not fail.
Work(w) == \/ ReadTarget(w) \/ List(w) \/ Apply(w) \/ ProvisionSucceeds(w)
           \/ Migrate(w) \/ Publish(w) \/ Finish(w)

Fail(w) == ReadFails(w) \/ ProvisionFails(w) \/ MigrationFails(w)

Next ==
    \/ Edit \/ Observe \/ Handle \/ Crash \/ Restart \/ StartWorkers
    \/ \E k \in queue.delayed : Retry(k)
    \/ \E w \in Workers : Work(w) \/ Fail(w) \/ \E k \in Ready(queue) : Take(w, k)

Spec == Init /\ [][Next]_vars
=============================================================================
