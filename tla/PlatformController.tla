------------------------- MODULE PlatformController -------------------------
(***************************************************************************)
(* The platform controller keeps one immutable ConfigMap for each Platform,*)
(* with its Tenants, and one for each Domain of a Platform, with the access*)
(* its Tenants have.  Handlers of Platforms, Tenants, Domains and Services *)
(* put names of platforms on a rate limited queue; a worker withdraws the  *)
(* Ready condition of the platform, lists what belongs to it, replaces the *)
(* ConfigMaps that differ (a Delete followed by a Create), and sets the    *)
(* condition again.                                                        *)
(*                                                                         *)
(* Everything is read from the informers' stores.  The lists of a sync are *)
(* read in one step: a list read before a change is the list of a store    *)
(* that has not observed the change yet.  Services decide only which       *)
(* warnings a sync records; their events wake platforms like the others.   *)
(* Events recorded and messages published are left out: nothing reads them.*)
(***************************************************************************)
EXTENDS Informer, WorkQueue

CONSTANTS
    Platforms, NoPlatform,      \* names of platforms; the key of an idle worker
    Tenants,                    \* names of tenants
    Namespaces, DomainNames,
    Domains,                    \* <<namespace, name>> of domains
    Infos, NoInfo,              \* id, category and configs of a tenant
    TenantVals, DomainVals,     \* versions users may write
    InitialApi,                 \* what may be in the API server at start-up
    ConfigMapsLag,              \* may the ConfigMap store lag behind the API server?
    PlatformsMayChange,         \* may users write Platforms?
    NamesReusedAtOnce,          \* may a platform come back before all traces are gone?
    Workers, NoWrite,
    MaxEdits, MaxFailures, MaxCrashes   \* bounds of the model

TenantSpec == [platform : Platforms, domains : SUBSET DomainNames,
               enabled : BOOLEAN, info : Infos]

DomainSpec == [platform : Platforms, export : BOOLEAN]

\* rv: the resource version of the last write to anything but the status
PlatformVersions == [rv : 0 .. MaxEdits, uid : 0 .. MaxEdits, ns : Namespaces]

Maps == Namespaces \X (Platforms \cup DomainNames)

\* An entry of a ConfigMap: the tenant, whether it is enabled, and what else a
\* platform's or a domain's ConfigMap says of it.
Entries == Tenants \X BOOLEAN \X (Infos \cup {NoInfo}) \X SUBSET DomainNames

ConfigMaps == [owner : Platforms \X (0 .. MaxEdits), data : SUBSET Entries]

\* strict: an error of this write is an error of the sync
Writes == [map : Maps, data : SUBSET Entries, strict : BOOLEAN]

ASSUME ValuesAssumption ==
    /\ Domains \subseteq Namespaces \X DomainNames
    /\ TenantVals \in [Tenants -> SUBSET TenantSpec]
    /\ DomainVals \in [Domains -> SUBSET DomainSpec]
    /\ Absent \notin TenantSpec \cup DomainSpec \cup PlatformVersions
    /\ Absent \notin ConfigMaps \cup Namespaces
    /\ NoWrite \notin Writes /\ NoPlatform \notin Platforms

ASSUME BoundsAssumption ==
    /\ MaxEdits \in Nat /\ MaxFailures \in Nat /\ MaxCrashes \in Nat
    /\ ConfigMapsLag \in BOOLEAN /\ NamesReusedAtOnce \in BOOLEAN
    /\ PlatformsMayChange \in BOOLEAN

ASSUME InitialAssumption ==
    \A api \in InitialApi :
        /\ api.platforms \in [Platforms -> Namespaces \cup {Absent}]
        /\ DOMAIN api.tenants = Tenants /\ DOMAIN api.domains = Domains
        /\ \A t \in Tenants : api.tenants[t] \in TenantVals[t] \cup {Absent}
        /\ \A d \in Domains : api.domains[d] \in DomainVals[d] \cup {Absent}

VARIABLES
    platforms, tenants, domains,    \* views of the watched objects
    ready,          \* the Ready condition of each platform in the API server
    behind,         \* platforms whose last status write is not in the store
    maps,           \* views of the ConfigMaps
    up,             \* is there a controller?
    queue,          \* the work queue
    job,            \* what each worker is doing
    spent           \* how much of each bound is used

apiVars == <<platforms, tenants, domains>>
vars == <<apiVars, ready, behind, maps, up, queue, job, spent>>
-----------------------------------------------------------------------------
(* The ConfigMaps of a platform *)

Owner(p, platform) == <<p, platform.uid>>

CachedTenants == [t \in Tenants |-> Cached(tenants[t])]
CachedDomains == [d \in Domains |-> Cached(domains[d])]
LiveTenants   == [t \in Tenants |-> Live(tenants[t])]
LiveDomains   == [d \in Domains |-> Live(domains[d])]

Of(p, specs) == {x \in DOMAIN specs : specs[x] # Absent /\ specs[x].platform = p}

\* genPlatformTenantsCfgMap
PlatformWrite(p, platform, ts) ==
    [map |-> <<platform.ns, p>>, strict |-> TRUE,
     data |-> {<<t, ts[t].enabled, ts[t].info, {}>> : t \in Of(p, ts)}]

DomainEntry(t, tenant, d, domain) ==
    LET enabled == tenant.enabled /\ d[2] \in tenant.domains
    IN  <<t, enabled, NoInfo,
          IF domain.export /\ enabled THEN tenant.domains ELSE {}>>

\* genDomainTenantsCfgMap
DomainWrite(p, ts, d, domain) ==
    [map |-> d, strict |-> FALSE,
     data |-> {DomainEntry(t, ts[t], d, domain) : t \in Of(p, ts)}]

DomainWrites(p, ts, ds) == {DomainWrite(p, ts, d, ds[d]) : d \in Of(p, ds)}

\* IsControlledBy
Controlled(map, p, platform) == map.owner = Owner(p, platform)

\* An empty map comes back from the API server as nil, which DeepEqual tells
\* from the empty map of the desired state.
SameData(map, write) == map.data = write.data /\ write.data # {}
-----------------------------------------------------------------------------
(* The platforms the event handlers put on the queue *)

\* Mutant of OnReference: only the new platform of an update is enqueued.
OnReferenceNewOnly(old, new) == {(IF new = Absent THEN old ELSE new).platform}

\* Tenants and Domains: the platform of the new version, and of the old one.
OnReference(old, new) == {v.platform : v \in {old, new} \ {Absent}}

\* A platform that is deleted, or whose spec stays the same, wakes nobody.
OnPlatform(p, old, new) ==
    IF new = Absent \/ (old # Absent /\ old.ns = new.ns) THEN {} ELSE {p}
-----------------------------------------------------------------------------
(* What the users and the cluster do *)

Spend(what) == spent' = [spent EXCEPT ![what] = @ + 1]

\* While the controller is down nobody watches: only the last version remains.
Write(view, v) == IF up THEN Written(view, v) ELSE Unwatched(v)

EditTenant(t, v) ==
    /\ spent.edits < MaxEdits /\ Spend("edits")
    /\ v # Live(tenants[t])
    /\ tenants' = [tenants EXCEPT ![t] = Write(@, v)]
    /\ UNCHANGED <<platforms, domains, ready, behind, maps, up, queue, job>>

EditDomain(d, v) ==
    /\ spent.edits < MaxEdits /\ Spend("edits")
    /\ v # Live(domains[d])
    /\ domains' = [domains EXCEPT ![d] = Write(@, v)]
    /\ UNCHANGED <<platforms, tenants, ready, behind, maps, up, queue, job>>

\* A Service's event wakes the platforms of its old and new versions.
EditService(p, q) ==
    /\ up /\ spent.edits < MaxEdits /\ Spend("edits")
    /\ queue' = AddAll(queue, {p, q})
    /\ UNCHANGED <<apiVars, ready, behind, maps, up, job>>

WritePlatform(p, v) ==
    /\ PlatformsMayChange
    /\ spent.edits < MaxEdits /\ Spend("edits")
    /\ platforms' = [platforms EXCEPT ![p] = Write(@, v)]
    /\ UNCHANGED <<tenants, domains, behind, maps, up, queue, job>>

\* To the spec or, if ns is the same, to the metadata.
EditPlatform(p, ns) ==
    LET v == Live(platforms[p])
    IN  /\ v # Absent
        /\ WritePlatform(p, [v EXCEPT !.rv = spent.edits + 1, !.ns = ns])
        /\ UNCHANGED ready

\* No trace of an earlier platform of this name is left.
Unused(p) ==
    /\ UpToDate(platforms[p]) /\ p \notin queue.processing
    /\ \A m \in Maps : \A v \in Versions(maps[m]) : v # Absent => v.owner[1] # p

CreatePlatform(p, ns) ==
    /\ Live(platforms[p]) = Absent
    /\ NamesReusedAtOnce \/ Unused(p)
    /\ WritePlatform(p, [rv |-> spent.edits + 1, uid |-> spent.edits + 1, ns |-> ns])
    /\ ready' = [ready EXCEPT ![p] = "none"]

DeletePlatform(p) ==
    /\ Live(platforms[p]) # Absent
    /\ WritePlatform(p, Absent)
    /\ ready' = [ready EXCEPT ![p] = "none"]

WriteMap(m, v) ==
    maps' = [maps EXCEPT ![m] = IF ConfigMapsLag /\ up THEN Written(@, v) ELSE Unwatched(v)]

Orphan(map) ==
    LET platform == Live(platforms[map.owner[1]])
    IN  platform # Absent => ~Controlled(map, map.owner[1], platform)

\* The garbage collector deletes what an object that is gone controlled.
Collect(m) ==
    /\ Live(maps[m]) # Absent /\ Orphan(Live(maps[m]))
    /\ WriteMap(m, Absent)
    /\ UNCHANGED <<apiVars, ready, behind, up, queue, job, spent>>
-----------------------------------------------------------------------------
(* Informers and event handlers *)

\* A status is only written when the store has every version of the platform,
\* so the next version in the store brings that status with it.
ObservePlatform(p) ==
    /\ up /\ (CanObserve(platforms[p]) \/ p \in behind)
    /\ platforms' = IF CanObserve(platforms[p])
                    THEN [platforms EXCEPT ![p] = Observed(@)] ELSE platforms
    /\ behind' = behind \ {p}
    /\ UNCHANGED <<tenants, domains, ready, maps, up, queue, job, spent>>

ObserveTenant(t) ==
    /\ up /\ CanObserve(tenants[t])
    /\ tenants' = [tenants EXCEPT ![t] = Observed(@)]
    /\ UNCHANGED <<platforms, domains, ready, behind, maps, up, queue, job, spent>>

ObserveDomain(d) ==
    /\ up /\ CanObserve(domains[d])
    /\ domains' = [domains EXCEPT ![d] = Observed(@)]
    /\ UNCHANGED <<platforms, tenants, ready, behind, maps, up, queue, job, spent>>

\* Nobody handles events of ConfigMaps.
ObserveMap(m) ==
    /\ up /\ CanObserve(maps[m])
    /\ maps' = [maps EXCEPT ![m] = Notified(Observed(@))]
    /\ UNCHANGED <<apiVars, ready, behind, up, queue, job, spent>>

HandlePlatform(p) ==
    /\ up /\ CanNotify(platforms[p])
    /\ queue' = AddAll(queue, OnPlatform(p, OldVersion(platforms[p]), NewVersion(platforms[p])))
    /\ platforms' = [platforms EXCEPT ![p] = Notified(@)]
    /\ UNCHANGED <<tenants, domains, ready, behind, maps, up, job, spent>>

HandleTenant(t) ==
    /\ up /\ CanNotify(tenants[t])
    /\ queue' = AddAll(queue, OnReference(OldVersion(tenants[t]), NewVersion(tenants[t])))
    /\ tenants' = [tenants EXCEPT ![t] = Notified(@)]
    /\ UNCHANGED <<platforms, domains, ready, behind, maps, up, job, spent>>

HandleDomain(d) ==
    /\ up /\ CanNotify(domains[d])
    /\ queue' = AddAll(queue, OnReference(OldVersion(domains[d]), NewVersion(domains[d])))
    /\ domains' = [domains EXCEPT ![d] = Notified(@)]
    /\ UNCHANGED <<platforms, tenants, ready, behind, maps, up, job, spent>>

\* The delaying queue hands a rate limited key back.
Retry(p) ==
    /\ up /\ p \in queue.delayed
    /\ queue' = BackoffOver(queue, p)
    /\ UNCHANGED <<apiVars, ready, behind, maps, up, job, spent>>
-----------------------------------------------------------------------------
(* Workers *)

Idle == [pc |-> "idle", key |-> NoPlatform, platform |-> Absent,
         now |-> NoWrite, left |-> {}]

Take(w, p) ==
    /\ up /\ job[w].pc = "idle" /\ p \in Ready(queue)
    /\ queue' = Get(queue, p)
    /\ job' = [job EXCEPT ![w] = [Idle EXCEPT !.pc = "reset", !.key = p]]
    /\ UNCHANGED <<apiVars, ready, behind, maps, up, spent>>

\* A status write takes the resource version of the platform it was read with.
StoreIsCurrent(p) == ~CanObserve(platforms[p]) /\ p \notin behind

SetReady(p, status) ==
    /\ ready' = [ready EXCEPT ![p] = status]
    /\ behind' = behind \cup {p}

\* Mutant of ResetStatus: a platform that is not in the store is not noticed.
ResetUnchecked(w) ==
    LET p == job[w].key
    IN  /\ job[w].pc = "reset"
        /\ SetReady(p, "Unknown")
        /\ job' = [job EXCEPT ![w].pc = "list", ![w].platform = Cached(platforms[p])]
        /\ UNCHANGED <<apiVars, maps, up, queue, spent>>

\* Mutant of ResetStatus: a conflict is ignored.
ResetBestEffort(w) ==
    LET p == job[w].key
        v == Cached(platforms[p])
    IN  /\ job[w].pc = "reset"
        /\ IF v # Absent /\ StoreIsCurrent(p)
           THEN SetReady(p, "Unknown") ELSE UNCHANGED <<ready, behind>>
        /\ job' = [job EXCEPT ![w].pc = IF v = Absent THEN "done" ELSE "list",
                              ![w].platform = v]
        /\ UNCHANGED <<apiVars, maps, up, queue, spent>>

\* A platform that is not in the store ends the sync; a conflict is an error.
ResetStatus(w) ==
    LET p == job[w].key
        v == Cached(platforms[p])
    IN  /\ job[w].pc = "reset"
        /\ \/ /\ v = Absent
              /\ job' = [job EXCEPT ![w].pc = "done"]
              /\ UNCHANGED <<ready, behind>>
           \/ /\ v # Absent /\ ~StoreIsCurrent(p)
              /\ job' = [job EXCEPT ![w].pc = "retry"]
              /\ UNCHANGED <<ready, behind>>
           \/ /\ v # Absent /\ StoreIsCurrent(p)
              /\ SetReady(p, "Unknown")
              /\ job' = [job EXCEPT ![w].pc = "list", ![w].platform = v]
        /\ UNCHANGED <<apiVars, maps, up, queue, spent>>

\* The call fails, or its answer is lost.
ResetFails(w) ==
    LET p == job[w].key
    IN  /\ job[w].pc = "reset" /\ Cached(platforms[p]) # Absent
        /\ spent.failures < MaxFailures /\ Spend("failures")
        /\ \/ UNCHANGED <<ready, behind>>
           \/ StoreIsCurrent(p) /\ SetReady(p, "Unknown")
        /\ job' = [job EXCEPT ![w].pc = "retry"]
        /\ UNCHANGED <<apiVars, maps, up, queue>>

List(w) ==
    LET j == job[w]
    IN  /\ j.pc = "list"
        /\ job' = [job EXCEPT ![w].pc = "look",
                              ![w].now = PlatformWrite(j.key, j.platform, CachedTenants),
                              ![w].left = DomainWrites(j.key, CachedTenants, CachedDomains)]
        /\ UNCHANGED <<apiVars, ready, behind, maps, up, queue, spent>>

\* On to the next domain, in the order of the list.
Advance(w) ==
    LET j == job[w]
    IN  \/ /\ j.left = {}
           /\ job' = [job EXCEPT ![w].pc = "succeed", ![w].now = NoWrite]
        \/ \E d \in j.left :
              job' = [job EXCEPT ![w].pc = "look", ![w].now = d, ![w].left = @ \ {d}]

\* Mutant of CallFailed: no error of a ConfigMap stops the sync.
CallFailedQuietly(w) == Advance(w)

\* An error of a domain's ConfigMap is recorded, and the sync goes on.
CallFailed(w) ==
    \/ job[w].now.strict /\ job' = [job EXCEPT ![w].pc = "fail"]
    \/ ~job[w].now.strict /\ Advance(w)

\* Mutant of Look: whoever controls the ConfigMap, it is replaced.
LookAtData(w) ==
    LET j == job[w]
        stored == Cached(maps[j.now.map])
    IN  /\ j.pc = "look"
        /\ IF stored = Absent THEN job' = [job EXCEPT ![w].pc = "create"]
           ELSE IF SameData(stored, j.now) THEN Advance(w)
           ELSE job' = [job EXCEPT ![w].pc = "delete"]
        /\ UNCHANGED <<apiVars, ready, behind, maps, up, queue, spent>>

\* syncConfigMap reads the store.  A ConfigMap somebody else controls is left
\* alone, without an error.
Look(w) ==
    LET j == job[w]
        stored == Cached(maps[j.now.map])
        controlled == Controlled(stored, j.key, j.platform)
    IN  /\ j.pc = "look"
        /\ \/ stored = Absent /\ job' = [job EXCEPT ![w].pc = "create"]
           \/ /\ stored # Absent /\ controlled /\ ~SameData(stored, j.now)
              /\ job' = [job EXCEPT ![w].pc = "delete"]
           \/ /\ stored # Absent /\ (controlled => SameData(stored, j.now))
              /\ Advance(w)
        /\ UNCHANGED <<apiVars, ready, behind, maps, up, queue, spent>>

\* What each call of the worker does, when it succeeds.
Desired(j) == [owner |-> Owner(j.key, j.platform), data |-> j.now.data]

CallPossible(j) ==
    LET live == Live(maps[j.now.map])
    IN  (live = Absent) = (j.pc \in {"create", "recreate"})

CallDone(j) ==
    WriteMap(j.now.map, IF j.pc = "delete" THEN Absent ELSE Desired(j))

\* Create, Delete and Create again.  The object created first is compared with
\* the desired one like one from the store.
CallApi(w) ==
    LET j == job[w]
    IN  /\ j.pc \in {"create", "delete", "recreate"}
        /\ \/ ~CallPossible(j) /\ CallFailed(w) /\ UNCHANGED maps
           \/ /\ CallPossible(j) /\ CallDone(j)
              /\ \/ j.pc = "delete" /\ job' = [job EXCEPT ![w].pc = "recreate"]
                 \/ /\ j.pc = "create" /\ j.now.data = {}
                    /\ job' = [job EXCEPT ![w].pc = "delete"]
                 \/ /\ j.pc = "create" => j.now.data # {}
                    /\ j.pc # "delete" /\ Advance(w)
        /\ UNCHANGED <<apiVars, ready, behind, up, queue, spent>>

\* The call fails, or its answer is lost.
CallFails(w) ==
    LET j == job[w]
    IN  /\ j.pc \in {"create", "delete", "recreate"}
        /\ spent.failures < MaxFailures /\ Spend("failures")
        /\ \/ UNCHANGED maps
           \/ CallPossible(j) /\ CallDone(j)
        /\ CallFailed(w)
        /\ UNCHANGED <<apiVars, ready, behind, up, queue>>

AfterUpdate(w) ==
    job' = [job EXCEPT ![w].pc = IF @ = "fail" THEN "retry" ELSE "done"]

\* updateStatus, with the platform resetStatus returned: a write to it since
\* then is a conflict, which is only logged.
UpdateStatus(w) ==
    LET j == job[w]
    IN  /\ j.pc \in {"succeed", "fail"}
        /\ IF Live(platforms[j.key]) = j.platform
           THEN SetReady(j.key, IF j.pc = "fail" THEN "False" ELSE "True")
           ELSE UNCHANGED <<ready, behind>>
        /\ AfterUpdate(w)
        /\ UNCHANGED <<apiVars, maps, up, queue, spent>>

UpdateFails(w) ==
    /\ job[w].pc \in {"succeed", "fail"}
    /\ spent.failures < MaxFailures /\ Spend("failures")
    /\ AfterUpdate(w)
    /\ UNCHANGED <<apiVars, ready, behind, maps, up, queue>>

\* Mutant of Finish: a key is forgotten even if its sync returned an error.
FinishForgets(w) ==
    /\ job[w].pc \in {"done", "retry"}
    /\ queue' = Done(queue, job[w].key)
    /\ job' = [job EXCEPT ![w] = Idle]
    /\ UNCHANGED <<apiVars, ready, behind, maps, up, spent>>

\* The end of processNextWorkItem.
Finish(w) ==
    LET j == job[w]
        q == IF j.pc = "retry" THEN AddRateLimited(queue, j.key) ELSE queue
    IN  /\ j.pc \in {"done", "retry"}
        /\ queue' = Done(q, j.key)
        /\ job' = [job EXCEPT ![w] = Idle]
        /\ UNCHANGED <<apiVars, ready, behind, maps, up, spent>>
-----------------------------------------------------------------------------
(* The process *)

\* What is lost with the process: stores, notifications, queue and jobs.
Crash ==
    /\ up /\ spent.crashes < MaxCrashes /\ Spend("crashes")
    /\ up' = FALSE
    /\ platforms' = [p \in Platforms |-> Unwatched(Live(platforms[p]))]
    /\ tenants' = [t \in Tenants |-> Unwatched(Live(tenants[t]))]
    /\ domains' = [d \in Domains |-> Unwatched(Live(domains[d]))]
    /\ maps' = [m \in Maps |-> Unwatched(Live(maps[m]))]
    /\ behind' = {} /\ queue' = EmptyQueue /\ job' = [w \in Workers |-> Idle]
    /\ UNCHANGED ready

\* The initial list fills the stores before the workers start.
Restart ==
    /\ ~up /\ up' = TRUE
    /\ platforms' = [p \in Platforms |-> Listed(Live(platforms[p]))]
    /\ tenants' = [t \in Tenants |-> Listed(Live(tenants[t]))]
    /\ domains' = [d \in Domains |-> Listed(Live(domains[d]))]
    /\ UNCHANGED <<ready, behind, maps, queue, job, spent>>
-----------------------------------------------------------------------------
FirstVersion(ns) == IF ns = Absent THEN Absent ELSE [rv |-> 0, uid |-> 0, ns |-> ns]

\* A first start on an existing cluster.
Init ==
    \E api \in InitialApi :
        /\ platforms = [p \in Platforms |-> Listed(FirstVersion(api.platforms[p]))]
        /\ tenants = [t \in Tenants |-> Listed(api.tenants[t])]
        /\ domains = [d \in Domains |-> Listed(api.domains[d])]
        /\ ready = [p \in Platforms |-> "none"] /\ behind = {}
        /\ maps = [m \in Maps |-> Unwatched(Absent)]
        /\ up = TRUE /\ queue = EmptyQueue
        /\ job = [w \in Workers |-> Idle]
        /\ spent = [edits |-> 0, failures |-> 0, crashes |-> 0]

Edit ==
    \/ \E t \in Tenants : \E v \in TenantVals[t] \cup {Absent} : EditTenant(t, v)
    \/ \E d \in Domains : \E v \in DomainVals[d] \cup {Absent} : EditDomain(d, v)
    \/ \E p, q \in Platforms : EditService(p, q)
    \/ \E p \in Platforms, ns \in Namespaces : EditPlatform(p, ns) \/ CreatePlatform(p, ns)
    \/ \E p \in Platforms : DeletePlatform(p)

Observe ==
    \/ \E p \in Platforms : ObservePlatform(p)
    \/ \E t \in Tenants : ObserveTenant(t)
    \/ \E d \in Domains : ObserveDomain(d)
    \/ \E m \in Maps : ObserveMap(m)

Handle ==
    \/ \E p \in Platforms : HandlePlatform(p)
    \/ \E t \in Tenants : HandleTenant(t)
    \/ \E d \in Domains : HandleDomain(d)

\* The steps of a sync that do not fail.
Work(w) == \/ ResetStatus(w) \/ List(w) \/ Look(w) \/ CallApi(w)
           \/ UpdateStatus(w) \/ Finish(w)

Fail(w) == ResetFails(w) \/ CallFails(w) \/ UpdateFails(w)

Next ==
    \/ Edit \/ Observe \/ Handle \/ Crash \/ Restart
    \/ \E m \in Maps : Collect(m)
    \/ \E p \in queue.delayed : Retry(p)
    \/ \E w \in Workers : Work(w) \/ Fail(w) \/ \E p \in Ready(queue) : Take(w, p)

Spec == Init /\ [][Next]_vars
=============================================================================
