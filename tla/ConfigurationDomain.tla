------------------------ MODULE ConfigurationDomain ------------------------
(***************************************************************************)
(* The configuration domain controller aggregates, for each                *)
(* ConfigurationDomain, the ConfigMaps, the Secrets and the Vault secrets  *)
(* of its platform into one ConfigMap, one Secret and one                  *)
(* SecretProviderClass ("spc") in its namespace.  Handlers put domains on a*)
(* rate limited queue; a worker deletes the outputs that are not wanted,   *)
(* withdraws the Ready condition, creates or updates the others, and sets  *)
(* the condition.  Nobody tells the controller of changes in Vault: a      *)
(* domain with secrets is queued again after an interval.                  *)
(*                                                                         *)
(* The steps of a worker are its calls to the API server.  An Update takes *)
(* the resource version of the object in the store, so looking at the store*)
(* and the call that follows are one step: a write in between fails like   *)
(* one the store has not observed.  The lists a sync aggregates are read in*)
(* that step too: a list read earlier is that of a store that has not      *)
(* observed more.  Vault is read as it is at that step, though the code    *)
(* asks for one folder after the other.                                    *)
(***************************************************************************)
EXTENDS Informer, WorkQueue, ConfigRouting, FiniteSets

CONSTANTS
    Platforms, Namespaces,
    Domains, NoDomain,      \* <<namespace, name>>; the key of an idle worker
    Kinds,                  \* of outputs: "configMap", "secret" and, with Vault, "spc"
    Sources,                \* <<kind, namespace, name>> of what is aggregated
    Data,                   \* sets of <<key, value>>
    DomainVals, SourceVals, \* versions users may write
    Unselectable,           \* domains whose labels are no valid selector: too long
    Foreign, Role,          \* owner of somebody else's object; key of the Vault role
    InitialApi,             \* what may be in the API server at start-up
    PlatformsMayChange,     \* may users write Platforms?
    PlatformsMayCome,       \* may they create Platforms?
    Tampering,              \* what users do to outputs: "delete", "empty", "take"
    Workers,
    MaxEdits, MaxFailures, MaxCrashes   \* bounds of the model

DomainSpec == [platform : Platforms, maps : BOOLEAN, secrets : BOOLEAN]

\* rv: the resource version of the last write to anything but the status
DomainVersions == [rv : 0 .. MaxEdits, uid : 0 .. MaxEdits, spec : DomainSpec]

SourceSpec == [platform : Platforms, domain : Seq(STRING), data : Data]

VaultEnabled == "spc" \in Kinds

Outputs == Kinds \X Domains

OutputData == SUBSET ((UNION Data) \cup ({Role} \X Platforms))

OutputVersions == [owner : (0 .. MaxEdits) \cup {Foreign}, platform : Platforms,
                   domain : Seq(STRING), data : OutputData]

ASSUME KindsAssumption ==
    /\ Kinds \in {{"configMap", "secret"}, {"configMap", "spc", "secret"}}
    /\ \A s \in Sources : s \in Kinds \X Namespaces \X {s[3]}
    /\ IsFiniteSet(Sources) /\ Unselectable \subseteq Domains

\* No domain is called "global", and no dot is in the name of a domain.
ASSUME NamesAssumption ==
    \A d \in Domains : /\ d \in Namespaces \X Seq(STRING) /\ d[1] \in Seq(STRING)
                       /\ Len(d[1]) = 1 /\ Len(d[2]) = 1 /\ d[2] # Global

ASSUME ValuesAssumption ==
    /\ DomainVals \in [Domains -> SUBSET DomainSpec]
    /\ SourceVals \in [Sources -> SUBSET SourceSpec]
    /\ Absent \notin DomainVersions \cup SourceSpec \cup OutputVersions \cup Namespaces
    /\ NoDomain \notin Domains /\ Foreign \notin 0 .. MaxEdits

ASSUME BoundsAssumption ==
    /\ MaxEdits \in Nat /\ MaxFailures \in Nat /\ MaxCrashes \in Nat
    /\ PlatformsMayChange \in BOOLEAN /\ PlatformsMayCome \in BOOLEAN

ASSUME InitialAssumption ==
    \A api \in InitialApi :
        /\ api.platforms \in [Platforms -> Namespaces \cup {Absent}]
        /\ DOMAIN api.domains = Domains /\ DOMAIN api.sources = Sources
        /\ \A d \in Domains : api.domains[d] \in DomainVals[d] \cup {Absent}
        /\ \A s \in Sources : api.sources[s] \in SourceVals[s] \cup {Absent}

VARIABLES
    platforms,      \* views of the target namespaces of the platforms
    domains,        \* views of the ConfigurationDomains
    sources,        \* views of the objects to aggregate; Vault's have no store
    outputs,        \* views of the aggregated objects
    ready,          \* the Ready condition of each domain in the API server
    behind,         \* domains whose last status write is not in the store
    up,             \* is there a controller?
    queue,          \* the work queue
    job,            \* what each worker is doing
    spent           \* how much of each bound is used

apiVars == <<platforms, domains, sources>>
vars == <<apiVars, outputs, ready, behind, up, queue, job, spent>>
-----------------------------------------------------------------------------
(* Aggregation *)

Present(objects) == {x \in DOMAIN objects : objects[x] # Absent}

\* What the lists of a sync return; an object in several lists is merged with
\* the last.  Vault has no folder for a domain of another namespace.  Objects
\* named like the output (in the model: like the domain) are left out, but not
\* those of Vault.
LayerOf(d, kind, platform, target, objects, s) ==
    LET all    == Layers(d, platform, target, s[2], objects[s])
        layers == IF kind = "spc" THEN all \ {4} ELSE all
    IN  CHOOSE i \in layers \cup {0} : \A l \in layers : l <= i

\* <<layer, object>>
Read(d, kind, platform, target, objects) ==
    {r \in {<<LayerOf(d, kind, platform, target, objects, s), s>> :
               s \in {t \in Present(objects) : t[1] = kind /\ (kind # "spc" => t[3] # d[2])}} :
        r[1] # 0}

\* The listers return objects in no particular order.
Orders == {order \in [Sources -> 1 .. Cardinality(Sources)] :
              \A s, t \in Sources : order[s] = order[t] => s = t}

\* Mutant of Later: whichever lists the objects are in.
LaterInAnyList(t, r, order) == order[t[2]] > order[r[2]]

Later(t, r, order) == t[1] > r[1] \/ (t[1] = r[1] /\ order[t[2]] > order[r[2]])

\* aggregateConfigMaps, aggregateSecrets: the last object with a key wins.
Merged(read, objects, order) ==
    UNION {{e \in objects[r[2]].data :
               \A t \in read : Later(t, r, order) =>
                   \A f \in objects[t[2]].data : f[1] # e[1]} : r \in read}

\* A SecretProviderClass names the role of the platform too.
Aggregates(d, kind, platform, target, objects) ==
    {Merged(read, objects, order) \cup {<<Role, platform>> : x \in {kind} \cap {"spc"}} :
        read \in {Read(d, kind, platform, target, objects)}, order \in Orders}

CachedSources == [s \in Sources |-> Cached(sources[s])]
LiveSources   == [s \in Sources |-> Live(sources[s])]
-----------------------------------------------------------------------------
(* What wakes a domain *)

Targets == [p \in {q \in Platforms : Cached(platforms[q]) # Absent} |-> Cached(platforms[p])]

Refs == [d \in {e \in Domains : Cached(domains[e]) # Absent} |->
            Cached(domains[d]).spec.platform]

\* Mutant of OnDomain: of the spec only the platform is compared.
OnPlatformRef(d, old, new) ==
    IF new = Absent \/ (old # Absent /\ old.spec.platform = new.spec.platform) THEN {} ELSE {d}

OnDomain(d, old, new) ==
    IF new = Absent \/ (old # Absent /\ old.spec = new.spec) THEN {} ELSE {d}

\* Objects of the kinds whose events are handled.
OnObject(namespace, old, new) ==
    IF old = Absent THEN Wakes(namespace, new, Targets, Refs)
    ELSE IF new = Absent THEN Wakes(namespace, old, Targets, Refs)
    ELSE WakesOnUpdate(namespace, old, new, Targets, Refs)

\* Without Vault the events of Secrets are not handled.
OnSource(s, old, new) ==
    IF s[1] = "configMap" \/ VaultEnabled THEN OnObject(s[2], old, new) ELSE {}

\* Mutant of OnOutput: outputs are not inputs.
OnNoOutput(o, old, new) == {}

\* An output wakes its domain when it is updated or deleted, not when it is
\* added; a SecretProviderClass only when it is deleted.
OnOutput(o, old, new) ==
    IF old = Absent THEN {}
    ELSE IF o[1] = "spc"
    THEN IF new = Absent /\ old.owner # Foreign THEN {o[2]} ELSE {}
    ELSE OnSource(<<o[1], o[2][1], o[2][2]>>, old, new)
-----------------------------------------------------------------------------
(* What the users and the cluster do *)

Spend(what) == spent' = [spent EXCEPT ![what] = @ + 1]

\* While the controller is down nobody watches: only the last version remains.
Write(view, v) == IF up THEN Written(view, v) ELSE Unwatched(v)

WriteDomain(d, v) ==
    /\ spent.edits < MaxEdits /\ Spend("edits")
    /\ domains' = [domains EXCEPT ![d] = Write(@, v)]
    /\ UNCHANGED <<platforms, sources, outputs, behind, up, queue, job>>

CreateDomain(d, spec) ==
    /\ Live(domains[d]) = Absent
    /\ WriteDomain(d, [rv |-> spent.edits + 1, uid |-> spent.edits + 1, spec |-> spec])
    /\ ready' = [ready EXCEPT ![d] = "none"]

\* Of the spec or, if it is the same, of the metadata.
EditDomain(d, spec) ==
    LET v == Live(domains[d])
    IN  /\ v # Absent
        /\ WriteDomain(d, [v EXCEPT !.rv = spent.edits + 1, !.spec = spec])
        /\ UNCHANGED ready

DeleteDomain(d) ==
    /\ Live(domains[d]) # Absent
    /\ WriteDomain(d, Absent)
    /\ ready' = [ready EXCEPT ![d] = "none"]

\* A platform is created, deleted, or gets another target namespace.
EditPlatform(p, ns) ==
    /\ PlatformsMayChange /\ spent.edits < MaxEdits /\ Spend("edits")
    /\ ns # Live(platforms[p]) /\ (PlatformsMayCome \/ Live(platforms[p]) # Absent)
    /\ platforms' = [platforms EXCEPT ![p] = Write(@, ns)]
    /\ UNCHANGED <<domains, sources, outputs, ready, behind, up, queue, job>>

EditSource(s, v) ==
    /\ spent.edits < MaxEdits /\ Spend("edits")
    /\ v # Live(sources[s])
    /\ sources' = [sources EXCEPT ![s] = IF s[1] = "spc" THEN Unwatched(v) ELSE Write(@, v)]
    /\ UNCHANGED <<platforms, domains, outputs, ready, behind, up, queue, job>>

\* The informer for SecretProviderClasses is there with Vault only; without it
\* there are none.
WriteOutput(o, v) ==
    outputs' = IF v = Live(outputs[o]) THEN outputs
               ELSE [outputs EXCEPT ![o] = Write(@, v)]

ForeignObject(p) == [owner |-> Foreign, platform |-> p, domain |-> <<>>, data |-> {}]

\* Somebody deletes an output, empties it, or takes its name for another object.
Tampered(o) ==
    LET v == Live(outputs[o])
    IN  {Absent : x \in {"delete"} \cap Tampering}
        \cup {[v EXCEPT !.data = {}] : x \in {y \in {"empty"} \cap Tampering : v # Absent}}
        \cup {ForeignObject(p) : p \in {q \in Platforms : "take" \in Tampering}}

EditOutput(o, v) ==
    /\ spent.edits < MaxEdits /\ Spend("edits")
    /\ v # Live(outputs[o]) /\ WriteOutput(o, v)
    /\ UNCHANGED <<apiVars, ready, behind, up, queue, job>>

Orphan(o) ==
    LET v == Live(outputs[o])
        d == Live(domains[o[2]])
    IN  v # Absent /\ v.owner # Foreign /\ (d # Absent => d.uid # v.owner)

\* The garbage collector deletes what an object that is gone controlled.
Collect(o) ==
    /\ Orphan(o) /\ WriteOutput(o, Absent)
    /\ UNCHANGED <<apiVars, ready, behind, up, queue, job, spent>>
-----------------------------------------------------------------------------
(* Informers and event handlers *)

\* A status is only written when the store has every version of the domain, so
\* the next version in the store brings that status with it.
ObserveDomain(d) ==
    /\ up /\ (CanObserve(domains[d]) \/ d \in behind)
    /\ domains' = IF CanObserve(domains[d])
                  THEN [domains EXCEPT ![d] = Observed(@)] ELSE domains
    /\ behind' = behind \ {d}
    /\ UNCHANGED <<platforms, sources, outputs, ready, up, queue, job, spent>>

\* The handlers of platforms only log.
ObservePlatform(p) ==
    /\ up /\ CanObserve(platforms[p])
    /\ platforms' = [platforms EXCEPT ![p] = Notified(Observed(@))]
    /\ UNCHANGED <<domains, sources, outputs, ready, behind, up, queue, job, spent>>

ObserveSource(s) ==
    /\ up /\ CanObserve(sources[s])
    /\ sources' = [sources EXCEPT ![s] = Observed(@)]
    /\ UNCHANGED <<platforms, domains, outputs, ready, behind, up, queue, job, spent>>

ObserveOutput(o) ==
    /\ up /\ CanObserve(outputs[o])
    /\ outputs' = [outputs EXCEPT ![o] = Observed(@)]
    /\ UNCHANGED <<apiVars, ready, behind, up, queue, job, spent>>

\* Nothing comes of a key that no domain ever has.
Enqueue(keys) == queue' = AddAll(queue, keys \cap Domains)

HandleDomain(d) ==
    /\ up /\ CanNotify(domains[d])
    /\ Enqueue(OnDomain(d, OldVersion(domains[d]), NewVersion(domains[d])))
    /\ domains' = [domains EXCEPT ![d] = Notified(@)]
    /\ UNCHANGED <<platforms, sources, outputs, ready, behind, up, job, spent>>

HandleSource(s) ==
    /\ up /\ CanNotify(sources[s])
    /\ Enqueue(OnSource(s, OldVersion(sources[s]), NewVersion(sources[s])))
    /\ sources' = [sources EXCEPT ![s] = Notified(@)]
    /\ UNCHANGED <<platforms, domains, outputs, ready, behind, up, job, spent>>

HandleOutput(o) ==
    /\ up /\ CanNotify(outputs[o])
    /\ Enqueue(OnOutput(o, OldVersion(outputs[o]), NewVersion(outputs[o])))
    /\ outputs' = [outputs EXCEPT ![o] = Notified(@)]
    /\ UNCHANGED <<apiVars, ready, behind, up, job, spent>>

\* The delaying queue hands a key back.
Retry(d) ==
    /\ up /\ d \in queue.delayed
    /\ queue' = BackoffOver(queue, d)
    /\ UNCHANGED <<apiVars, outputs, ready, behind, up, job, spent>>
-----------------------------------------------------------------------------
(* Workers *)

Idle == [pc |-> "idle", key |-> NoDomain, domain |-> Absent, target |-> Absent,
         fresh |-> FALSE, left |-> {}]

Take(w, d) ==
    /\ up /\ job[w].pc = "idle" /\ d \in Ready(queue)
    /\ queue' = Get(queue, d)
    /\ job' = [job EXCEPT ![w] = [Idle EXCEPT !.pc = "read", !.key = d]]
    /\ UNCHANGED <<apiVars, outputs, ready, behind, up, spent>>

\* The outputs a sync keeps; without a platform there are none.
WantedKinds(v, target) ==
    IF target = Absent THEN {}
    ELSE {k \in Kinds : IF k = "configMap" THEN v.spec.maps ELSE v.spec.secrets}

\* The order in which outputs are deleted, and aggregated.
First(kinds) == IF "configMap" \in kinds THEN "configMap"
                ELSE IF "spc" \in kinds THEN "spc" ELSE "secret"

\* Mutant of Cleaned: the sync goes on.
CleanedOnwards(j) == [j EXCEPT !.left = WantedKinds(j.domain, j.target), !.pc = "reset"]

\* After the cleanup, the sync ends if nothing else is to be done.
Cleaned(j) == [j EXCEPT !.left = WantedKinds(j.domain, j.target),
                        !.pc = IF WantedKinds(j.domain, j.target) = {} THEN "done" ELSE "reset"]

\* The domain and its platform are read from the stores.
ReadDomain(w) ==
    LET d == job[w].key
        v == Cached(domains[d])
        target == Cached(platforms[v.spec.platform])
        j == [job[w] EXCEPT !.domain = v, !.target = target, !.fresh = d \notin behind]
        unwanted == Kinds \ WantedKinds(v, target)
    IN  /\ job[w].pc = "read"
        /\ \/ v = Absent /\ job' = [job EXCEPT ![w].pc = "done"]
           \/ /\ v # Absent
              /\ job' = [job EXCEPT ![w] = IF unwanted = {} THEN Cleaned(j)
                                           ELSE [j EXCEPT !.pc = "cleanup", !.left = unwanted]]
        /\ UNCHANGED <<apiVars, outputs, ready, behind, up, queue, spent>>

\* Delete by name; nothing to delete is no error.
Cleanup(w) ==
    LET j == job[w]
        kind == First(j.left)
    IN  /\ j.pc = "cleanup"
        /\ WriteOutput(<<kind, j.key>>, Absent)
        /\ job' = [job EXCEPT ![w] = IF j.left = {kind} THEN Cleaned(j)
                                     ELSE [j EXCEPT !.left = @ \ {kind}]]
        /\ UNCHANGED <<apiVars, ready, behind, up, queue, spent>>

CleanupFails(w) ==
    LET j == job[w]
    IN  /\ j.pc = "cleanup"
        /\ spent.failures < MaxFailures /\ Spend("failures")
        /\ UNCHANGED outputs \/ WriteOutput(<<First(j.left), j.key>>, Absent)
        /\ job' = [job EXCEPT ![w].pc = "retry"]
        /\ UNCHANGED <<apiVars, ready, behind, up, queue>>

\* A status write takes the resource version of the domain that was read.
StatusConflicts(j) == ~j.fresh \/ Live(domains[j.key]) # j.domain

SetReady(d, status) ==
    /\ ready' = [ready EXCEPT ![d] = status]
    /\ behind' = behind \cup {d}

\* Mutant of ResetStatus: a conflict is ignored.
ResetBestEffort(w) ==
    LET j == job[w]
    IN  /\ j.pc = "reset"
        /\ IF StatusConflicts(j) THEN UNCHANGED <<ready, behind>> ELSE SetReady(j.key, "Unknown")
        /\ job' = [job EXCEPT ![w].pc = "sync"]
        /\ UNCHANGED <<apiVars, outputs, up, queue, spent>>

\* A conflict is an error of the sync.
ResetStatus(w) ==
    LET j == job[w]
    IN  /\ j.pc = "reset"
        /\ \/ /\ StatusConflicts(j)
              /\ job' = [job EXCEPT ![w].pc = "retry"]
              /\ UNCHANGED <<ready, behind>>
           \/ /\ ~StatusConflicts(j)
              /\ SetReady(j.key, "Unknown")
              /\ job' = [job EXCEPT ![w].pc = "sync"]
        /\ UNCHANGED <<apiVars, outputs, up, queue, spent>>

\* The call fails, or its answer is lost.
ResetFails(w) ==
    LET j == job[w]
    IN  /\ j.pc = "reset"
        /\ spent.failures < MaxFailures /\ Spend("failures")
        /\ \/ UNCHANGED <<ready, behind>>
           \/ ~StatusConflicts(j) /\ SetReady(j.key, "Unknown")
        /\ job' = [job EXCEPT ![w].pc = "retry"]
        /\ UNCHANGED <<apiVars, outputs, up, queue>>

\* An output as it is created, or as the one in the store is updated: only its
\* data, never its labels.
Built(j, stored, data) ==
    IF stored # Absent THEN [stored EXCEPT !.data = data]
    ELSE [owner |-> j.domain.uid, platform |-> j.domain.spec.platform,
          domain |-> j.key[2], data |-> data]

\* Labels that are too long are no error, an object that somebody else controls
\* neither.  An empty map comes back from the API server as nil, which DeepEqual
\* tells from the empty map of the aggregation.
LeftAlone(j, kind, stored, data) ==
    \/ j.key \in Unselectable /\ kind # "spc"
    \/ stored # Absent /\ stored.owner # j.domain.uid
    \/ stored # Absent /\ stored.data = data /\ data # {}

\* Create finds the name taken; Update finds another resource version.
WriteConflicts(o) ==
    IF Cached(outputs[o]) = Absent THEN Live(outputs[o]) # Absent ELSE CanObserve(outputs[o])

\* Mutant of Synced: the domain is not queued for later.
SyncedForGood(w, kind) ==
    /\ job' = [job EXCEPT ![w].left = @ \ {kind},
                          ![w].pc = IF job[w].left = {kind} THEN "succeed" ELSE "sync"]
    /\ UNCHANGED queue

\* On to the next output.  With the last secrets the domain is queued for later.
Synced(w, kind) ==
    /\ job' = [job EXCEPT ![w].left = @ \ {kind},
                          ![w].pc = IF job[w].left = {kind} THEN "succeed" ELSE "sync"]
    /\ queue' = IF kind = "secret" THEN AddAfter(queue, job[w].key) ELSE queue

Wanted(j, kind, objects) == Aggregates(j.key, kind, j.domain.spec.platform, j.target, objects)

\* Sync of one of the handlers: Get and, depending on it, Create or Update.
Sync(w) ==
    LET j      == job[w]
        kind   == First(j.left)
        o      == <<kind, j.key>>
        stored == Cached(outputs[o])
    IN  /\ j.pc = "sync"
        /\ \E data \in Wanted(j, kind, CachedSources) :
              \/ /\ LeftAlone(j, kind, stored, data)
                 /\ Synced(w, kind) /\ UNCHANGED outputs
              \/ /\ ~LeftAlone(j, kind, stored, data) /\ WriteConflicts(o)
                 /\ job' = [job EXCEPT ![w].pc = "fail"]
                 /\ UNCHANGED <<outputs, queue>>
              \/ /\ ~LeftAlone(j, kind, stored, data) /\ ~WriteConflicts(o)
                 /\ WriteOutput(o, Built(j, stored, data)) /\ Synced(w, kind)
        /\ UNCHANGED <<apiVars, ready, behind, up, spent>>

\* A call to Vault or the API server fails, or the answer of the latter is lost.
SyncFails(w) ==
    LET j      == job[w]
        kind   == First(j.left)
        o      == <<kind, j.key>>
        stored == Cached(outputs[o])
    IN  /\ j.pc = "sync"
        /\ spent.failures < MaxFailures /\ Spend("failures")
        /\ \/ UNCHANGED outputs
           \/ \E data \in Wanted(j, kind, CachedSources) :
                 /\ ~LeftAlone(j, kind, stored, data) /\ ~WriteConflicts(o)
                 /\ WriteOutput(o, Built(j, stored, data))
        /\ job' = [job EXCEPT ![w].pc = "fail"]
        /\ UNCHANGED <<apiVars, ready, behind, up, queue>>

AfterUpdate(w) ==
    job' = [job EXCEPT ![w].pc = IF @ = "fail" THEN "retry" ELSE "done"]

\* updateStatus, with the domain resetStatus returned: a write to it since then
\* is a conflict, which is only logged.
UpdateStatus(w) ==
    LET j == job[w]
    IN  /\ j.pc \in {"succeed", "fail"}
        /\ IF Live(domains[j.key]) = j.domain
           THEN SetReady(j.key, IF j.pc = "fail" THEN "False" ELSE "True")
           ELSE UNCHANGED <<ready, behind>>
        /\ AfterUpdate(w)
        /\ UNCHANGED <<apiVars, outputs, up, queue, spent>>

UpdateFails(w) ==
    /\ job[w].pc \in {"succeed", "fail"}
    /\ spent.failures < MaxFailures /\ Spend("failures")
    /\ AfterUpdate(w)
    /\ UNCHANGED <<apiVars, outputs, ready, behind, up, queue>>

\* Mutant of Finish: a key is forgotten even if its sync returned an error.
FinishForgets(w) ==
    /\ job[w].pc \in {"done", "retry"}
    /\ queue' = Done(queue, job[w].key)
    /\ job' = [job EXCEPT ![w] = Idle]
    /\ UNCHANGED <<apiVars, outputs, ready, behind, up, spent>>

\* The end of processNextWorkItem.
Finish(w) ==
    LET j == job[w]
        q == IF j.pc = "retry" THEN AddRateLimited(queue, j.key) ELSE queue
    IN  /\ j.pc \in {"done", "retry"}
        /\ queue' = Done(q, j.key)
        /\ job' = [job EXCEPT ![w] = Idle]
        /\ UNCHANGED <<apiVars, outputs, ready, behind, up, spent>>
-----------------------------------------------------------------------------
(* The process *)

\* What is lost with the process: stores, notifications, queue and jobs.
Crash ==
    /\ up /\ spent.crashes < MaxCrashes /\ Spend("crashes")
    /\ up' = FALSE
    /\ platforms' = [p \in Platforms |-> Unwatched(Live(platforms[p]))]
    /\ domains' = [d \in Domains |-> Unwatched(Live(domains[d]))]
    /\ sources' = [s \in Sources |-> Unwatched(Live(sources[s]))]
    /\ outputs' = [o \in Outputs |-> Unwatched(Live(outputs[o]))]
    /\ behind' = {} /\ queue' = EmptyQueue /\ job' = [w \in Workers |-> Idle]
    /\ UNCHANGED ready

ListedSource(s, v) == IF s[1] = "spc" THEN Unwatched(v) ELSE Listed(v)

\* The initial list fills the stores before the workers start.
Restart ==
    /\ ~up /\ up' = TRUE
    /\ domains' = [d \in Domains |-> Listed(Live(domains[d]))]
    /\ sources' = [s \in Sources |-> ListedSource(s, Live(sources[s]))]
    /\ outputs' = [o \in Outputs |-> Listed(Live(outputs[o]))]
    /\ UNCHANGED <<platforms, ready, behind, queue, job, spent>>
-----------------------------------------------------------------------------
FirstVersion(spec) == IF spec = Absent THEN Absent ELSE [rv |-> 0, uid |-> 0, spec |-> spec]

\* A first start on an existing cluster.
Init ==
    \E api \in InitialApi :
        /\ platforms = [p \in Platforms |-> Unwatched(api.platforms[p])]
        /\ domains = [d \in Domains |-> Listed(FirstVersion(api.domains[d]))]
        /\ sources = [s \in Sources |-> ListedSource(s, api.sources[s])]
        /\ outputs = [o \in Outputs |-> Unwatched(Absent)]
        /\ ready = [d \in Domains |-> "none"] /\ behind = {}
        /\ up = TRUE /\ queue = EmptyQueue
        /\ job = [w \in Workers |-> Idle]
        /\ spent = [edits |-> 0, failures |-> 0, crashes |-> 0]

Edit ==
    \/ \E d \in Domains : \E spec \in DomainVals[d] : CreateDomain(d, spec) \/ EditDomain(d, spec)
    \/ \E d \in Domains : DeleteDomain(d)
    \/ \E p \in Platforms, ns \in Namespaces \cup {Absent} : EditPlatform(p, ns)
    \/ \E s \in Sources : \E v \in SourceVals[s] \cup {Absent} : EditSource(s, v)
    \/ \E o \in Outputs : \E v \in Tampered(o) : EditOutput(o, v)

Observe ==
    \/ \E p \in Platforms : ObservePlatform(p)
    \/ \E d \in Domains : ObserveDomain(d)
    \/ \E s \in Sources : ObserveSource(s)
    \/ \E o \in Outputs : ObserveOutput(o)

Handle ==
    \/ \E d \in Domains : HandleDomain(d)
    \/ \E s \in Sources : HandleSource(s)
    \/ \E o \in Outputs : HandleOutput(o)

\* The steps of a sync that do not fail.
Work(w) == \/ ReadDomain(w) \/ Cleanup(w) \/ ResetStatus(w) \/ Sync(w)
           \/ UpdateStatus(w) \/ Finish(w)

Fail(w) == CleanupFails(w) \/ ResetFails(w) \/ SyncFails(w) \/ UpdateFails(w)

Next ==
    \/ Edit \/ Observe \/ Handle \/ Crash \/ Restart
    \/ \E o \in Outputs : Collect(o)
    \/ \E d \in queue.delayed : Retry(d)
    \/ \E w \in Workers : Work(w) \/ Fail(w) \/ \E d \in Ready(queue) : Take(w, d)

Spec == Init /\ [][Next]_vars
=============================================================================
