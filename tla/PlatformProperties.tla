------------------------- MODULE PlatformProperties -------------------------
(***************************************************************************)
(* What the platform controller promises.                                  *)
(***************************************************************************)
EXTENDS PlatformController

Steps == {"idle", "reset", "list", "look", "create", "delete", "recreate",
          "succeed", "fail", "done", "retry"}

\* The steps between the two status writes of a sync.
Unready == {"list", "look", "create", "delete", "recreate", "succeed", "fail"}

Jobs == [pc : Steps, key : Platforms \cup {NoPlatform},
         platform : PlatformVersions \cup {Absent},
         now : Writes \cup {NoWrite}, left : SUBSET Writes]

ViewsOK ==
    /\ platforms \in [Platforms -> ViewOf(PlatformVersions \cup {Absent})]
    /\ tenants \in [Tenants -> ViewOf(TenantSpec \cup {Absent})]
    /\ domains \in [Domains -> ViewOf(DomainSpec \cup {Absent})]
    /\ maps \in [Maps -> ViewOf(ConfigMaps \cup {Absent})]
    /\ \A p \in Platforms : WellFormed(platforms[p])
    /\ \A t \in Tenants : WellFormed(tenants[t])
    /\ \A d \in Domains : WellFormed(domains[d])
    /\ \A m \in Maps : WellFormed(maps[m]) /\ maps[m].cached = 1

ControlOK ==
    /\ up \in BOOLEAN
    /\ queue \in QueueOver(Platforms)
    /\ job \in [Workers -> Jobs]
    /\ \A w \in Workers :
            /\ job[w].pc # "idle" => job[w].key \in Platforms
            /\ job[w].pc \in Unready => job[w].platform # Absent
            /\ job[w].pc \in {"look", "create", "delete", "recreate"} => job[w].now # NoWrite

StatusOK ==
    /\ ready \in [Platforms -> {"none", "Unknown", "False", "True"}]
    /\ behind \subseteq Platforms
    /\ spent \in [edits : 0 .. MaxEdits, failures : 0 .. MaxFailures,
                  crashes : 0 .. MaxCrashes]

(* Types: every variable stays in its set; a store is never ahead of the API *)
(* server or behind the handlers, every notification to come is of a change, *)
(* and a worker past its first read has a platform and a ConfigMap in hand.  *)
TypeOK == ViewsOK /\ ControlOK /\ StatusOK
-----------------------------------------------------------------------------
Busy(w) == job[w].pc # "idle"

PlatformHere(p) == Live(platforms[p]) # Absent

WantedMap(p) == PlatformWrite(p, Live(platforms[p]), LiveTenants)

Wanted(p) == [owner |-> Owner(p, Live(platforms[p])), data |-> WantedMap(p).data]

WantedOf(p, d) == [owner |-> Owner(p, Live(platforms[p])),
                   data |-> DomainWrite(p, LiveTenants, d, LiveDomains[d]).data]

Settled(p) ==
    /\ up
    /\ p \notin queue.dirty \cup queue.processing \cup queue.delayed
    /\ \A q \in Platforms : UpToDate(platforms[q])
    /\ \A t \in Tenants : UpToDate(tenants[t])
    /\ \A d \in Domains : UpToDate(domains[d])
-----------------------------------------------------------------------------
(* While a worker is at the ConfigMaps of a platform, one of which it may    *)
(* have deleted and not yet created again, the platform is not Ready         *)
(* (resetStatus before the lists, updateStatus after the last ConfigMap).    *)
ReadyIsWithdrawn ==
    \A w \in Workers : job[w].pc \in Unready => ready[job[w].key] # "True"

(* "If the Condition is False, the resource SHOULD be considered to be in the*)
(* process of reconciling" (platform_controller.go:38): the controller does  *)
(* not come to rest with a platform whose condition is False.                *)
FalseIsReconciling ==
    \A p \in Platforms : ready[p] = "False" => ~Settled(p)

(* At rest, and if no call has failed so far, the ConfigMap of each domain   *)
(* of a platform holds what the API server's tenants and domains say (the    *)
(* handlers, syncHandler, genDomainTenantsCfgMap), or belongs to somebody    *)
(* else: to the platform the domain was moved from.                          *)
SettledDomainMaps ==
    (\A q \in Platforms : Settled(q)) /\ spent.failures = 0 =>
        \A p \in Platforms :
            PlatformHere(p) =>
                \A d \in Of(p, LiveDomains) :
                    LET map == Live(maps[d])
                    IN  map = WantedOf(p, d) \/ (map # Absent /\ map.owner[1] # p)

(* "If the existing ConfigMap data differs from the aggregation result we    *)
(* should update the ConfigMap resource" (platform_controller.go:556-557):   *)
(* when the controller is done with a platform, its own ConfigMap does not   *)
(* differ from what the tenants say.                                         *)
DifferentDataIsUpdated ==
    \A p \in Platforms :
        LET map == Live(maps[WantedMap(p).map])
        IN  Settled(p) /\ PlatformHere(p) /\ map # Absent /\ map.owner = Wanted(p).owner =>
                map = Wanted(p)

(* A ConfigMap that a platform in the cluster controls is only ever deleted  *)
(* by a worker on that platform (syncConfigMap: IsControlledBy), whoever else*)
(* claims the domain meanwhile.  So while no platform is deleted: the delete *)
(* is by name.                                                               *)
OnlyOwnMapsAreReplaced ==
    [][\A m \in Maps :
         LET map == Live(maps[m])
         IN  map # Absent /\ ~Orphan(map) /\ Live(maps[m])' # map =>
                \E w \in Workers : /\ job[w].pc = "delete" /\ job[w].now.map = m
                                   /\ Controlled(map, job[w].key, job[w].platform)]_vars
-----------------------------------------------------------------------------
(* The controller as a reconciler of the ConfigMaps of platforms *)

Coming(view, On(_, _)) ==
    UNION {On(view.log[i], view.log[i + 1]) : i \in 1 .. Len(view.log) - 1}

\* Work that is queued, delayed, or coming from an event.
PendingKeys ==
    IF ~up THEN Platforms
    ELSE queue.dirty \cup queue.delayed
           \cup (UNION {Coming(platforms[p], LAMBDA old, new : OnPlatform(p, old, new)) :
                           p \in Platforms})
           \cup (UNION {Coming(tenants[t], OnReference) : t \in Tenants})

Register == INSTANCE Reconciler WITH
    Keys <- Platforms,
    wanted <- [p \in Platforms |-> IF PlatformHere(p) THEN Wanted(p) ELSE Absent],
    built <- [p \in Platforms |-> IF PlatformHere(p) THEN Live(maps[WantedMap(p).map])
                                  ELSE Absent],
    pending <- PendingKeys,
    syncing <- {job[w].key : w \in {v \in Workers : Busy(v)}}

(* The controller implements the reconciler: a platform whose ConfigMap is   *)
(* not what the API server's tenants say is always queued, under work, or to *)
(* be woken by an event under way, whatever edits, failures, crashes, status *)
(* conflicts and stale stores came before.                                   *)
ImplementsReconciler == Register!Spec

(* ... and so at rest the ConfigMap of every platform is right.              *)
PlatformMapsAreConsistent == Register!Consistent
-----------------------------------------------------------------------------
(* Fairness: as for the tenant provisioner; the garbage collector runs too.  *)
Fairness ==
    /\ WF_vars(Restart) /\ WF_vars(Observe) /\ WF_vars(Handle)
    /\ WF_vars(\E m \in Maps : Collect(m))
    /\ \A p \in Platforms : WF_vars(Retry(p))
    /\ \A p \in Platforms : SF_vars(\E w \in Workers : Take(w, p))
    /\ \A w \in Workers : WF_vars(Work(w))

FairSpec == Spec /\ Fairness

(* Once the users stop editing, every platform's ConfigMap is what its       *)
(* tenants say, for good, and its condition is not False: conflicts, lost    *)
(* answers and crashes are recovered from (processNextWorkItem, Run).        *)
EventuallyReconciled ==
    \A p \in Platforms :
        <>[](PlatformHere(p) => /\ Live(maps[WantedMap(p).map]) = Wanted(p)
                                /\ ready[p] # "False")
=============================================================================
