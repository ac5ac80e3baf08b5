----------------------- MODULE ProvisioningProperties -----------------------
(***************************************************************************)
(* What the tenant provisioner promises.                                   *)
(***************************************************************************)
EXTENDS ProvisioningController

Jobs == [pc : {"idle", "read", "list", "provision", "migrate", "publish", "done", "retry"},
         key : Keys, target : TenantSpec \cup {Absent, PlatformTarget},
         items : SUBSET Manifests, changed : BOOLEAN, failed : BOOLEAN]

\* Every object goes through versions users may write, one after the other.
ViewsOK ==
    /\ tenants \in [Tenants -> ViewOf(TenantSpec \cup {Absent})]
    /\ categories \in [Categories -> ViewOf(CategorySpec \cup {Absent})]
    /\ resources \in [Resources -> ViewOf(ResourceSpec \cup {Absent})]
    /\ \A t \in Tenants :
            tenants[t] \in ViewOf(TenantVals[t] \cup {Absent}) /\ WellFormed(tenants[t])
    /\ \A c \in Categories :
            categories[c] \in ViewOf(CategoryVals[c] \cup {Absent}) /\ WellFormed(categories[c])
    /\ \A r \in Resources :
            resources[r] \in ViewOf(ResourceVals \cup {Absent}) /\ WellFormed(resources[r])

\* A worker lists resources only for a target that exists.
ControlOK ==
    /\ phase \in {"down", "starting", "running"}
    /\ initial \subseteq Objects
    /\ queue \in QueueOver(Keys)
    /\ job \in [Workers -> Jobs]
    /\ \A w \in Workers : job[w].pc = "list" => job[w].target # Absent

OutsideOK ==
    /\ platforms \subseteq Platforms
    /\ stacks \in [Stacks -> SUBSET Manifests]
    /\ unmigrated \subseteq Stacks
    /\ recorded \in [Keys -> {"none", "success", "failure"}]
    /\ published \in [Keys -> {"none", "success", "failure"}]
    /\ spent \in [edits : 0 .. MaxEdits, failures : 0 .. MaxFailures,
                  crashes : 0 .. MaxCrashes, lost : 0 .. MaxLost]

(* Types: every variable stays in its set; a store is never ahead of the API *)
(* server or behind the handlers, every notification to come is of a change, *)
(* and a worker lists resources only for a target that exists.               *)
TypeOK == ViewsOK /\ ControlOK /\ OutsideOK
-----------------------------------------------------------------------------
\* Tenants that never carry the label that skips provisioning.
Unskipped == {t \in Tenants : \A v \in TenantVals[t] : ~v.skip}

TenantKeySet   == [platform : Platforms, tenant : Unskipped, domain : Domains]
PlatformKeySet == [platform : Platforms, tenant : {NoTenant}, domain : Domains]

Busy(w) == job[w].pc # "idle"

LiveTenant(k) == Live(tenants[k.tenant])

\* The manifests a sync of k would find if it saw the API server as it is.
WantedNow(k) == TenantItems(k, LiveTenant(k), LiveCategories, LiveResources)

\* A tenant asks for the domain, and nothing is in the way of provisioning it.
Due(k) == /\ Refs(LiveTenant(k), k)
          /\ Renderable(k, LiveTenant(k), LiveCategories, LiveResources)

Provisioned(k) == stacks[StackOf(k)] = WantedNow(k)

\* No work on k is queued, under way or to come from an event not yet handled.
Settled(k) ==
    /\ phase = "running"
    /\ k \notin queue.dirty \cup queue.processing \cup queue.delayed
    /\ \A t \in Tenants : UpToDate(tenants[t])
    /\ \A c \in Categories : UpToDate(categories[c])
    /\ \A r \in Resources : UpToDate(resources[r])
-----------------------------------------------------------------------------
\* No two keys share a stack: no two tenants of a platform have the same name,
\* in whatever namespaces, and no name and domain read as another pair or as a
\* platform's.
StacksAreDistinct == \A k, l \in Keys : StackOf(k) = StackOf(l) => k = l

(* No two workers ever work on the same stack: the queue is there to ensure  *)
(* "we are never processing the same item simultaneously in two different    *)
(* workers" (provisioning_controller.go:64-67), and an item is a stack as    *)
(* long as no two tenants of a platform share a name.                        *)
OneWorkerPerStack ==
    \A v, w \in Workers :
        v # w /\ Busy(v) /\ Busy(w) => StackOf(job[v].key) # StackOf(job[w].key)

(* When the controller has nothing left to do for a domain a tenant asks for *)
(* and that can be rendered, the last Kubernetes event recorded for it is    *)
(* one of success only if its stack holds exactly the manifests the API      *)
(* server describes, and otherwise one of failure, whatever edits, failures, *)
(* crashes and stale stores came before; as long as the publisher sent every *)
(* message it was given, the last message says the same (the handlers,       *)
(* syncTarget, publishSuccessEvents, publishFailureEvents).                  *)
SettledIsAnnounced ==
    \A k \in TenantKeySet :
        Settled(k) /\ Due(k) =>
            /\ \/ recorded[k] = "failure"
               \/ recorded[k] = "success" /\ Provisioned(k)
            /\ spent.lost = 0 => published[k] = recorded[k]

(* "domains removed from DomainRefs are still synced and their resources get *)
(* deprovisioned/cleaned up" (provisioning_controller.go:808-809): when the  *)
(* controller is done with a domain no tenant asks for, its stack is gone.   *)
SettledIsCleanedUp ==
    \A k \in TenantKeySet :
        Settled(k) /\ ~Refs(LiveTenant(k), k) => stacks[StackOf(k)] = {}

(* The migrations of an enabled tenant have run since its stack last changed *)
(* (syncTarget: HasChanges, tenantMigrator).                                 *)
SettledIsMigrated ==
    \A k \in TenantKeySet :
        Settled(k) /\ Refs(LiveTenant(k), k) /\ stacks[StackOf(k)] # {} =>
            StackOf(k) \notin unmigrated

(* The same for the platform's own stacks: a resource of target Platform is  *)
(* in the stack of its domain once the controller is done with it.           *)
SettledPlatformIsProvisioned ==
    \A k \in PlatformKeySet :
        Settled(k) /\ k.platform \in platforms =>
            stacks[StackOf(k)] = PlatformItems(k, LiveResources)

(* A tenant that always carries the label skip-provisioning is left alone by *)
(* all three paths that enqueue it, its own events, its category's and the   *)
(* resources' (enqueueTenant, enqueueTenantDomain): nothing is deployed for  *)
(* it, and nothing announced.                                                *)
SkippedIsUntouched ==
    \A k \in Keys :
        k.tenant # NoTenant /\ (\A v \in TenantVals[k.tenant] : v.skip) =>
            stacks[StackOf(k)] = {} /\ recorded[k] = "none" /\ published[k] = "none"

(* "If a transient error occurs, [...] the item is put back on the workqueue *)
(* and attempted again after a back-off period"                              *)
(* (provisioning_controller.go:274-277): the controller does not come to rest*)
(* with a failed sync.                                                       *)
FailureIsRetried ==
    \A k \in TenantKeySet :
        Settled(k) /\ Refs(LiveTenant(k), k) => recorded[k] # "failure"

-----------------------------------------------------------------------------
(* Why no wake-up is lost *)

TenantPending(k) == ~UpToDate(tenants[k.tenant])

CategoryPending(k) ==
    \E c \in Categories : LiveTenant(k).category = c /\ ~UpToDate(categories[c])

ResourcePending(k) ==
    \E r \in Resources :
        /\ ~UpToDate(resources[r])
        /\ \E v \in Versions(resources[r]) : InTarget(v, k.platform, k.domain, "Tenant")

\* k is queued, or will be by the handler of an event under way.
Pending(k) == \/ k \in queue.dirty
              \/ TenantPending(k) \/ CategoryPending(k) \/ ResourcePending(k)

(* Wherever the controller is in its work, a domain that is due and whose    *)
(* stack is not as the API server describes it has its key queued, under     *)
(* work, waiting for a retry, or coming from an event - or a failure of it   *)
(* has been recorded (the enqueue functions and handlers,                    *)
(* processNextWorkItem).                                                     *)
NoLostWakeup ==
    \A k \in TenantKeySet :
        phase # "down" /\ Due(k) /\ ~(recorded[k] = "success" /\ Provisioned(k)) =>
            \/ Pending(k) \/ k \in queue.delayed \/ k \in queue.processing
            \/ recorded[k] = "failure"

UpToDateJob(w) ==
    LET j == job[w]
    IN  /\ j.pc = "list" => j.target = LiveTenant(j.key)
        /\ j.pc = "provision" => /\ j.target = LiveTenant(j.key)
                                 /\ j.items = WantedNow(j.key)
        /\ j.pc = "migrate" => Provisioned(j.key)
        /\ j.pc = "publish" /\ ~j.failed => Provisioned(j.key)
        /\ j.pc = "done" => \/ recorded[j.key] = "failure"
                            \/ recorded[j.key] = "success" /\ Provisioned(j.key)

(* A worker whose reads are out of date - a domain asked for again while it  *)
(* is being cleaned up, a list taken before a change - is followed by        *)
(* another sync of its key (client-go's dirty set, used by                   *)
(* processNextWorkItem).                                                     *)
StaleJobIsRedone ==
    \A w \in Workers :
        Busy(w) /\ job[w].key \in TenantKeySet /\ Due(job[w].key) =>
            Pending(job[w].key) \/ UpToDateJob(w)

(* The queue's processing set is the set of the keys the workers hold, each  *)
(* held by one worker, and nobody works unless the controller runs.          *)
WorkersHoldKeys ==
    /\ queue.processing = {job[w].key : w \in {v \in Workers : Busy(v)}}
    /\ \A v, w \in Workers : v # w /\ Busy(v) /\ Busy(w) => job[v].key # job[w].key
    /\ phase # "running" => \A w \in Workers : ~Busy(w)
-----------------------------------------------------------------------------
(* Fairness: the informers, their handlers, the delaying queue and each      *)
(* worker keep running; the queue is a FIFO, so a key that is ready time and *)
(* again is taken; a crashed process is restarted.  Users edit, calls fail   *)
(* and the process crashes when they will.                                   *)
Fairness ==
    /\ WF_vars(Restart) /\ WF_vars(StartWorkers)
    /\ WF_vars(Observe) /\ WF_vars(Handle)
    /\ \A k \in TenantKeySet : WF_vars(Retry(k))
    /\ \A k \in TenantKeySet : SF_vars(\E w \in Workers : Take(w, k))
    /\ \A w \in Workers : WF_vars(Work(w))

FairSpec == Spec /\ Fairness

(* Once the users stop editing, every domain a tenant asks for and that can  *)
(* be rendered is provisioned for good, or a failure of it has been recorded:*)
(* failed reads are retried (processNextWorkItem), crashes are recovered from*)
(* (Run).                                                                    *)
EventuallyProvisioned ==
    \A k \in TenantKeySet :
        <>[](Due(k) => Provisioned(k) \/ recorded[k] = "failure")
=============================================================================
