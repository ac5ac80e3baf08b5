--------------------------- MODULE PlatformProofs ---------------------------
(***************************************************************************)
(* Theorems about the platform controller, for all constants: types, the   *)
(* exclusion of workers, what the Ready condition promises, who deletes a  *)
(* platform's ConfigMaps, that the controller implements the reconciler of *)
(* the platforms' own ConfigMaps, which are therefore right at rest, and   *)
(* that those of their domains are right at rest if no call has failed.    *)
(***************************************************************************)
EXTENDS PlatformProperties, ClientGoProofs

-----------------------------------------------------------------------------
(* Values *)

(* What the stores and the API server answer are versions, or nothing.     *)
LEMMA ReadTypes ==
    ASSUME ViewsOK
    PROVE  /\ \A p \in Platforms :
                /\ Live(platforms[p]) \in PlatformVersions \cup {Absent}
                /\ Cached(platforms[p]) \in PlatformVersions \cup {Absent}
           /\ \A t \in Tenants :
                /\ Live(tenants[t]) \in TenantSpec \cup {Absent}
                /\ Cached(tenants[t]) \in TenantSpec \cup {Absent}
           /\ \A d \in Domains :
                /\ Live(domains[d]) \in DomainSpec \cup {Absent}
                /\ Cached(domains[d]) \in DomainSpec \cup {Absent}
           /\ \A m \in Maps : Live(maps[m]) \in ConfigMaps \cup {Absent}
BY ReadsAreVersions DEF ViewsOK

(* The versions users may write are versions.                              *)
LEMMA VersionsAreSpecs ==
    /\ \A t \in Tenants : TenantVals[t] \subseteq TenantSpec
    /\ \A d \in Domains : DomainVals[d] \subseteq DomainSpec
    /\ Absent \notin TenantSpec \cup DomainSpec \cup PlatformVersions \cup ConfigMaps
BY ValuesAssumption

(* What a sync wants to write are writes.                                  *)
LEMMA WriteTypes ==
    ASSUME NEW p \in Platforms, NEW platform \in PlatformVersions,
           NEW ts \in [Tenants -> TenantSpec \cup {Absent}],
           NEW ds \in [Domains -> DomainSpec \cup {Absent}]
    PROVE  /\ PlatformWrite(p, platform, ts) \in Writes
           /\ DomainWrites(p, ts, ds) \subseteq Writes
<1>1. \A t \in Of(p, ts) : t \in Tenants /\ ts[t] \in TenantSpec
  BY DEF Of
<1>2. PlatformWrite(p, platform, ts) \in Writes
  <2>1. <<platform.ns, p>> \in Maps
    BY DEF PlatformVersions, Maps
  <2>2. \A t \in Of(p, ts) : <<t, ts[t].enabled, ts[t].info, {}>> \in Entries
    BY <1>1 DEF Entries, TenantSpec
  <2> QED BY <2>1, <2>2 DEF PlatformWrite, Writes
<1>3. ASSUME NEW d \in Of(p, ds) PROVE DomainWrite(p, ts, d, ds[d]) \in Writes
  <2>1. d \in Domains /\ ds[d] \in DomainSpec
    BY DEF Of
  <2>2. d \in Maps
    BY <2>1, ValuesAssumption DEF Maps
  <2>3. ASSUME NEW t \in Of(p, ts) PROVE DomainEntry(t, ts[t], d, ds[d]) \in Entries
    <3> DEFINE enabled == ts[t].enabled /\ d[2] \in ts[t].domains
               shown   == IF ds[d].export /\ enabled THEN ts[t].domains ELSE {}
    <3>1. enabled \in BOOLEAN /\ shown \in SUBSET DomainNames /\ t \in Tenants
      BY <1>1 DEF TenantSpec
    <3>2. DomainEntry(t, ts[t], d, ds[d]) = <<t, enabled, NoInfo, shown>>
      BY DEF DomainEntry
    <3>3. \A e \in BOOLEAN, s \in SUBSET DomainNames : <<t, e, NoInfo, s>> \in Entries
      BY <3>1 DEF Entries
    <3> HIDE DEF enabled, shown
    <3> QED BY <3>1, <3>2, <3>3
  <2> QED BY <2>2, <2>3 DEF DomainWrite, Writes
<1> QED BY <1>2, <1>3 DEF DomainWrites

(* The stores list specs.                                                  *)
LEMMA ListTypes ==
    ASSUME ViewsOK
    PROVE  /\ CachedTenants \in [Tenants -> TenantSpec \cup {Absent}]
           /\ CachedDomains \in [Domains -> DomainSpec \cup {Absent}]
BY ReadTypes DEF CachedTenants, CachedDomains

(* Events put names of platforms on the queue.                             *)
LEMMA EventTypes ==
    /\ \A old, new \in TenantSpec \cup {Absent} : OnReference(old, new) \subseteq Platforms
    /\ \A old, new \in DomainSpec \cup {Absent} : OnReference(old, new) \subseteq Platforms
    /\ \A p \in Platforms : \A old, new : OnPlatform(p, old, new) \subseteq Platforms
BY DEF OnReference, OnPlatform, TenantSpec, DomainSpec
-----------------------------------------------------------------------------
(* Versions of platforms *)

\* The last version of a platform is not of a later edit.
VersionsArePast ==
    \A p \in Platforms : PlatformHere(p) => Live(platforms[p]).rv <= spent.edits

(* So a write to a platform is of another version than the last.           *)
LEMMA EditsAreNew ==
    ASSUME ViewsOK, StatusOK, VersionsArePast, NEW p \in Platforms, NEW ns \in Namespaces,
           spent.edits < MaxEdits
    PROVE  /\ \A v : v.rv = spent.edits + 1 => v # Live(platforms[p]) \/ ~PlatformHere(p)
           /\ [rv |-> spent.edits + 1, uid |-> spent.edits + 1, ns |-> ns] \in PlatformVersions
           /\ PlatformHere(p) =>
                /\ Live(platforms[p]) \in PlatformVersions
                /\ [Live(platforms[p]) EXCEPT !.rv = spent.edits + 1, !.ns = ns]
                       \in PlatformVersions
<1>1. spent.edits \in Nat /\ MaxEdits \in Nat /\ spent.edits + 1 \in 0 .. MaxEdits
  BY BoundsAssumption DEF StatusOK
<1>2. PlatformHere(p) => Live(platforms[p]) \in PlatformVersions
  BY ReadTypes DEF PlatformHere
<1>3. PlatformHere(p) => Live(platforms[p]).rv \in Nat
  BY <1>2, BoundsAssumption DEF PlatformVersions
<1>4. \A v : v.rv = spent.edits + 1 => v # Live(platforms[p]) \/ ~PlatformHere(p)
  BY <1>1, <1>3 DEF VersionsArePast
<1>5. [rv |-> spent.edits + 1, uid |-> spent.edits + 1, ns |-> ns] \in PlatformVersions
  BY <1>1 DEF PlatformVersions
<1>6. \A v \in PlatformVersions :
        [v EXCEPT !.rv = spent.edits + 1, !.ns = ns] \in PlatformVersions
  BY <1>1 DEF PlatformVersions
<1> QED BY <1>2, <1>4, <1>5, <1>6
-----------------------------------------------------------------------------
(* Steps of the views *)

(* Replacing a view by one of the same object.                             *)
LEMMA PlatformStep ==
    ASSUME ViewsOK, UNCHANGED <<tenants, domains, maps>>, NEW p \in Platforms, NEW view,
           view \in ViewOf(PlatformVersions \cup {Absent}), WellFormed(view),
           platforms' = [platforms EXCEPT ![p] = view]
    PROVE  ViewsOK'
BY DEF ViewsOK

LEMMA TenantStep ==
    ASSUME ViewsOK, UNCHANGED <<platforms, domains, maps>>, NEW t \in Tenants, NEW view,
           view \in ViewOf(TenantSpec \cup {Absent}), WellFormed(view),
           tenants' = [tenants EXCEPT ![t] = view]
    PROVE  ViewsOK'
BY DEF ViewsOK

LEMMA DomainStep ==
    ASSUME ViewsOK, UNCHANGED <<platforms, tenants, maps>>, NEW d \in Domains, NEW view,
           view \in ViewOf(DomainSpec \cup {Absent}), WellFormed(view),
           domains' = [domains EXCEPT ![d] = view]
    PROVE  ViewsOK'
BY DEF ViewsOK

LEMMA MapStep ==
    ASSUME ViewsOK, UNCHANGED apiVars, NEW m \in Maps, NEW view,
           view \in ViewOf(ConfigMaps \cup {Absent}), WellFormed(view), view.cached = 1,
           maps' = [maps EXCEPT ![m] = view]
    PROVE  ViewsOK'
BY DEF ViewsOK, apiVars

(* A write of another version leaves a view well formed, watched or not.   *)
LEMMA WriteView ==
    ASSUME NEW S, NEW view \in ViewOf(S), WellFormed(view),
           NEW v \in S, v # Live(view)
    PROVE  /\ Write(view, v) \in ViewOf(S) /\ WellFormed(Write(view, v))
           /\ Live(Write(view, v)) = v
BY UnwatchedView, WrittenView DEF Write

LEMMA WriteMapView ==
    ASSUME ViewsOK, UNCHANGED apiVars, NEW m \in Maps,
           NEW v \in ConfigMaps \cup {Absent}, v # Live(maps[m]), WriteMap(m, v)
    PROVE  ViewsOK'
<1>1. maps[m] \in ViewOf(ConfigMaps \cup {Absent}) /\ WellFormed(maps[m]) /\ maps[m].cached = 1
  BY DEF ViewsOK
<1>2. Written(maps[m], v) \in ViewOf(ConfigMaps \cup {Absent}) /\ WellFormed(Written(maps[m], v))
  BY <1>1, WrittenView
<1>3. Written(maps[m], v).cached = 1 /\ Unwatched(v).cached = 1
  BY <1>1 DEF Written, Unwatched, ViewOf
<1>4. Unwatched(v) \in ViewOf(ConfigMaps \cup {Absent}) /\ WellFormed(Unwatched(v))
  BY UnwatchedView
<1> DEFINE view == IF ConfigMapsLag /\ up THEN Written(maps[m], v) ELSE Unwatched(v)
<1>5. /\ view \in ViewOf(ConfigMaps \cup {Absent}) /\ WellFormed(view) /\ view.cached = 1
      /\ maps' = [maps EXCEPT ![m] = view]
  BY <1>2, <1>3, <1>4 DEF WriteMap
<1> HIDE DEF view
<1> QED BY <1>5, MapStep

(* The users write versions; the last of a platform is of the last edit.   *)
LEMMA EditViews ==
    ASSUME ViewsOK, StatusOK, VersionsArePast, Edit
    PROVE  ViewsOK'
<1>1. ASSUME NEW t \in Tenants, NEW v \in TenantVals[t] \cup {Absent}, EditTenant(t, v)
      PROVE  ViewsOK'
  <2>1. /\ tenants[t] \in ViewOf(TenantSpec \cup {Absent}) /\ WellFormed(tenants[t])
        /\ v \in TenantSpec \cup {Absent} /\ v # Live(tenants[t])
    BY <1>1, VersionsAreSpecs DEF ViewsOK, EditTenant
  <2>2. /\ Write(tenants[t], v) \in ViewOf(TenantSpec \cup {Absent})
        /\ WellFormed(Write(tenants[t], v))
    BY <2>1, WriteView
  <2> QED BY <1>1, <2>2, TenantStep DEF EditTenant
<1>2. ASSUME NEW d \in Domains, NEW v \in DomainVals[d] \cup {Absent}, EditDomain(d, v)
      PROVE  ViewsOK'
  <2>1. /\ domains[d] \in ViewOf(DomainSpec \cup {Absent}) /\ WellFormed(domains[d])
        /\ v \in DomainSpec \cup {Absent} /\ v # Live(domains[d])
    BY <1>2, VersionsAreSpecs DEF ViewsOK, EditDomain
  <2>2. /\ Write(domains[d], v) \in ViewOf(DomainSpec \cup {Absent})
        /\ WellFormed(Write(domains[d], v))
    BY <2>1, WriteView
  <2> QED BY <1>2, <2>2, DomainStep DEF EditDomain
<1>3. ASSUME NEW p \in Platforms, NEW q \in Platforms, EditService(p, q)
      PROVE  ViewsOK'
  BY <1>3 DEF ViewsOK, EditService, apiVars
<1>4. ASSUME NEW p \in Platforms, NEW v \in PlatformVersions \cup {Absent},
             v # Live(platforms[p]), WritePlatform(p, v)
      PROVE  ViewsOK'
  <2>1. /\ Write(platforms[p], v) \in ViewOf(PlatformVersions \cup {Absent})
        /\ WellFormed(Write(platforms[p], v))
    BY <1>4, WriteView DEF ViewsOK
  <2> QED BY <1>4, <2>1, PlatformStep DEF WritePlatform
<1>5. ASSUME NEW p \in Platforms, NEW ns \in Namespaces, EditPlatform(p, ns)
      PROVE  ViewsOK'
  <2> DEFINE v == [Live(platforms[p]) EXCEPT !.rv = spent.edits + 1, !.ns = ns]
  <2>1. /\ PlatformHere(p) /\ spent.edits < MaxEdits /\ WritePlatform(p, v)
        /\ Live(platforms[p]) \in PlatformVersions /\ v \in PlatformVersions
    BY <1>5, EditsAreNew DEF EditPlatform, WritePlatform, PlatformHere
  <2>2. v.rv = spent.edits + 1
    BY <2>1 DEF PlatformVersions
  <2>3. v # Live(platforms[p])
    BY <2>1, <2>2, EditsAreNew
  <2> QED BY <1>4, <2>1, <2>3
<1>6. ASSUME NEW p \in Platforms, NEW ns \in Namespaces, CreatePlatform(p, ns)
      PROVE  ViewsOK'
  <2> DEFINE v == [rv |-> spent.edits + 1, uid |-> spent.edits + 1, ns |-> ns]
  <2>1. Live(platforms[p]) = Absent /\ spent.edits < MaxEdits /\ WritePlatform(p, v)
    BY <1>6 DEF CreatePlatform, WritePlatform
  <2>2. v \in PlatformVersions
    BY <2>1, EditsAreNew
  <2>3. v # Absent
    BY <2>2, VersionsAreSpecs
  <2> QED BY <1>4, <2>1, <2>2, <2>3
<1>7. ASSUME NEW p \in Platforms, DeletePlatform(p)
      PROVE  ViewsOK'
  BY <1>4, <1>7 DEF DeletePlatform
<1> QED BY <1>1, <1>2, <1>3, <1>5, <1>6, <1>7 DEF Edit

(* The garbage collector deletes a ConfigMap.                              *)
LEMMA CollectViews ==
    ASSUME ViewsOK, NEW m \in Maps, Collect(m)
    PROVE  ViewsOK'
BY WriteMapView DEF Collect

(* The steps of the informers.                                             *)
LEMMA ObserveViews == ViewsOK /\ Observe => ViewsOK'
<1> SUFFICES ASSUME ViewsOK, Observe PROVE ViewsOK'
  OBVIOUS
<1>1. ASSUME NEW p \in Platforms, ObservePlatform(p) PROVE ViewsOK'
  <2>1. CASE CanObserve(platforms[p])
    <3>1. /\ Observed(platforms[p]) \in ViewOf(PlatformVersions \cup {Absent})
          /\ WellFormed(Observed(platforms[p]))
      BY <2>1, ObservedView DEF ViewsOK
    <3> QED BY <1>1, <2>1, <3>1, PlatformStep DEF ObservePlatform
  <2>2. CASE ~CanObserve(platforms[p])
    BY <1>1, <2>2 DEF ObservePlatform, ViewsOK
  <2> QED BY <2>1, <2>2
<1>2. ASSUME NEW t \in Tenants, ObserveTenant(t) PROVE ViewsOK'
  <2>1. /\ Observed(tenants[t]) \in ViewOf(TenantSpec \cup {Absent})
        /\ WellFormed(Observed(tenants[t]))
    BY <1>2, ObservedView DEF ViewsOK, ObserveTenant
  <2> QED BY <1>2, <2>1, TenantStep DEF ObserveTenant
<1>3. ASSUME NEW d \in Domains, ObserveDomain(d) PROVE ViewsOK'
  <2>1. /\ Observed(domains[d]) \in ViewOf(DomainSpec \cup {Absent})
        /\ WellFormed(Observed(domains[d]))
    BY <1>3, ObservedView DEF ViewsOK, ObserveDomain
  <2> QED BY <1>3, <2>1, DomainStep DEF ObserveDomain
<1>4. ASSUME NEW m \in Maps, ObserveMap(m) PROVE ViewsOK'
  <2> DEFINE seen == Observed(maps[m])
  <2>1. /\ maps[m] \in ViewOf(ConfigMaps \cup {Absent}) /\ maps[m].cached = 1
        /\ seen \in ViewOf(ConfigMaps \cup {Absent}) /\ WellFormed(seen)
    BY <1>4, ObservedView DEF ViewsOK, ObserveMap
  <2>2. seen.cached = 2
    BY <2>1 DEF Observed, ViewOf
  <2> HIDE DEF seen
  <2>3. /\ Notified(seen) \in ViewOf(ConfigMaps \cup {Absent}) /\ WellFormed(Notified(seen))
        /\ Notified(seen).cached = 1
    <3>1. CanNotify(seen) /\ Notified(seen).cached = 1
      BY <2>2 DEF CanNotify, Notified
    <3> QED BY <2>1, <3>1, NotifiedView
  <2> QED BY <1>4, <2>3, MapStep DEF ObserveMap, seen
<1> QED BY <1>1, <1>2, <1>3, <1>4 DEF Observe

(* The steps of the handlers.                                              *)
LEMMA HandleViews == ViewsOK /\ Handle => ViewsOK'
<1> SUFFICES ASSUME ViewsOK, Handle PROVE ViewsOK'
  OBVIOUS
<1>1. ASSUME NEW p \in Platforms, HandlePlatform(p) PROVE ViewsOK'
  <2>1. /\ Notified(platforms[p]) \in ViewOf(PlatformVersions \cup {Absent})
        /\ WellFormed(Notified(platforms[p]))
    BY <1>1, NotifiedView DEF ViewsOK, HandlePlatform
  <2> QED BY <1>1, <2>1, PlatformStep DEF HandlePlatform
<1>2. ASSUME NEW t \in Tenants, HandleTenant(t) PROVE ViewsOK'
  <2>1. /\ Notified(tenants[t]) \in ViewOf(TenantSpec \cup {Absent})
        /\ WellFormed(Notified(tenants[t]))
    BY <1>2, NotifiedView DEF ViewsOK, HandleTenant
  <2> QED BY <1>2, <2>1, TenantStep DEF HandleTenant
<1>3. ASSUME NEW d \in Domains, HandleDomain(d) PROVE ViewsOK'
  <2>1. /\ Notified(domains[d]) \in ViewOf(DomainSpec \cup {Absent})
        /\ WellFormed(Notified(domains[d]))
    BY <1>3, NotifiedView DEF ViewsOK, HandleDomain
  <2> QED BY <1>3, <2>1, DomainStep DEF HandleDomain
<1> QED BY <1>1, <1>2, <1>3 DEF Handle

(* A crash loses the notifications, a restart lists all objects anew.      *)
LEMMA ProcessViews == ViewsOK /\ (Crash \/ Restart) => ViewsOK'
<1> SUFFICES ASSUME ViewsOK, Crash \/ Restart PROVE ViewsOK'
  OBVIOUS
<1>1. \A S : \A v \in S \cup {Absent} :
        /\ Unwatched(v) \in ViewOf(S \cup {Absent}) /\ WellFormed(Unwatched(v))
        /\ Listed(v) \in ViewOf(S \cup {Absent}) /\ WellFormed(Listed(v))
        /\ Unwatched(v).cached = 1
  BY UnwatchedView, ListedView DEF Unwatched
<1>2. CASE Crash
  BY <1>1, <1>2, ReadTypes DEF Crash, ViewsOK
<1>3. CASE Restart
  BY <1>1, <1>3, ReadTypes DEF Restart, ViewsOK
<1> QED BY <1>2, <1>3
-----------------------------------------------------------------------------
(* Steps of the queue and of the workers *)

LEMMA IdleIsJob == Idle \in Jobs /\ Idle.pc = "idle"
BY DEF Idle, Jobs, Steps

\* What ControlOK says of a job.
JobOK(j) ==
    /\ j \in Jobs
    /\ j.pc # "idle" => j.key \in Platforms
    /\ j.pc \in Unready => j.platform # Absent
    /\ j.pc \in {"look", "create", "delete", "recreate"} => j.now # NoWrite

(* A worker goes from one job to another.                                  *)
LEMMA JobStep ==
    ASSUME ControlOK, UNCHANGED up, queue' \in QueueOver(Platforms),
           NEW w \in Workers, NEW j, JobOK(j), job' = [job EXCEPT ![w] = j]
    PROVE  ControlOK'
BY DEF ControlOK, JobOK

(* On to the next step of the same write, ...                              *)
LEMMA SameWrite ==
    ASSUME ControlOK, UNCHANGED <<up, queue>>, NEW w \in Workers, job[w].pc \in Unready,
           NEW pc \in Steps \ {"look", "create", "delete", "recreate"},
           job' = [job EXCEPT ![w].pc = pc]
    PROVE  ControlOK'
<1> DEFINE j == [job[w] EXCEPT !.pc = pc]
<1>1. /\ job[w] \in Jobs /\ job[w].key \in Platforms /\ job[w].platform # Absent
      /\ queue \in QueueOver(Platforms)
  BY DEF ControlOK, Unready
<1>2. JobOK(j) /\ job' = [job EXCEPT ![w] = j]
  BY <1>1 DEF JobOK, Jobs
<1> HIDE DEF j
<1> QED BY <1>1, <1>2, JobStep

LEMMA SameMap ==
    ASSUME ControlOK, UNCHANGED <<up, queue>>, NEW w \in Workers,
           job[w].pc \in {"look", "create", "delete", "recreate"},
           NEW pc \in {"look", "create", "delete", "recreate"},
           job' = [job EXCEPT ![w].pc = pc]
    PROVE  ControlOK'
<1> DEFINE j == [job[w] EXCEPT !.pc = pc]
<1>1. /\ job[w] \in Jobs /\ job[w].key \in Platforms /\ job[w].platform # Absent
      /\ job[w].now # NoWrite /\ queue \in QueueOver(Platforms)
  BY DEF ControlOK, Unready
<1>2. JobOK(j) /\ job' = [job EXCEPT ![w] = j]
  BY <1>1 DEF JobOK, Jobs, Steps
<1> HIDE DEF j
<1> QED BY <1>1, <1>2, JobStep

(* ... or to the next one.                                                 *)
LEMMA AdvanceControl ==
    ASSUME ControlOK, UNCHANGED <<up, queue>>, NEW w \in Workers,
           job[w].pc \in Unready, Advance(w)
    PROVE  ControlOK'
<1>1. /\ job[w] \in Jobs /\ job[w].key \in Platforms /\ job[w].platform # Absent
      /\ queue \in QueueOver(Platforms)
  BY DEF ControlOK, Unready
<1>2. CASE job' = [job EXCEPT ![w].pc = "succeed", ![w].now = NoWrite]
  <2> DEFINE j == [job[w] EXCEPT !.pc = "succeed", !.now = NoWrite]
  <2>1. JobOK(j) /\ job' = [job EXCEPT ![w] = j]
    BY <1>1, <1>2 DEF JobOK, Jobs, Steps
  <2> HIDE DEF j
  <2> QED BY <1>1, <2>1, JobStep
<1>3. ASSUME NEW d \in job[w].left,
             job' = [job EXCEPT ![w].pc = "look", ![w].now = d, ![w].left = @ \ {d}]
      PROVE  ControlOK'
  <2> DEFINE j == [job[w] EXCEPT !.pc = "look", !.now = d, !.left = @ \ {d}]
  <2>1. d \in Writes /\ d # NoWrite
    BY <1>1, ValuesAssumption DEF Jobs
  <2>2. JobOK(j) /\ job' = [job EXCEPT ![w] = j]
    BY <1>1, <1>3, <2>1 DEF JobOK, Jobs, Steps
  <2> HIDE DEF j
  <2> QED BY <1>1, <2>2, JobStep
<1> QED BY <1>2, <1>3 DEF Advance

LEMMA CallFailedControl ==
    ASSUME ControlOK, UNCHANGED <<up, queue>>, NEW w \in Workers,
           job[w].pc \in Unready, CallFailed(w)
    PROVE  ControlOK'
BY AdvanceControl, SameWrite DEF CallFailed, Steps
(* Every step of a worker, failures included, keeps jobs jobs.             *)
LEMMA WorkerControl ==
    ASSUME ViewsOK, ControlOK, NEW w \in Workers,
           Work(w) \/ Fail(w) \/ \E p \in Ready(queue) : Take(w, p)
    PROVE  ControlOK'
<1> DEFINE p == job[w].key
<1>1. /\ job \in [Workers -> Jobs] /\ job[w] \in Jobs /\ queue \in QueueOver(Platforms)
      /\ job[w].pc # "idle" => p \in Platforms
  BY DEF ControlOK
<1>2. ASSUME NEW pc \in {"done", "retry"}, job[w].pc # "idle", UNCHANGED <<up, queue>>,
             job' = [job EXCEPT ![w].pc = pc]
      PROVE  ControlOK'
  <2> DEFINE j == [job[w] EXCEPT !.pc = pc]
  <2>1. JobOK(j) /\ job' = [job EXCEPT ![w] = j]
    BY <1>1, <1>2 DEF JobOK, Jobs, Steps, Unready
  <2> HIDE DEF j
  <2> QED BY <1>1, <1>2, <2>1, JobStep
<1>3. ASSUME NEW k \in Ready(queue), Take(w, k) PROVE ControlOK'
  <2> DEFINE j == [Idle EXCEPT !.pc = "reset", !.key = k]
  <2>1. k \in Platforms
    BY <1>1 DEF Ready, QueueOver
  <2>2. JobOK(j) /\ job' = [job EXCEPT ![w] = j]
    BY <1>3, <2>1 DEF Take, JobOK, Jobs, Steps, Unready, Idle
  <2>3. queue' \in QueueOver(Platforms) /\ UNCHANGED up
    BY <1>1, <1>3, <2>1, QueueTypes DEF Take
  <2> HIDE DEF j
  <2> QED BY <2>2, <2>3, JobStep
<1>4. CASE ResetStatus(w)
  <2> DEFINE v == Cached(platforms[p])
  <2>1. job[w].pc = "reset" /\ UNCHANGED <<up, queue>>
    BY <1>4 DEF ResetStatus
  <2>2. CASE v # Absent /\ job' = [job EXCEPT ![w].pc = "list", ![w].platform = v]
    <3> DEFINE j == [job[w] EXCEPT !.pc = "list", !.platform = v]
    <3>1. v \in PlatformVersions
      BY <1>1, <2>1, <2>2, ReadTypes
    <3> HIDE DEF v
    <3>2. JobOK(j) /\ job' = [job EXCEPT ![w] = j]
      BY <1>1, <2>1, <2>2, <3>1 DEF JobOK, Jobs, Steps
    <3> HIDE DEF j
    <3> QED BY <1>1, <2>1, <3>2, JobStep
  <2> QED BY <1>2, <1>4, <2>1, <2>2 DEF ResetStatus
<1>5. CASE ResetFails(w)
  BY <1>2, <1>5 DEF ResetFails
<1>6. CASE List(w)
  <2> DEFINE now  == PlatformWrite(p, job[w].platform, CachedTenants)
             left == DomainWrites(p, CachedTenants, CachedDomains)
             j    == [job[w] EXCEPT !.pc = "look", !.now = now, !.left = left]
  <2>1. job[w].pc = "list" /\ UNCHANGED <<up, queue>> /\ p \in Platforms
    BY <1>1, <1>6 DEF List
  <2>2. job[w].platform \in PlatformVersions /\ job[w].platform # Absent
    BY <1>1, <2>1 DEF ControlOK, Unready, Jobs
  <2>3. now \in Writes /\ left \subseteq Writes
    BY <2>1, <2>2, ListTypes, WriteTypes
  <2>4. now # NoWrite
    BY <2>3, ValuesAssumption
  <2>5. job' = [job EXCEPT ![w] = j]
    BY <1>6 DEF List
  <2> HIDE DEF now, left
  <2>6. JobOK(j)
    BY <1>1, <2>1, <2>2, <2>3, <2>4 DEF JobOK, Jobs, Steps
  <2> HIDE DEF j
  <2> QED BY <1>1, <2>1, <2>5, <2>6, JobStep
<1>7. CASE Look(w)
  <2>1. job[w].pc = "look" /\ UNCHANGED <<up, queue>>
    BY <1>7 DEF Look
  <2> QED BY <1>7, <2>1, SameMap, AdvanceControl DEF Look, Unready
<1>8. CASE CallApi(w)
  <2>1. job[w].pc \in {"create", "delete", "recreate"} /\ UNCHANGED <<up, queue>>
    BY <1>8 DEF CallApi
  <2>2. CASE CallFailed(w)
    BY <2>1, <2>2, CallFailedControl DEF Unready
  <2>3. CASE Advance(w)
    BY <2>1, <2>3, AdvanceControl DEF Unready
  <2>4. ASSUME NEW pc \in {"delete", "recreate"}, job' = [job EXCEPT ![w].pc = pc]
        PROVE  ControlOK'
    BY <2>1, <2>4, SameMap
  <2> QED BY <1>8, <2>2, <2>3, <2>4 DEF CallApi
<1>9. CASE CallFails(w)
  BY <1>9, CallFailedControl DEF CallFails, Unready
<1>10. ASSUME job[w].pc \in {"succeed", "fail"}, AfterUpdate(w), UNCHANGED <<up, queue>>
       PROVE  ControlOK'
  <2>1. \E pc \in {"done", "retry"} : job' = [job EXCEPT ![w].pc = pc]
    BY <1>1, <1>10 DEF AfterUpdate
  <2> QED BY <1>2, <1>10, <2>1
<1>11. CASE UpdateStatus(w)
  BY <1>10, <1>11 DEF UpdateStatus
<1>12. CASE UpdateFails(w)
  BY <1>10, <1>12 DEF UpdateFails
<1>13. CASE Finish(w)
  <2>1. p \in Platforms /\ UNCHANGED up /\ job' = [job EXCEPT ![w] = Idle]
    BY <1>1, <1>13 DEF Finish
  <2>2. queue' \in QueueOver(Platforms)
    <3>1. AddRateLimited(queue, p) \in QueueOver(Platforms)
      BY <1>1, <2>1, QueueTypes
    <3> QED BY <1>1, <1>13, <2>1, <3>1, QueueTypes DEF Finish
  <2>3. JobOK(Idle)
    BY IdleIsJob DEF JobOK, Unready
  <2> QED BY <2>1, <2>2, <2>3, JobStep
<1> QED BY <1>3, <1>4, <1>5, <1>6, <1>7, <1>8, <1>9, <1>11, <1>12, <1>13 DEF Work, Fail

\* The steps that are not a worker's.
Others ==
    \/ Edit \/ Observe \/ Handle \/ Crash \/ Restart
    \/ (\E m \in Maps : Collect(m)) \/ (\E p \in queue.delayed : Retry(p))

(* Handlers add platforms to the queue, a crash clears everything.         *)
LEMMA OtherControl ==
    ASSUME ViewsOK, ControlOK, Others
    PROVE  ControlOK'
<1>1. queue \in QueueOver(Platforms) /\ up \in BOOLEAN
  BY DEF ControlOK
<1>2. ASSUME UNCHANGED <<up, queue, job>> PROVE ControlOK'
  BY <1>2 DEF ControlOK
<1>3. ASSUME queue' \in QueueOver(Platforms), UNCHANGED <<up, job>> PROVE ControlOK'
  BY <1>3 DEF ControlOK
<1>4. CASE Edit
  <2>1. ASSUME NEW p \in Platforms, NEW q \in Platforms, EditService(p, q) PROVE ControlOK'
    <3>1. {p, q} \in SUBSET Platforms
      OBVIOUS
    <3> QED BY <1>1, <1>3, <2>1, <3>1, QueueTypes DEF EditService
  <2>2. CASE \/ \E t \in Tenants : \E v \in TenantVals[t] \cup {Absent} : EditTenant(t, v)
             \/ \E d \in Domains : \E v \in DomainVals[d] \cup {Absent} : EditDomain(d, v)
    BY <1>2, <2>2 DEF EditTenant, EditDomain
  <2>3. CASE \/ \E p \in Platforms, ns \in Namespaces : EditPlatform(p, ns) \/ CreatePlatform(p, ns)
             \/ \E p \in Platforms : DeletePlatform(p)
    BY <1>2, <2>3 DEF EditPlatform, CreatePlatform, DeletePlatform, WritePlatform
  <2> QED BY <1>4, <2>1, <2>2, <2>3 DEF Edit
<1>5. CASE Observe
  BY <1>2, <1>5 DEF Observe, ObservePlatform, ObserveTenant, ObserveDomain, ObserveMap
<1>6. CASE \E m \in Maps : Collect(m)
  BY <1>2, <1>6 DEF Collect
<1>7. ASSUME NEW p \in Platforms, HandlePlatform(p) PROVE ControlOK'
  <2>1. OnPlatform(p, OldVersion(platforms[p]), NewVersion(platforms[p])) \subseteq Platforms
    BY EventTypes
  <2> QED BY <1>1, <1>3, <1>7, <2>1, QueueTypes DEF HandlePlatform
<1>8. ASSUME NEW t \in Tenants, HandleTenant(t) PROVE ControlOK'
  <2>1. /\ OldVersion(tenants[t]) \in TenantSpec \cup {Absent}
        /\ NewVersion(tenants[t]) \in TenantSpec \cup {Absent}
    BY <1>8, NotifiedView DEF ViewsOK, HandleTenant
  <2>2. OnReference(OldVersion(tenants[t]), NewVersion(tenants[t])) \subseteq Platforms
    BY <2>1, EventTypes
  <2> QED BY <1>1, <1>3, <1>8, <2>2, QueueTypes DEF HandleTenant
<1>9. ASSUME NEW d \in Domains, HandleDomain(d) PROVE ControlOK'
  <2>1. /\ OldVersion(domains[d]) \in DomainSpec \cup {Absent}
        /\ NewVersion(domains[d]) \in DomainSpec \cup {Absent}
    BY <1>9, NotifiedView DEF ViewsOK, HandleDomain
  <2>2. OnReference(OldVersion(domains[d]), NewVersion(domains[d])) \subseteq Platforms
    BY <2>1, EventTypes
  <2> QED BY <1>1, <1>3, <1>9, <2>2, QueueTypes DEF HandleDomain
<1>10. ASSUME NEW p \in queue.delayed, Retry(p) PROVE ControlOK'
  <2>1. p \in Platforms
    BY <1>1 DEF QueueOver
  <2> QED BY <1>1, <1>3, <1>10, <2>1, QueueTypes DEF Retry
<1>11. CASE Crash
  BY <1>11, QueueTypes, IdleIsJob, <1>1 DEF Crash, ControlOK, Unready
<1>12. CASE Restart
  BY <1>12 DEF Restart, ControlOK
<1> QED BY <1>4, <1>5, <1>6, <1>7, <1>8, <1>9, <1>10, <1>11, <1>12 DEF Others, Handle
-----------------------------------------------------------------------------
(* Steps of the ConfigMaps and of the status *)

(* A worker creates a ConfigMap where there is none, and deletes one.      *)
LEMMA CallViews ==
    ASSUME ViewsOK, ControlOK, UNCHANGED apiVars, NEW w \in Workers,
           job[w].pc \in {"create", "delete", "recreate"},
           CallPossible(job[w]), CallDone(job[w])
    PROVE  ViewsOK'
<1> DEFINE j == job[w]
           m == j.now.map
           v == IF j.pc = "delete" THEN Absent ELSE Desired(j)
<1>1. /\ j.key \in Platforms /\ j.platform \in PlatformVersions /\ j.now \in Writes
  BY DEF ControlOK, Unready, Jobs
<1>2. m \in Maps /\ j.now.data \in SUBSET Entries
  BY <1>1 DEF Writes
<1>3. Owner(j.key, j.platform) \in Platforms \X (0 .. MaxEdits)
  BY <1>1 DEF Owner, PlatformVersions
<1>4. Desired(j) \in ConfigMaps
  BY <1>2, <1>3 DEF Desired, ConfigMaps
<1>5. v \in ConfigMaps \cup {Absent} /\ v # Live(maps[m])
  BY <1>4, VersionsAreSpecs DEF CallPossible
<1>6. WriteMap(m, v)
  BY DEF CallDone
<1> HIDE DEF m, v
<1> QED BY <1>2, <1>5, <1>6, WriteMapView DEF m

LEMMA WorkerViews ==
    ASSUME ViewsOK, ControlOK, NEW w \in Workers,
           Work(w) \/ Fail(w) \/ \E p \in Ready(queue) : Take(w, p)
    PROVE  ViewsOK' /\ UNCHANGED <<apiVars, up>>
<1>1. UNCHANGED <<apiVars, up>>
  BY DEF Work, Fail, ResetStatus, List, Look, CallApi, UpdateStatus, Finish, ResetFails,
         CallFails, UpdateFails, Take
<1>2. CASE CallApi(w)
  BY <1>1, <1>2, CallViews DEF CallApi, ViewsOK, apiVars
<1>3. CASE CallFails(w)
  BY <1>1, <1>3, CallViews DEF CallFails, ViewsOK, apiVars
<1>4. ASSUME UNCHANGED maps PROVE ViewsOK'
  BY <1>1, <1>4 DEF ViewsOK, apiVars
<1>5. CASE \/ ResetStatus(w) \/ List(w) \/ Look(w) \/ UpdateStatus(w) \/ Finish(w)
           \/ ResetFails(w) \/ UpdateFails(w) \/ \E p \in Ready(queue) : Take(w, p)
  BY <1>4, <1>5 DEF ResetStatus, List, Look, UpdateStatus, Finish, ResetFails, UpdateFails, Take
<1> QED BY <1>1, <1>2, <1>3, <1>5 DEF Work, Fail

(* A bounded action uses its bound up by one.                              *)
LEMMA SpendTypes ==
    ASSUME StatusOK
    PROVE  LET Spent == [edits : 0 .. MaxEdits, failures : 0 .. MaxFailures,
                         crashes : 0 .. MaxCrashes]
           IN  /\ spent.edits < MaxEdits /\ Spend("edits") =>
                    spent' \in Spent /\ spent'.edits = spent.edits + 1
               /\ spent.failures < MaxFailures /\ Spend("failures") =>
                    spent' \in Spent /\ spent'.edits = spent.edits
               /\ spent.crashes < MaxCrashes /\ Spend("crashes") =>
                    spent' \in Spent /\ spent'.edits = spent.edits
BY BoundsAssumption DEF StatusOK, Spend

(* A worker sets the condition of its platform.                            *)
LEMMA WorkerStatus ==
    ASSUME ControlOK, StatusOK, NEW w \in Workers,
           Work(w) \/ Fail(w) \/ \E p \in Ready(queue) : Take(w, p)
    PROVE  StatusOK' /\ spent'.edits = spent.edits
<1> DEFINE p == job[w].key
<1>1. job[w].pc # "idle" => p \in Platforms
  BY DEF ControlOK
<1>2. ASSUME NEW status \in {"Unknown", "False", "True"}, p \in Platforms, SetReady(p, status)
      PROVE  /\ ready' \in [Platforms -> {"none", "Unknown", "False", "True"}]
             /\ behind' \subseteq Platforms
  BY <1>2 DEF StatusOK, SetReady
<1>3. CASE ResetStatus(w)
  BY <1>1, <1>2, <1>3 DEF ResetStatus, StatusOK
<1>4. CASE ResetFails(w)
  BY <1>1, <1>2, <1>4, SpendTypes DEF ResetFails, StatusOK
<1>5. CASE UpdateStatus(w)
  BY <1>1, <1>2, <1>5 DEF UpdateStatus, StatusOK
<1>6. CASE CallFails(w) \/ UpdateFails(w)
  BY <1>6, SpendTypes DEF CallFails, UpdateFails, StatusOK
<1>7. CASE \/ List(w) \/ Look(w) \/ CallApi(w) \/ Finish(w)
           \/ \E k \in Ready(queue) : Take(w, k)
  BY <1>7 DEF List, Look, CallApi, Finish, Take, StatusOK
<1> QED BY <1>3, <1>4, <1>5, <1>6, <1>7 DEF Work, Fail

(* A platform that comes or goes has no condition.                         *)
LEMMA OtherStatus ==
    ASSUME StatusOK, Others
    PROVE  StatusOK'
<1>1. CASE Edit
  <2>1. spent.edits < MaxEdits /\ Spend("edits") /\ UNCHANGED behind
    BY <1>1 DEF Edit, EditTenant, EditDomain, EditService, EditPlatform, CreatePlatform,
                DeletePlatform, WritePlatform
  <2>2. \/ UNCHANGED ready
        \/ \E p \in Platforms : ready' = [ready EXCEPT ![p] = "none"]
    BY <1>1 DEF Edit, EditTenant, EditDomain, EditService, EditPlatform, CreatePlatform,
                DeletePlatform
  <2> QED BY <2>1, <2>2, SpendTypes DEF StatusOK
<1>2. CASE Crash
  BY <1>2, SpendTypes DEF Crash, StatusOK
<1>3. CASE Observe
  BY <1>3 DEF Observe, ObservePlatform, ObserveTenant, ObserveDomain, ObserveMap, StatusOK
<1>4. CASE Handle \/ Restart \/ (\E m \in Maps : Collect(m)) \/ (\E p \in queue.delayed : Retry(p))
  BY <1>4 DEF Handle, HandlePlatform, HandleTenant, HandleDomain, Restart, Collect, Retry, StatusOK
<1> QED BY <1>1, <1>2, <1>3, <1>4 DEF Others
-----------------------------------------------------------------------------
(* Types *)

\* What an edit of a platform does.
Writing(p, v) ==
    /\ v \in PlatformVersions \cup {Absent} /\ v # Live(platforms[p])
    /\ v # Absent => v.rv = spent.edits + 1
    /\ platforms' = [platforms EXCEPT ![p] = Write(@, v)]
    /\ ready' \in {ready, [ready EXCEPT ![p] = "none"]}
    /\ v = Absent \/ ~PlatformHere(p) => ready' = [ready EXCEPT ![p] = "none"]

(* An edit is of a platform, or leaves the platforms alone and may wake one.*)
LEMMA EditEffect ==
    ASSUME TypeOK, VersionsArePast, Edit
    PROVE  /\ UNCHANGED <<up, behind, job>> /\ spent'.edits = spent.edits + 1
           /\ queue' = queue \/ \E keys \in SUBSET Platforms : queue' = AddAll(queue, keys)
           /\ \/ UNCHANGED <<platforms, ready>>
              \/ \E p \in Platforms, v \in PlatformVersions \cup {Absent} : Writing(p, v)
<1>1. ViewsOK /\ StatusOK
  BY DEF TypeOK
<1>2. spent' = [spent EXCEPT !.edits = @ + 1] /\ spent.edits < MaxEdits /\ UNCHANGED <<up, behind, job>>
  BY DEF Edit, EditTenant, EditDomain, EditService, EditPlatform, CreatePlatform,
         DeletePlatform, WritePlatform, Spend
<1>3. spent'.edits = spent.edits + 1
  BY <1>1, <1>2 DEF StatusOK
<1>4. queue' = queue \/ \E keys \in SUBSET Platforms : queue' = AddAll(queue, keys)
  <2>1. ASSUME NEW p \in Platforms, NEW q \in Platforms, EditService(p, q)
        PROVE  \E keys \in SUBSET Platforms : queue' = AddAll(queue, keys)
    <3> WITNESS {p, q} \in SUBSET Platforms
    <3> QED BY <2>1 DEF EditService
  <2> QED BY <2>1 DEF Edit, EditTenant, EditDomain, EditPlatform, CreatePlatform,
         DeletePlatform, WritePlatform
<1>5. ASSUME NEW p \in Platforms, NEW ns \in Namespaces, EditPlatform(p, ns)
      PROVE  \E v \in PlatformVersions \cup {Absent} : Writing(p, v)
  <2> DEFINE v == [Live(platforms[p]) EXCEPT !.rv = spent.edits + 1, !.ns = ns]
  <2>1. /\ PlatformHere(p) /\ UNCHANGED ready /\ platforms' = [platforms EXCEPT ![p] = Write(@, v)]
        /\ Live(platforms[p]) \in PlatformVersions /\ v \in PlatformVersions
    BY <1>1, <1>2, <1>5, EditsAreNew DEF EditPlatform, WritePlatform, PlatformHere
  <2>2. v.rv = spent.edits + 1 /\ v # Absent
    BY <2>1, VersionsAreSpecs DEF PlatformVersions
  <2>3. v # Live(platforms[p])
    BY <1>1, <1>2, <2>1, <2>2, EditsAreNew
  <2> HIDE DEF v
  <2> QED BY <2>1, <2>2, <2>3 DEF Writing
<1>6. ASSUME NEW p \in Platforms, NEW ns \in Namespaces, CreatePlatform(p, ns)
      PROVE  \E v \in PlatformVersions \cup {Absent} : Writing(p, v)
  <2> DEFINE v == [rv |-> spent.edits + 1, uid |-> spent.edits + 1, ns |-> ns]
  <2>1. /\ Live(platforms[p]) = Absent /\ platforms' = [platforms EXCEPT ![p] = Write(@, v)]
        /\ ready' = [ready EXCEPT ![p] = "none"]
    BY <1>6 DEF CreatePlatform, WritePlatform
  <2>2. v \in PlatformVersions /\ v.rv = spent.edits + 1
    BY <1>1, <1>2, EditsAreNew
  <2>3. v # Absent
    BY <2>2, VersionsAreSpecs
  <2> HIDE DEF v
  <2> QED BY <2>1, <2>2, <2>3 DEF Writing
<1>7. ASSUME NEW p \in Platforms, DeletePlatform(p)
      PROVE  Writing(p, Absent)
  BY <1>7 DEF DeletePlatform, WritePlatform, Writing
<1>8. ASSUME \/ \E t \in Tenants : \E v \in TenantVals[t] \cup {Absent} : EditTenant(t, v)
             \/ \E d \in Domains : \E v \in DomainVals[d] \cup {Absent} : EditDomain(d, v)
             \/ \E p, q \in Platforms : EditService(p, q)
      PROVE  UNCHANGED <<platforms, ready>>
  BY <1>8 DEF EditTenant, EditDomain, EditService, apiVars
<1>9. \/ UNCHANGED <<platforms, ready>>
      \/ \E p \in Platforms, v \in PlatformVersions \cup {Absent} : Writing(p, v)
  BY <1>5, <1>6, <1>7, <1>8 DEF Edit
<1> QED BY <1>2, <1>3, <1>4, <1>9

(* Informers, handlers and the process know of no version but the last.     *)
LEMMA LastVersionStays ==
    ASSUME ViewsOK, NEW p \in Platforms, Observe \/ Handle \/ Crash \/ Restart
    PROVE  Live(platforms'[p]) = Live(platforms[p])
<1>1. platforms[p] \in ViewOf(PlatformVersions \cup {Absent}) /\ WellFormed(platforms[p])
  BY DEF ViewsOK
<1>2. platforms \in [Platforms -> ViewOf(PlatformVersions \cup {Absent})]
  BY DEF ViewsOK
<1>3. CanObserve(platforms[p]) => Live(Observed(platforms[p])) = Live(platforms[p])
  BY <1>1, ObservedView
<1>4. CanNotify(platforms[p]) => Live(Notified(platforms[p])) = Live(platforms[p])
  BY <1>1, NotifiedView
<1>5. CASE Observe
  BY <1>2, <1>3, <1>5 DEF Observe, ObservePlatform, ObserveTenant, ObserveDomain, ObserveMap, apiVars
<1>6. CASE Handle
  BY <1>2, <1>4, <1>6 DEF Handle, HandlePlatform, HandleTenant, HandleDomain
<1>7. Live(Unwatched(Live(platforms[p]))) = Live(platforms[p])
      /\ Live(Listed(Live(platforms[p]))) = Live(platforms[p])
  <2>1. Live(platforms[p]) \in PlatformVersions \cup {Absent}
    BY ReadTypes
  <2> QED BY <2>1, UnwatchedView, ListedView
<1>8. CASE Crash \/ Restart
  BY <1>7, <1>8 DEF Crash, Restart
<1> QED BY <1>5, <1>6, <1>8

LEMMA PastStep ==
    ASSUME TypeOK, VersionsArePast, [Next]_vars
    PROVE  VersionsArePast'
<1>1. ViewsOK /\ ControlOK /\ StatusOK
  BY DEF TypeOK
<1>2. ASSUME spent'.edits = spent.edits,
             \A p \in Platforms : Live(platforms'[p]) = Live(platforms[p])
      PROVE  VersionsArePast'
  BY <1>2 DEF VersionsArePast, PlatformHere
<1>3. CASE Edit
  <2>1. spent'.edits = spent.edits + 1
    BY <1>3, EditEffect
  <2> SUFFICES ASSUME NEW q \in Platforms, PlatformHere(q)'
               PROVE  Live(platforms'[q]).rv <= spent.edits + 1
    BY <2>1 DEF VersionsArePast
  <2>2. spent.edits \in Nat
    BY <1>1, BoundsAssumption DEF StatusOK
  <2>3. ASSUME platforms'[q] = platforms[q]
        PROVE  Live(platforms'[q]).rv <= spent.edits + 1
    <3>1. PlatformHere(q) /\ Live(platforms[q]) \in PlatformVersions
      BY <1>1, <2>3, ReadTypes DEF PlatformHere
    <3>2. Live(platforms[q]).rv \in Nat /\ Live(platforms[q]).rv <= spent.edits
      BY <3>1, BoundsAssumption DEF VersionsArePast, PlatformVersions
    <3> QED BY <2>2, <2>3, <3>2
  <2>4. ASSUME NEW v, Writing(q, v)
        PROVE  Live(platforms'[q]).rv <= spent.edits + 1
    <3>1. platforms'[q] = Write(platforms[q], v)
      BY <1>1, <2>4 DEF Writing, ViewsOK
    <3>2. Live(Write(platforms[q], v)) = v
      BY <1>1, <2>4, WriteView DEF Writing, ViewsOK
    <3> QED BY <2>2, <2>4, <3>1, <3>2 DEF Writing, PlatformHere
  <2>5. ASSUME NEW p \in Platforms, NEW v, Writing(p, v), p # q
        PROVE  platforms'[q] = platforms[q]
    BY <2>5 DEF Writing
  <2> QED BY <1>3, <2>3, <2>4, <2>5, EditEffect
<1>4. CASE Observe \/ Handle \/ Crash \/ Restart
  <2>1. spent'.edits = spent.edits
    BY <1>1, <1>4, SpendTypes DEF Observe, ObservePlatform, ObserveTenant, ObserveDomain, ObserveMap,
       Handle, HandlePlatform, HandleTenant, HandleDomain, Crash, Restart
  <2> QED BY <1>1, <1>2, <1>4, <2>1, LastVersionStays
<1>5. CASE (\E m \in Maps : Collect(m)) \/ (\E p \in queue.delayed : Retry(p))
  BY <1>2, <1>5 DEF Collect, Retry, apiVars
<1>6. ASSUME NEW w \in Workers, Work(w) \/ Fail(w) \/ \E p \in Ready(queue) : Take(w, p)
      PROVE  VersionsArePast'
  BY <1>1, <1>2, <1>6, WorkerViews, WorkerStatus DEF apiVars
<1>7. CASE UNCHANGED vars
  BY <1>2, <1>7 DEF vars, apiVars
<1> QED BY <1>3, <1>4, <1>5, <1>6, <1>7 DEF Next

LEMMA NextTypes ==
    ASSUME TypeOK, VersionsArePast, [Next]_vars
    PROVE  TypeOK'
<1>1. ViewsOK /\ ControlOK /\ StatusOK
  BY DEF TypeOK
<1>2. CASE Others
  <2>1. ViewsOK'
    <3>1. CASE Observe \/ Handle \/ Crash \/ Restart
      BY <1>1, <3>1, ObserveViews, HandleViews, ProcessViews
    <3>2. CASE Edit
      BY <1>1, <3>2, EditViews
    <3>3. ASSUME NEW m \in Maps, Collect(m) PROVE ViewsOK'
      BY <1>1, <3>3, CollectViews
    <3>4. CASE \E p \in queue.delayed : Retry(p)
      <4>1. UNCHANGED <<platforms, tenants, domains, maps>>
        BY <3>4 DEF Retry, apiVars
      <4> QED BY <1>1, <4>1 DEF ViewsOK
    <3> QED BY <1>2, <3>1, <3>2, <3>3, <3>4 DEF Others
  <2> QED BY <1>1, <1>2, <2>1, OtherControl, OtherStatus DEF TypeOK
<1>3. ASSUME NEW w \in Workers, Work(w) \/ Fail(w) \/ \E p \in Ready(queue) : Take(w, p)
      PROVE  TypeOK'
  BY <1>1, <1>3, WorkerViews, WorkerControl, WorkerStatus DEF TypeOK
<1>4. CASE UNCHANGED vars
  BY <1>1, <1>4 DEF vars, apiVars, TypeOK, ViewsOK, ControlOK, StatusOK
<1> QED BY <1>2, <1>3, <1>4 DEF Next, Others

LEMMA InitTypes == Init => TypeOK /\ VersionsArePast
<1> SUFFICES ASSUME NEW api \in InitialApi,
               /\ platforms = [p \in Platforms |-> Listed(FirstVersion(api.platforms[p]))]
               /\ tenants = [t \in Tenants |-> Listed(api.tenants[t])]
               /\ domains = [d \in Domains |-> Listed(api.domains[d])]
               /\ ready = [p \in Platforms |-> "none"] /\ behind = {}
               /\ maps = [m \in Maps |-> Unwatched(Absent)]
               /\ up = TRUE /\ queue = EmptyQueue
               /\ job = [w \in Workers |-> Idle]
               /\ spent = [edits |-> 0, failures |-> 0, crashes |-> 0]
             PROVE  TypeOK /\ VersionsArePast
  BY DEF Init
<1>1. \A p \in Platforms :
        /\ FirstVersion(api.platforms[p]) \in PlatformVersions \cup {Absent}
        /\ FirstVersion(api.platforms[p]) # Absent => FirstVersion(api.platforms[p]).rv = 0
  <2> SUFFICES ASSUME NEW p \in Platforms
               PROVE  /\ FirstVersion(api.platforms[p]) \in PlatformVersions \cup {Absent}
                      /\ FirstVersion(api.platforms[p]) # Absent => FirstVersion(api.platforms[p]).rv = 0
    OBVIOUS
  <2>1. api.platforms[p] \in Namespaces \cup {Absent}
    BY InitialAssumption
  <2> QED BY <2>1, BoundsAssumption DEF FirstVersion, PlatformVersions
<1>2. \A S : \A v \in S \cup {Absent} :
        /\ Listed(v) \in ViewOf(S \cup {Absent}) /\ WellFormed(Listed(v)) /\ Live(Listed(v)) = v
        /\ Unwatched(v) \in ViewOf(S \cup {Absent}) /\ WellFormed(Unwatched(v))
        /\ Unwatched(v).cached = 1
  BY ListedView, UnwatchedView DEF Unwatched
<1>3. /\ \A t \in Tenants : api.tenants[t] \in TenantSpec \cup {Absent}
      /\ \A d \in Domains : api.domains[d] \in DomainSpec \cup {Absent}
  BY InitialAssumption, VersionsAreSpecs
<1>4. ViewsOK
  BY <1>1, <1>2, <1>3 DEF ViewsOK
<1>5. ControlOK
  <2>1. queue \in QueueOver(Platforms)
    BY DEF QueueOver, EmptyQueue
  <2> QED BY <2>1, IdleIsJob DEF ControlOK, Unready
<1>6. StatusOK
  BY BoundsAssumption DEF StatusOK
<1>7. VersionsArePast
  <2> SUFFICES ASSUME NEW p \in Platforms, Live(platforms[p]) # Absent
               PROVE  Live(platforms[p]).rv <= 0
    BY DEF VersionsArePast, PlatformHere
  <2> DEFINE v == FirstVersion(api.platforms[p])
  <2>1. v \in PlatformVersions \cup {Absent} /\ (v # Absent => v.rv = 0)
    BY <1>1
  <2>2. platforms[p] = Listed(v)
    OBVIOUS
  <2> HIDE DEF v
  <2>3. Live(platforms[p]) = v
    BY <1>2, <2>1, <2>2
  <2> QED BY <2>1, <2>3
<1> QED BY <1>4, <1>5, <1>6, <1>7 DEF TypeOK

(* Every variable keeps its type, whatever users, informers, handlers,      *)
(* workers, failures and crashes do.                                       *)
THEOREM TypesAreCorrect == Spec => []TypeOK
<1> DEFINE Inv == TypeOK /\ VersionsArePast
<1>1. Inv /\ [Next]_vars => Inv'
  BY NextTypes, PastStep
<1> QED BY <1>1, InitTypes, PTL DEF Spec
-----------------------------------------------------------------------------
(* What a step of a worker does to its job *)

\* Worker w goes on with the key it has.
Continues(w) ==
    /\ Busy(w) /\ Busy(w)' /\ job'[w].key = job[w].key
    /\ \A v \in Workers \ {w} : job'[v] = job[v]
    /\ UNCHANGED queue

\* ... between the two status writes.
Stays(w) ==
    /\ Continues(w) /\ job[w].pc \in Unready /\ job'[w].pc \in Unready
    /\ job'[w].platform = job[w].platform
    /\ UNCHANGED ready

LEMMA StaysBy ==
    ASSUME ControlOK, NEW w \in Workers, job[w].pc \in Unready,
           UNCHANGED <<ready, queue>>, NEW j \in Jobs, j.pc \in Unready,
           j.key = job[w].key, j.platform = job[w].platform,
           job' = [job EXCEPT ![w] = j]
    PROVE  Stays(w)
BY DEF ControlOK, Stays, Continues, Busy, Unready

LEMMA AdvanceStays ==
    ASSUME ControlOK, NEW w \in Workers, job[w].pc \in Unready,
           UNCHANGED <<ready, queue>>, Advance(w)
    PROVE  Stays(w)
<1>1. job[w] \in Jobs
  BY DEF ControlOK
<1>2. CASE job' = [job EXCEPT ![w].pc = "succeed", ![w].now = NoWrite]
  <2> DEFINE j == [job[w] EXCEPT !.pc = "succeed", !.now = NoWrite]
  <2>1. /\ j \in Jobs /\ j.pc \in Unready /\ j.key = job[w].key /\ j.platform = job[w].platform
        /\ job' = [job EXCEPT ![w] = j]
    BY <1>1, <1>2 DEF Jobs, Steps, Unready
  <2> HIDE DEF j
  <2> QED BY <2>1, StaysBy
<1>3. ASSUME NEW d \in job[w].left,
             job' = [job EXCEPT ![w].pc = "look", ![w].now = d, ![w].left = @ \ {d}]
      PROVE  Stays(w)
  <2> DEFINE j == [job[w] EXCEPT !.pc = "look", !.now = d, !.left = @ \ {d}]
  <2>1. /\ j \in Jobs /\ j.pc \in Unready /\ j.key = job[w].key /\ j.platform = job[w].platform
        /\ job' = [job EXCEPT ![w] = j]
    BY <1>1, <1>3 DEF Jobs, Steps, Unready
  <2> HIDE DEF j
  <2> QED BY <2>1, StaysBy
<1> QED BY <1>2, <1>3 DEF Advance

LEMMA PcStays ==
    ASSUME ControlOK, NEW w \in Workers, job[w].pc \in Unready,
           UNCHANGED <<ready, queue>>, NEW pc \in Unready, job' = [job EXCEPT ![w].pc = pc]
    PROVE  Stays(w)
<1> DEFINE j == [job[w] EXCEPT !.pc = pc]
<1>1. /\ j \in Jobs /\ j.pc \in Unready /\ j.key = job[w].key /\ j.platform = job[w].platform
      /\ job' = [job EXCEPT ![w] = j]
  BY DEF ControlOK, Jobs, Steps, Unready
<1> HIDE DEF j
<1> QED BY <1>1, StaysBy

(* The steps at the ConfigMaps change nothing but the step of the job.      *)
LEMMA MapsEffect ==
    ASSUME ViewsOK, ControlOK, NEW w \in Workers, List(w) \/ Look(w) \/ CallApi(w) \/ CallFails(w)
    PROVE  Stays(w)
<1>1. job[w].pc \in Unready /\ UNCHANGED <<ready, queue>>
  BY DEF List, Look, CallApi, CallFails, Unready
<1>2. ASSUME CallFailed(w) PROVE Stays(w)
  BY <1>1, <1>2, AdvanceStays, PcStays DEF CallFailed, Unready
<1>3. CASE List(w)
  <2> DEFINE now  == PlatformWrite(job[w].key, job[w].platform, CachedTenants)
             left == DomainWrites(job[w].key, CachedTenants, CachedDomains)
             j    == [job[w] EXCEPT !.pc = "look", !.now = now, !.left = left]
  <2>1. /\ job[w] \in Jobs /\ job[w].key \in Platforms
        /\ job[w].platform \in PlatformVersions
    BY <1>1 DEF ControlOK, Unready, Jobs
  <2>2. now \in Writes /\ left \subseteq Writes
    BY <2>1, ListTypes, WriteTypes
  <2>3. job' = [job EXCEPT ![w] = j]
    BY <1>3 DEF List
  <2> HIDE DEF now, left
  <2>4. j \in Jobs /\ j.pc \in Unready /\ j.key = job[w].key /\ j.platform = job[w].platform
    BY <2>1, <2>2 DEF Jobs, Steps, Unready
  <2> HIDE DEF j
  <2> QED BY <1>1, <2>3, <2>4, StaysBy
<1>4. CASE Look(w)
  <2>1. ASSUME NEW pc \in {"create", "delete"}, job' = [job EXCEPT ![w].pc = pc]
        PROVE  Stays(w)
    BY <1>1, <2>1, PcStays DEF Unready
  <2> QED BY <1>1, <1>4, <2>1, AdvanceStays DEF Look
<1>5. CASE CallApi(w)
  <2>1. ASSUME NEW pc \in {"recreate", "delete"}, job' = [job EXCEPT ![w].pc = pc]
        PROVE  Stays(w)
    BY <1>1, <2>1, PcStays DEF Unready
  <2> QED BY <1>1, <1>2, <1>5, <2>1, AdvanceStays DEF CallApi
<1>6. CASE CallFails(w)
  BY <1>2, <1>6 DEF CallFails
<1> QED BY <1>3, <1>4, <1>5, <1>6

\* Worker w withdraws the condition and goes on, ...
Resets(w) ==
    /\ Continues(w) /\ job'[w].pc = "list"
    /\ Cached(platforms[job[w].key]) # Absent /\ StoreIsCurrent(job[w].key)
    /\ job'[w].platform = Cached(platforms[job[w].key])
    /\ ready' = [ready EXCEPT ![job[w].key] = "Unknown"]

\* ... or its sync ends, with a condition or without.
Ends(w) ==
    /\ Continues(w) /\ job'[w].pc \in {"done", "retry"}
    /\ \/ UNCHANGED ready
       \/ /\ Cached(platforms[job[w].key]) # Absent /\ StoreIsCurrent(job[w].key)
          /\ ready' = [ready EXCEPT ![job[w].key] = "Unknown"]
       \/ /\ job[w].pc \in Unready /\ Live(platforms[job[w].key]) = job[w].platform
          /\ \E s \in {"False", "True"} :
                /\ ready' = [ready EXCEPT ![job[w].key] = s]
                /\ s = "False" => job'[w].pc = "retry"
    /\ job'[w].pc = "done" =>
          job[w].pc \in Unready \/ Cached(platforms[job[w].key]) = Absent

(* The steps around them write the condition.                              *)
LEMMA StatusEffect ==
    ASSUME ControlOK, NEW w \in Workers,
           ResetStatus(w) \/ ResetFails(w) \/ UpdateStatus(w) \/ UpdateFails(w)
    PROVE  Resets(w) \/ Ends(w)
<1>1. job \in [Workers -> Jobs] /\ job[w] \in Jobs
  BY DEF ControlOK
<1>2. ASSUME NEW pc \in {"done", "retry"}, Busy(w), UNCHANGED queue,
             job' = [job EXCEPT ![w].pc = pc]
      PROVE  Continues(w) /\ job'[w].pc = pc
  BY <1>1, <1>2 DEF Continues, Busy, Jobs
<1>3. CASE ResetStatus(w)
  <2> DEFINE v == Cached(platforms[job[w].key])
  <2>1. CASE v # Absent /\ StoreIsCurrent(job[w].key)
    <3>1. job' = [job EXCEPT ![w].pc = "list", ![w].platform = v]
      BY <1>3, <2>1 DEF ResetStatus
    <3>2. /\ job'[w].pc = "list" /\ job'[w].platform = v /\ job'[w].key = job[w].key
          /\ \A u \in Workers \ {w} : job'[u] = job[u]
      BY <1>1, <3>1 DEF Jobs
    <3> QED BY <1>3, <2>1, <3>2 DEF ResetStatus, SetReady, Continues, Busy, Resets
  <2>2. CASE v # Absent /\ ~StoreIsCurrent(job[w].key)
    <3>1. job' = [job EXCEPT ![w].pc = "retry"] /\ Busy(w) /\ UNCHANGED <<ready, queue>>
      BY <1>3, <2>2 DEF ResetStatus, Busy
    <3> QED BY <1>2, <3>1 DEF Ends
  <2>3. CASE v = Absent
    <3>1. job' = [job EXCEPT ![w].pc = "done"] /\ Busy(w) /\ UNCHANGED <<ready, queue>>
      BY <1>3, <2>3 DEF ResetStatus, Busy
    <3> QED BY <1>2, <2>3, <3>1 DEF Ends
  <2> QED BY <2>1, <2>2, <2>3
<1>4. CASE ResetFails(w)
  BY <1>2, <1>4 DEF ResetFails, Busy, SetReady, Ends
<1>5. ASSUME job[w].pc \in {"succeed", "fail"}, AfterUpdate(w), UNCHANGED queue
      PROVE  /\ Continues(w) /\ job[w].pc \in Unready
             /\ job'[w].pc = IF job[w].pc = "fail" THEN "retry" ELSE "done"
  <2> DEFINE pc == IF job[w].pc = "fail" THEN "retry" ELSE "done"
  <2>1. job' = [job EXCEPT ![w].pc = pc] /\ pc \in {"done", "retry"}
    BY <1>1, <1>5 DEF AfterUpdate
  <2> HIDE DEF pc
  <2> QED BY <1>2, <1>5, <2>1 DEF Busy, Unready, pc
<1>6. CASE UpdateStatus(w)
  BY <1>5, <1>6 DEF UpdateStatus, SetReady, Ends
<1>7. CASE UpdateFails(w)
  BY <1>5, <1>7 DEF UpdateFails, Ends
<1> QED BY <1>3, <1>4, <1>6, <1>7
-----------------------------------------------------------------------------
(* Keys are held by one worker *)

HeldOnce ==
    /\ \A w \in Workers : Busy(w) => job[w].key \in queue.processing
    /\ \A v, w \in Workers : Busy(v) /\ Busy(w) /\ job[v].key = job[w].key => v = w

LEMMA HoldStep ==
    ASSUME TypeOK, VersionsArePast, HeldOnce, [Next]_vars
    PROVE  HeldOnce'
<1>1. /\ ViewsOK /\ ControlOK /\ queue \in QueueOver(Platforms) /\ job \in [Workers -> Jobs]
  BY DEF TypeOK, ControlOK
<1>2. ASSUME queue'.processing = queue.processing, UNCHANGED job PROVE HeldOnce'
  BY <1>2 DEF HeldOnce, Busy
<1>3. CASE Edit
  BY <1>1, <1>2, <1>3, EditEffect DEF AddAll, QueueOver
<1>4. CASE Observe \/ Handle \/ Restart \/ (\E m \in Maps : Collect(m))
           \/ (\E p \in queue.delayed : Retry(p))
  <2>1. /\ UNCHANGED job
        /\ \/ UNCHANGED queue \/ (\E keys : queue' = AddAll(queue, keys))
           \/ (\E p : queue' = BackoffOver(queue, p))
    BY <1>4 DEF Observe, ObservePlatform, ObserveTenant, ObserveDomain, ObserveMap, Handle,
       HandlePlatform, HandleTenant, HandleDomain, Restart, Collect, Retry
  <2> QED BY <1>1, <1>2, <2>1 DEF AddAll, BackoffOver, QueueOver
<1>5. CASE Crash
  BY <1>5 DEF Crash, HeldOnce, Busy, Idle
<1>6. ASSUME NEW w \in Workers, Continues(w) PROVE HeldOnce'
  BY <1>6 DEF Continues, HeldOnce, Busy
<1>7. ASSUME NEW w \in Workers, NEW p \in Ready(queue), Take(w, p) PROVE HeldOnce'
  <2>1. /\ job'[w].key = p /\ \A v \in Workers \ {w} : job'[v] = job[v]
        /\ queue'.processing = queue.processing \cup {p} /\ p \notin queue.processing
    BY <1>1, <1>7 DEF Take, Get, Ready, QueueOver, Idle
  <2> QED BY <2>1 DEF HeldOnce, Busy
<1>8. ASSUME NEW w \in Workers, Finish(w) PROVE HeldOnce'
  <2>1. /\ Busy(w) /\ ~Busy(w)' /\ \A v \in Workers \ {w} : job'[v] = job[v]
    BY <1>1, <1>8 DEF Finish, Busy, Idle
  <2>2. queue'.processing = queue.processing \ {job[w].key}
    BY <1>1, <1>8 DEF Finish, Done, AddRateLimited, QueueOver
  <2> QED BY <2>1, <2>2 DEF HeldOnce, Busy
<1>9. ASSUME NEW w \in Workers, Work(w) \/ Fail(w) PROVE HeldOnce'
  BY <1>1, <1>6, <1>8, <1>9, MapsEffect, StatusEffect DEF Work, Fail, Stays, Resets, Ends
<1>10. CASE UNCHANGED vars
  BY <1>2, <1>10 DEF vars
<1> QED BY <1>3, <1>4, <1>5, <1>7, <1>9, <1>10 DEF Next
-----------------------------------------------------------------------------
(* Platforms with a condition *)

\* In every version from the one in the store on, the object exists.
Present(view) == \A i \in view.cached .. Len(view.log) : view.log[i] # Absent

(* An object that is present stays so until it is deleted.                 *)
LEMMA PresentViews ==
    ASSUME NEW S, NEW view \in ViewOf(S), WellFormed(view)
    PROVE  /\ Present(view) => Live(view) # Absent /\ Cached(view) # Absent
           /\ ~CanObserve(view) /\ Cached(view) # Absent => Present(view)
           /\ ~CanObserve(view) => Cached(view) = Live(view)
           /\ CanObserve(view) /\ Present(view) => Present(Observed(view))
           /\ CanNotify(view) /\ Present(view) => Present(Notified(view))
           /\ \A v \in S : v # Absent =>
                /\ Present(Unwatched(v)) /\ Present(Listed(v))
                /\ Present(view) => Present(Written(view, v))
<1> DEFINE log == view.log
           n   == Len(log)
           c   == view.cached
<1>1. log \in Seq(S) /\ n \in Nat /\ c \in 1 .. n /\ view = [log |-> log, cached |-> c]
  BY DEF ViewOf, WellFormed
<1>2. Present(view) <=> \A i \in c .. n : log[i] # Absent
  BY DEF Present
<1>3. Live(view) = log[n] /\ Cached(view) = log[c]
  BY DEF Live, Cached
<1>4. CanObserve(view) <=> c < n
  BY DEF CanObserve
<1>5. Observed(view) = [log |-> log, cached |-> c + 1]
  BY <1>1 DEF Observed
<1>6. CanObserve(view) /\ Present(view) => Present(Observed(view))
  BY <1>1, <1>2, <1>4, <1>5 DEF Present
<1>7. ASSUME CanNotify(view), Present(view) PROVE Present(Notified(view))
  <2> DEFINE new == Tail(log)
  <2>1. c > 1 /\ Notified(view) = [log |-> new, cached |-> c - 1]
    BY <1>7 DEF CanNotify, Notified
  <2>2. Len(new) = n - 1 /\ \A i \in 1 .. n - 1 : new[i] = log[i + 1]
    BY <1>1, <2>1
  <2> HIDE DEF new, log, n, c
  <2> SUFFICES ASSUME NEW i \in c - 1 .. n - 1 PROVE new[i] # Absent
    BY <2>1, <2>2 DEF Present
  <2>3. i \in 1 .. n - 1 /\ i + 1 \in c .. n
    BY <1>1, <2>1
  <2> QED BY <1>2, <1>7, <2>2, <2>3
<1>8. ASSUME NEW v \in S, v # Absent, Present(view) PROVE Present(Written(view, v))
  <2> DEFINE new == Append(log, v)
  <2>1. Written(view, v) = [log |-> new, cached |-> c]
    <3>1. view = [log |-> log, cached |-> c]
      BY DEF ViewOf
    <3> QED BY <3>1 DEF Written
  <2>2. Len(new) = n + 1 /\ new[n + 1] = v /\ \A i \in 1 .. n : new[i] = log[i]
    BY <1>1
  <2> HIDE DEF new, log, n, c
  <2>4. Present(Written(view, v)) <=> \A i \in c .. n + 1 : new[i] # Absent
    BY <2>1, <2>2 DEF Present
  <2> SUFFICES ASSUME NEW i \in c .. n + 1 PROVE new[i] # Absent
    BY <2>4
  <2>3. i = n + 1 \/ (i \in c .. n /\ i \in 1 .. n)
    BY <1>1
  <2> QED BY <1>2, <1>8, <2>2, <2>3
<1>9. \A v \in S : v # Absent => Present(Unwatched(v)) /\ Present(Listed(v))
  BY DEF Present, Unwatched, Listed
<1>10. ~CanObserve(view) => c = n
  BY <1>1, <1>4
<1>11. ~CanObserve(view) /\ Cached(view) # Absent => Present(view)
  <2>1. c = n => c .. n = {n}
    BY <1>1
  <2> QED BY <1>2, <1>3, <1>10, <2>1
<1>12. Present(view) => log[n] # Absent /\ log[c] # Absent
  BY <1>1, <1>2
<1> QED BY <1>3, <1>6, <1>7, <1>8, <1>9, <1>10, <1>11, <1>12

\* The object was not there when the handlers last heard of it.
AddToCome(view) == ~UpToDate(view) /\ OldVersion(view) = Absent

LEMMA AddViews ==
    ASSUME NEW S, NEW view \in ViewOf(S), WellFormed(view), AddToCome(view)
    PROVE  /\ CanObserve(view) => AddToCome(Observed(view))
           /\ NewVersion(view) # Absent
           /\ \A v \in S : AddToCome(Written(view, v))
<1>1. /\ view.log \in Seq(S) /\ view.cached \in Nat
      /\ view.log[1] = Absent /\ Len(view.log) # 1 /\ Len(view.log) >= 1
      /\ \A i \in 1 .. Len(view.log) - 1 : view.log[i] # view.log[i + 1]
  BY DEF ViewOf, WellFormed, AddToCome, OldVersion, UpToDate
<1>2. view.log[2] # Absent
  <2>1. \A n \in Nat : n >= 1 /\ n # 1 => 1 \in 1 .. n - 1
    OBVIOUS
  <2>2. Len(view.log) \in Nat
    BY <1>1
  <2>3. view.log[1] # view.log[1 + 1]
    BY <1>1, <2>1, <2>2
  <2> QED BY <1>1, <2>3
<1>3. \A v \in S : /\ Len(Append(view.log, v)) # 1
                   /\ Append(view.log, v)[1] = Absent
  BY <1>1
<1> QED BY <1>1, <1>2, <1>3
        DEF ViewOf, AddToCome, UpToDate, OldVersion, NewVersion, Observed, Written
-----------------------------------------------------------------------------
(* The Ready condition *)

\* Only a platform that exists, for all the store will learn, has one.
ConditionsArePresent ==
    \A p \in Platforms : ready[p] # "none" => Present(platforms[p])

\* What a worker has read is past, ...
JobsArePast ==
    \A w \in Workers : job[w].pc \in Unready => job[w].platform.rv <= spent.edits

\* ... and as long as it is the last version the condition is there, ...
JobsAreSeen ==
    \A w \in Workers :
        job[w].pc \in Unready /\ Live(platforms[job[w].key]) = job[w].platform =>
            ready[job[w].key] # "none"

\* ... withdrawn, unless the platform was replaced.
JobsAreUnready ==
    \A w \in Workers : job[w].pc \in Unready => ready[job[w].key] \in {"Unknown", "none"}

\* A platform whose condition is False is queued, held back, under work, or
\* its Add is to come.
FalseIsPending ==
    \A p \in Platforms : up /\ ready[p] = "False" =>
        \/ p \in queue.dirty \cup queue.delayed
        \/ AddToCome(platforms[p])
        \/ \E w \in Workers : job[w].key = p /\ job[w].pc \notin {"idle", "done"}

ConditionInv ==
    /\ TypeOK /\ VersionsArePast /\ HeldOnce /\ ConditionsArePresent
    /\ JobsArePast /\ JobsAreSeen /\ JobsAreUnready /\ FalseIsPending

(* The users: a platform that is created or deleted has no condition, and   *)
(* its last version is none a worker has read.                             *)
LEMMA EditConditions ==
    ASSUME ConditionInv, Edit
    PROVE  /\ ConditionsArePresent' /\ JobsArePast' /\ JobsAreSeen' /\ JobsAreUnready'
           /\ FalseIsPending'
<1>1. /\ ViewsOK /\ ControlOK /\ StatusOK /\ queue \in QueueOver(Platforms)
      /\ spent.edits \in Nat
      /\ TypeOK /\ VersionsArePast /\ ConditionsArePresent /\ JobsArePast /\ JobsAreSeen
      /\ JobsAreUnready /\ FalseIsPending
  BY BoundsAssumption DEF ConditionInv, TypeOK, ControlOK, StatusOK
<1>2. /\ UNCHANGED <<up, job>> /\ spent'.edits = spent.edits + 1
      /\ queue.dirty \subseteq queue'.dirty /\ queue'.delayed = queue.delayed
  BY <1>1, EditEffect DEF AddAll, QueueOver
<1>3. \A w \in Workers : job[w].pc \in Unready =>
        /\ job[w].key \in Platforms /\ job[w].platform \in PlatformVersions
        /\ job[w].platform.rv \in Nat
  BY <1>1, BoundsAssumption DEF ControlOK, Unready, Jobs, PlatformVersions
<1>4. JobsArePast'
  BY <1>1, <1>2, <1>3 DEF JobsArePast
<1>5. CASE UNCHANGED <<platforms, ready>>
  BY <1>1, <1>2, <1>4, <1>5 DEF ConditionsArePresent, JobsAreSeen, JobsAreUnready, FalseIsPending
<1>6. ASSUME NEW p \in Platforms, NEW v \in PlatformVersions \cup {Absent}, Writing(p, v)
      PROVE  /\ ConditionsArePresent' /\ JobsArePast' /\ JobsAreSeen' /\ JobsAreUnready'
             /\ FalseIsPending'
  <2>1. /\ platforms[p] \in ViewOf(PlatformVersions \cup {Absent}) /\ WellFormed(platforms[p])
        /\ platforms'[p] = Write(platforms[p], v)
        /\ \A q \in Platforms \ {p} : platforms'[q] = platforms[q]
    BY <1>1, <1>6 DEF Writing, ViewsOK
  <2>2. Live(platforms'[p]) = v
    BY <1>6, <2>1, WriteView DEF Writing
  <2>3. /\ \A q \in Platforms \ {p} : ready'[q] = ready[q]
        /\ ready'[p] # "none" => v # Absent /\ PlatformHere(p) /\ ready'[p] = ready[p]
        /\ \A q \in Platforms : ready'[q] \in {ready[q], "none"}
    BY <1>1, <1>6 DEF Writing, StatusOK
  <2>4. ConditionsArePresent'
    <3> SUFFICES ASSUME NEW q \in Platforms, ready'[q] # "none" PROVE Present(platforms'[q])
      BY DEF ConditionsArePresent
    <3>1. CASE q = p
      <4>1. v # Absent /\ Present(platforms[p])
        BY <1>1, <2>3, <3>1 DEF ConditionsArePresent
      <4> QED BY <2>1, <3>1, <4>1, PresentViews DEF Write
    <3>2. CASE q # p
      BY <1>1, <2>1, <2>3, <3>2 DEF ConditionsArePresent
    <3> QED BY <3>1, <3>2
  <2>5. JobsAreSeen'
    <3> SUFFICES ASSUME NEW w \in Workers, job[w].pc \in Unready,
                        Live(platforms'[job[w].key]) = job[w].platform
                 PROVE  ready'[job[w].key] # "none"
      BY <1>2 DEF JobsAreSeen
    <3>1. job[w].key # p
      <4>1. v \in PlatformVersions /\ v # Absent => v.rv = spent.edits + 1
        BY <1>6 DEF Writing
      <4>2. job[w].platform # Absent /\ job[w].platform.rv # spent.edits + 1
        BY <1>1, <1>3 DEF JobsArePast, ControlOK
      <4> QED BY <1>6, <2>2, <4>1, <4>2
    <3> QED BY <1>1, <1>3, <2>1, <2>3, <3>1 DEF JobsAreSeen
  <2>6. JobsAreUnready'
    BY <1>1, <1>2, <1>3, <2>3 DEF JobsAreUnready
  <2>7. FalseIsPending'
    <3> SUFFICES ASSUME NEW q \in Platforms, up, ready'[q] = "False"
                 PROVE  \/ q \in queue'.dirty \cup queue'.delayed
                        \/ AddToCome(platforms'[q])
                        \/ \E w \in Workers : job[w].key = q /\ job[w].pc \notin {"idle", "done"}
      BY <1>2 DEF FalseIsPending
    <3>1. ready[q] = "False"
      BY <2>3
    <3>2. AddToCome(platforms[q]) => AddToCome(platforms'[q])
      BY <1>6, <2>1, AddViews DEF Write
    <3> QED BY <1>1, <1>2, <3>1, <3>2 DEF FalseIsPending
  <2> QED BY <1>4, <2>4, <2>5, <2>6, <2>7
<1> QED BY <1>1, <1>5, <1>6, EditEffect
(* Informers, handlers, the queue and the process: the handlers hear of an  *)
(* Add and queue the platform.                                             *)
LEMMA OtherConditions ==
    ASSUME ConditionInv, Others, ~Edit
    PROVE  /\ ConditionsArePresent' /\ JobsArePast' /\ JobsAreSeen' /\ JobsAreUnready'
           /\ FalseIsPending'
<1>1. /\ ViewsOK /\ ControlOK /\ StatusOK /\ queue \in QueueOver(Platforms)
      /\ TypeOK /\ VersionsArePast /\ ConditionsArePresent /\ JobsArePast /\ JobsAreSeen
      /\ JobsAreUnready /\ FalseIsPending
  BY DEF ConditionInv, TypeOK, ControlOK
<1>2. \A p \in Platforms :
        platforms[p] \in ViewOf(PlatformVersions \cup {Absent}) /\ WellFormed(platforms[p])
  BY <1>1 DEF ViewsOK
<1>3. \A w \in Workers : job[w].pc \in Unready => job[w].key \in Platforms
  BY <1>1 DEF ControlOK, Unready
<1>4. UNCHANGED ready /\ spent'.edits = spent.edits
  BY <1>1, SpendTypes DEF Others, Observe, ObservePlatform, ObserveTenant, ObserveDomain,
     ObserveMap, Handle, HandlePlatform, HandleTenant, HandleDomain, Collect, Retry, Crash, Restart
<1>5. \A p \in Platforms : Live(platforms'[p]) = Live(platforms[p])
  <2>1. CASE (\E m \in Maps : Collect(m)) \/ (\E p \in queue.delayed : Retry(p))
    BY <2>1 DEF Collect, Retry, apiVars
  <2> QED BY <1>1, <2>1, LastVersionStays DEF Others
<1>6. job' = job \/ \A w \in Workers : job'[w].pc = "idle"
  BY DEF Others, Observe, ObservePlatform, ObserveTenant, ObserveDomain, ObserveMap, Handle,
     HandlePlatform, HandleTenant, HandleDomain, Collect, Retry, Crash, Restart, Idle
<1>7. JobsArePast' /\ JobsAreSeen' /\ JobsAreUnready'
  BY <1>1, <1>3, <1>4, <1>5, <1>6 DEF JobsArePast, JobsAreSeen, JobsAreUnready, Unready
<1>8. ASSUME UNCHANGED <<platforms, up, job>>,
             queue.dirty \cup queue.delayed \subseteq queue'.dirty \cup queue'.delayed
      PROVE  ConditionsArePresent' /\ FalseIsPending'
  BY <1>1, <1>4, <1>8 DEF ConditionsArePresent, FalseIsPending
<1>9. \A keys \in SUBSET Platforms : keys \cup queue.dirty = AddAll(queue, keys).dirty
                                     /\ AddAll(queue, keys).delayed = queue.delayed
  BY <1>1 DEF AddAll, QueueOver
<1>10. ASSUME NEW p \in Platforms, ObservePlatform(p)
       PROVE  ConditionsArePresent' /\ FalseIsPending'
  <2>1. UNCHANGED <<up, job, queue>>
    BY <1>10 DEF ObservePlatform
  <2>2. CASE ~CanObserve(platforms[p])
    BY <1>8, <1>10, <2>1, <2>2 DEF ObservePlatform
  <2>3. CASE CanObserve(platforms[p])
    <3>1. /\ platforms'[p] = Observed(platforms[p])
          /\ \A q \in Platforms \ {p} : platforms'[q] = platforms[q]
      BY <1>1, <1>10, <2>3 DEF ObservePlatform, ViewsOK
    <3>2. \A q \in Platforms : /\ Present(platforms[q]) => Present(platforms'[q])
                               /\ AddToCome(platforms[q]) => AddToCome(platforms'[q])
      BY <1>2, <2>3, <3>1, PresentViews, AddViews
    <3> QED BY <1>1, <1>4, <2>1, <3>2 DEF ConditionsArePresent, FalseIsPending
  <2> QED BY <2>2, <2>3
<1>11. ASSUME NEW p \in Platforms, HandlePlatform(p)
       PROVE  ConditionsArePresent' /\ FalseIsPending'
  <2> DEFINE keys == OnPlatform(p, OldVersion(platforms[p]), NewVersion(platforms[p]))
  <2>1. /\ UNCHANGED <<up, job>> /\ queue' = AddAll(queue, keys) /\ CanNotify(platforms[p])
        /\ platforms'[p] = Notified(platforms[p])
        /\ \A q \in Platforms \ {p} : platforms'[q] = platforms[q]
    BY <1>1, <1>11 DEF HandlePlatform, ViewsOK
  <2>2. keys \in SUBSET Platforms
    BY DEF OnPlatform
  <2>3. AddToCome(platforms[p]) => p \in keys
    BY <1>2, AddViews DEF AddToCome, OnPlatform
  <2> HIDE DEF keys
  <2>4. queue'.dirty = keys \cup queue.dirty /\ queue'.delayed = queue.delayed
    BY <1>9, <2>1, <2>2
  <2>5. \A q \in Platforms : Present(platforms[q]) => Present(platforms'[q])
    BY <1>2, <2>1, PresentViews
  <2>6. ConditionsArePresent'
    BY <1>1, <1>4, <2>5 DEF ConditionsArePresent
  <2>7. FalseIsPending'
    <3> SUFFICES ASSUME NEW q \in Platforms, up, ready[q] = "False"
                 PROVE  \/ q \in queue'.dirty \cup queue'.delayed
                        \/ AddToCome(platforms'[q])
                        \/ \E w \in Workers : job[w].key = q /\ job[w].pc \notin {"idle", "done"}
      BY <1>4, <2>1 DEF FalseIsPending
    <3>1. \/ q \in queue.dirty \cup queue.delayed
          \/ AddToCome(platforms[q])
          \/ \E w \in Workers : job[w].key = q /\ job[w].pc \notin {"idle", "done"}
      BY <1>1 DEF FalseIsPending
    <3>2. AddToCome(platforms[q]) => AddToCome(platforms'[q]) \/ q \in keys
      BY <2>1, <2>3
    <3> QED BY <2>4, <3>1, <3>2
  <2> QED BY <2>6, <2>7
<1>12. ASSUME \/ \E t \in Tenants : ObserveTenant(t)
              \/ \E d \in Domains : ObserveDomain(d)
              \/ \E m \in Maps : ObserveMap(m) \/ Collect(m)
       PROVE  ConditionsArePresent' /\ FalseIsPending'
  BY <1>8, <1>12 DEF ObserveTenant, ObserveDomain, ObserveMap, Collect, apiVars
<1>13. ASSUME NEW keys, UNCHANGED <<platforms, up, job>>, queue' = AddAll(queue, keys)
       PROVE  ConditionsArePresent' /\ FalseIsPending'
  <2>1. queue.dirty \subseteq queue'.dirty /\ queue'.delayed = queue.delayed
    BY <1>1, <1>13 DEF AddAll, QueueOver
  <2> QED BY <1>8, <1>13, <2>1
<1>14. ASSUME (\E t \in Tenants : HandleTenant(t)) \/ (\E d \in Domains : HandleDomain(d))
       PROVE  ConditionsArePresent' /\ FalseIsPending'
  <2>1. \E keys : UNCHANGED <<platforms, up, job>> /\ queue' = AddAll(queue, keys)
    BY <1>14 DEF HandleTenant, HandleDomain
  <2> QED BY <1>13, <2>1
<1>15. ASSUME NEW p \in queue.delayed, Retry(p) PROVE ConditionsArePresent' /\ FalseIsPending'
  <2>1. queue'.dirty = queue.dirty \cup {p} /\ queue'.delayed = queue.delayed \ {p}
    BY <1>1, <1>15 DEF Retry, BackoffOver, QueueOver
  <2> QED BY <1>8, <1>15, <2>1 DEF Retry, apiVars
<1>16. ASSUME NEW p \in Platforms, ready[p] # "none"
       PROVE  /\ Live(platforms[p]) \in PlatformVersions \cup {Absent}
              /\ Present(Unwatched(Live(platforms[p]))) /\ Present(Listed(Live(platforms[p])))
              /\ AddToCome(Listed(Live(platforms[p])))
  <2>1. Live(platforms[p]) \in PlatformVersions \cup {Absent} /\ Live(platforms[p]) # Absent
    BY <1>1, <1>2, <1>16, ReadTypes, PresentViews DEF ConditionsArePresent
  <2>2. AddToCome(Listed(Live(platforms[p])))
    BY <2>1 DEF AddToCome, Listed, UpToDate, OldVersion
  <2> QED BY <1>2, <2>1, <2>2, PresentViews
<1>17. ASSUME Crash PROVE ConditionsArePresent' /\ FalseIsPending'
  BY <1>4, <1>16, <1>17 DEF Crash, ConditionsArePresent, FalseIsPending
<1>18. ASSUME Restart PROVE ConditionsArePresent' /\ FalseIsPending'
  BY <1>4, <1>16, <1>18 DEF Restart, ConditionsArePresent, FalseIsPending
<1>19. ConditionsArePresent' /\ FalseIsPending'
  BY <1>10, <1>11, <1>12, <1>14, <1>15, <1>17, <1>18 DEF Others, Observe, Handle
<1> QED BY <1>7, <1>19
(* A worker: no other has its key, and the condition it writes is followed  *)
(* by a retry if it is False.                                              *)
LEMMA SyncConditions ==
    ASSUME ConditionInv, NEW w \in Workers, Stays(w) \/ Resets(w) \/ Ends(w),
           UNCHANGED <<apiVars, up>>, spent'.edits = spent.edits
    PROVE  /\ ConditionsArePresent' /\ JobsArePast' /\ JobsAreSeen' /\ JobsAreUnready'
           /\ FalseIsPending'
<1> DEFINE p == job[w].key
<1>1. /\ ViewsOK /\ ControlOK /\ StatusOK /\ VersionsArePast /\ HeldOnce
      /\ ConditionsArePresent /\ JobsArePast /\ JobsAreSeen /\ JobsAreUnready /\ FalseIsPending
      /\ UNCHANGED <<platforms, up, queue>> /\ spent'.edits = spent.edits
  BY DEF ConditionInv, TypeOK, Stays, Resets, Ends, Continues, apiVars
<1>2. /\ p \in Platforms /\ job'[w].key = p /\ Busy(w) /\ Busy(w)'
      /\ \A v \in Workers \ {w} : job'[v] = job[v]
  BY <1>1 DEF Stays, Resets, Ends, Continues, ControlOK, Busy
<1>3. \A v \in Workers \ {w} : Busy(v) => job[v].key # p
  BY <1>1, <1>2 DEF HeldOnce
<1>4. /\ platforms[p] \in ViewOf(PlatformVersions \cup {Absent}) /\ WellFormed(platforms[p])
      /\ ready \in [Platforms -> {"none", "Unknown", "False", "True"}]
  BY <1>1, <1>2 DEF ViewsOK, StatusOK
<1>5. \A q \in Platforms \ {p} : ready'[q] = ready[q]
  BY <1>4 DEF Stays, Resets, Ends
<1>6. Cached(platforms[p]) # Absent /\ StoreIsCurrent(p) =>
        Present(platforms[p]) /\ Cached(platforms[p]) = Live(platforms[p])
  BY <1>4, PresentViews DEF StoreIsCurrent
<1>7. job[w].pc \in Unready /\ Live(platforms[p]) = job[w].platform => ready[p] # "none"
  BY <1>1 DEF JobsAreSeen
<1>8. ready'[p] # "none" => Present(platforms[p])
  BY <1>1, <1>2, <1>4, <1>6, <1>7 DEF Stays, Resets, Ends, ConditionsArePresent
<1>9. \A v \in Workers \ {w} : job[v].pc \in Unready =>
        job[v].key \in Platforms \ {p} /\ ready'[job[v].key] = ready[job[v].key]
  BY <1>1, <1>3, <1>5 DEF Busy, Unready, ControlOK
<1>10. job'[w].pc \in Unready => Stays(w) \/ Resets(w)
  BY DEF Ends, Unready
<1>11. Stays(w) => /\ job[w].pc \in Unready /\ job'[w].platform = job[w].platform
                   /\ ready'[p] = ready[p]
  BY DEF Stays
<1>12. Resets(w) => /\ job'[w].platform = Live(platforms[p]) /\ Live(platforms[p]) # Absent
                    /\ ready'[p] = "Unknown"
  BY <1>2, <1>4, <1>6 DEF Resets
<1>13. ConditionsArePresent'
  BY <1>1, <1>5, <1>8 DEF ConditionsArePresent
<1>14. JobsArePast'
  <2> SUFFICES ASSUME NEW v \in Workers, job'[v].pc \in Unready
               PROVE  job'[v].platform.rv <= spent.edits
    BY <1>1 DEF JobsArePast
  <2>1. CASE v # w
    BY <1>1, <1>2, <2>1 DEF JobsArePast
  <2>2. CASE v = w
    BY <1>1, <1>2, <1>10, <1>11, <1>12, <2>2 DEF JobsArePast, VersionsArePast, PlatformHere
  <2> QED BY <2>1, <2>2
<1>15. JobsAreSeen' /\ JobsAreUnready'
  <2> SUFFICES ASSUME NEW v \in Workers, job'[v].pc \in Unready
               PROVE  /\ ready'[job'[v].key] \in {"Unknown", "none"}
                      /\ Live(platforms[job'[v].key]) = job'[v].platform =>
                            ready'[job'[v].key] # "none"
    BY <1>1 DEF JobsAreSeen, JobsAreUnready
  <2>1. CASE v # w
    BY <1>1, <1>2, <1>9, <2>1 DEF JobsAreSeen, JobsAreUnready
  <2>2. CASE v = w
    BY <1>1, <1>2, <1>7, <1>10, <1>11, <1>12, <2>2 DEF JobsAreUnready
  <2> QED BY <2>1, <2>2
<1>16. FalseIsPending'
  <2> SUFFICES ASSUME NEW q \in Platforms, up, ready'[q] = "False"
               PROVE  \/ q \in queue.dirty \cup queue.delayed
                      \/ AddToCome(platforms[q])
                      \/ \E v \in Workers : job'[v].key = q /\ job'[v].pc \notin {"idle", "done"}
    BY <1>1 DEF FalseIsPending
  <2>1. CASE q # p
    BY <1>1, <1>2, <1>5, <2>1 DEF FalseIsPending
  <2>2. CASE q = p
    <3>1. job'[w].pc \notin {"idle", "done"}
      <4>1. CASE Stays(w)
        BY <4>1 DEF Stays, Unready
      <4>2. CASE Resets(w)
        BY <4>2 DEF Resets
      <4>3. CASE Ends(w)
        <5> SUFFICES ASSUME job'[w].pc = "done" PROVE FALSE
          BY <4>3 DEF Ends
        <5>1. UNCHANGED ready
          BY <1>2, <1>4, <2>2, <4>3 DEF Ends
        <5>2. Present(platforms[p]) /\ Cached(platforms[p]) # Absent
          BY <1>4, <1>8, <2>2, PresentViews
        <5>3. job[w].pc \in Unready
          BY <4>3, <5>2 DEF Ends
        <5> QED BY <1>1, <2>2, <5>1, <5>3 DEF JobsAreUnready
      <4> QED BY <4>1, <4>2, <4>3
    <3> QED BY <1>2, <2>2, <3>1
  <2> QED BY <2>1, <2>2
<1> QED BY <1>13, <1>14, <1>15, <1>16

(* Taking a key and giving it back: a key to be retried is held back.       *)
LEMMA TakeConditions ==
    ASSUME ConditionInv, NEW w \in Workers, Finish(w) \/ \E p \in Ready(queue) : Take(w, p)
    PROVE  /\ ConditionsArePresent' /\ JobsArePast' /\ JobsAreSeen' /\ JobsAreUnready'
           /\ FalseIsPending'
<1>1. /\ ControlOK /\ job \in [Workers -> Jobs] /\ queue \in QueueOver(Platforms)
      /\ ConditionsArePresent /\ JobsArePast /\ JobsAreSeen /\ JobsAreUnready /\ FalseIsPending
      /\ UNCHANGED <<platforms, ready, up, spent>>
  BY DEF ConditionInv, TypeOK, ControlOK, Finish, Take, apiVars
<1>2. /\ \A v \in Workers \ {w} : job'[v] = job[v]
      /\ job'[w].pc \in {"idle", "reset"}
  <2>1. CASE Finish(w)
    <3>1. job' = [job EXCEPT ![w] = Idle] /\ Idle.pc = "idle"
      BY <2>1 DEF Finish, Idle
    <3> QED BY <1>1, <3>1
  <2>2. ASSUME NEW p \in Ready(queue), Take(w, p)
        PROVE  /\ \A v \in Workers \ {w} : job'[v] = job[v]
               /\ job'[w].pc \in {"idle", "reset"}
    <3>1. /\ job' = [job EXCEPT ![w] = [Idle EXCEPT !.pc = "reset", !.key = p]]
          /\ [Idle EXCEPT !.pc = "reset", !.key = p].pc = "reset"
      BY <2>2 DEF Take, Idle
    <3> QED BY <1>1, <3>1
  <2> QED BY <2>1, <2>2
<1>3. ConditionsArePresent' /\ JobsArePast' /\ JobsAreSeen' /\ JobsAreUnready'
  BY <1>1, <1>2 DEF ConditionsArePresent, JobsArePast, JobsAreSeen, JobsAreUnready, Unready
<1>4. FalseIsPending'
  <2> SUFFICES ASSUME NEW q \in Platforms, up, ready[q] = "False", ~AddToCome(platforms[q])
               PROVE  \/ q \in queue'.dirty \cup queue'.delayed
                      \/ \E v \in Workers : job'[v].key = q /\ job'[v].pc \notin {"idle", "done"}
    BY <1>1 DEF FalseIsPending
  <2>1. \/ q \in queue.dirty \cup queue.delayed
        \/ \E v \in Workers : job[v].key = q /\ job[v].pc \notin {"idle", "done"}
    BY <1>1 DEF FalseIsPending
  <2>2. ASSUME NEW p \in Ready(queue), Take(w, p)
        PROVE  \/ q \in queue'.dirty \cup queue'.delayed
               \/ \E v \in Workers : job'[v].key = q /\ job'[v].pc \notin {"idle", "done"}
    <3>1. /\ queue'.dirty = queue.dirty \ {p} /\ queue'.delayed = queue.delayed
          /\ job[w].pc = "idle" /\ job'[w].pc = "reset" /\ job'[w].key = p
      BY <1>1, <2>2 DEF Take, Get, QueueOver, Idle
    <3> QED BY <1>2, <2>1, <3>1
  <2>3. ASSUME Finish(w)
        PROVE  \/ q \in queue'.dirty \cup queue'.delayed
               \/ \E v \in Workers : job'[v].key = q /\ job'[v].pc \notin {"idle", "done"}
    <3>1. /\ queue'.dirty = queue.dirty /\ queue.delayed \subseteq queue'.delayed
          /\ job[w].pc = "retry" => job[w].key \in queue'.delayed
          /\ job[w].pc \in {"done", "retry"}
      BY <1>1, <2>3 DEF Finish, Done, AddRateLimited, QueueOver
    <3> QED BY <1>2, <2>1, <3>1
  <2> QED BY <2>2, <2>3
<1> QED BY <1>3, <1>4

LEMMA ConditionInit == Init => ConditionInv
<1> SUFFICES ASSUME Init PROVE ConditionInv
  OBVIOUS
<1>1. TypeOK /\ VersionsArePast
  BY InitTypes
<1>2. \A p \in Platforms : ready[p] = "none"
  BY DEF Init
<1>3. \A w \in Workers : job[w].pc = "idle"
  BY DEF Init, Idle
<1> QED BY <1>1, <1>2, <1>3
        DEF ConditionInv, HeldOnce, Busy, ConditionsArePresent, JobsArePast, JobsAreSeen,
            JobsAreUnready, FalseIsPending, Unready

LEMMA ConditionStep == ConditionInv /\ [Next]_vars => ConditionInv'
<1> SUFFICES ASSUME ConditionInv, [Next]_vars PROVE ConditionInv'
  OBVIOUS
<1>1. /\ TypeOK /\ VersionsArePast /\ HeldOnce /\ ConditionsArePresent /\ JobsArePast
      /\ JobsAreSeen /\ JobsAreUnready /\ FalseIsPending
  BY DEF ConditionInv
<1>2. TypeOK' /\ VersionsArePast' /\ HeldOnce'
  BY <1>1, NextTypes, PastStep, HoldStep
<1>3. /\ ConditionsArePresent' /\ JobsArePast' /\ JobsAreSeen' /\ JobsAreUnready'
      /\ FalseIsPending'
  <2>1. CASE Others
    BY <2>1, EditConditions, OtherConditions
  <2>2. ASSUME NEW w \in Workers, Work(w) \/ Fail(w) \/ \E p \in Ready(queue) : Take(w, p)
        PROVE  /\ ConditionsArePresent' /\ JobsArePast' /\ JobsAreSeen' /\ JobsAreUnready'
               /\ FalseIsPending'
    <3>1. ViewsOK /\ ControlOK /\ StatusOK
      BY <1>1 DEF TypeOK
    <3>2. UNCHANGED <<apiVars, up>> /\ spent'.edits = spent.edits
      BY <2>2, <3>1, WorkerViews, WorkerStatus
    <3>3. CASE Finish(w) \/ \E p \in Ready(queue) : Take(w, p)
      BY <3>3, TakeConditions
    <3>4. CASE ~(Finish(w) \/ \E p \in Ready(queue) : Take(w, p))
      <4>1. Stays(w) \/ Resets(w) \/ Ends(w)
        BY <2>2, <3>1, <3>4, MapsEffect, StatusEffect DEF Work, Fail
      <4> QED BY <3>2, <4>1, SyncConditions
    <3> QED BY <3>3, <3>4
  <2>3. CASE UNCHANGED vars
    BY <1>1, <2>3 DEF vars, apiVars, ConditionsArePresent, JobsArePast, JobsAreSeen,
       JobsAreUnready, FalseIsPending
  <2> QED BY <2>1, <2>2, <2>3 DEF Next, Others
<1> QED BY <1>2, <1>3 DEF ConditionInv

(* The inductive invariant: types, exclusion of the workers, and for each    *)
(* platform what its condition says of workers, queue and events to come.  *)
THEOREM ConditionsAreKept == Spec => []ConditionInv
BY ConditionInit, ConditionStep, PTL DEF Spec

(* No platform is Ready while its ConfigMaps are being replaced, whatever    *)
(* conflicts, lost answers, edits of the platform and other workers do.    *)
THEOREM ReadyIsAlwaysWithdrawn == Spec => []ReadyIsWithdrawn
<1>1. ConditionInv => ReadyIsWithdrawn
  BY DEF ConditionInv, JobsAreUnready, ReadyIsWithdrawn
<1> QED BY <1>1, ConditionsAreKept, PTL

(* The controller never rests with a platform whose condition is False.    *)
THEOREM FalseIsAlwaysReconciling == Spec => []FalseIsReconciling
<1>1. ConditionInv => FalseIsReconciling
  <2> SUFFICES ASSUME ConditionInv, NEW p \in Platforms, ready[p] = "False", Settled(p)
               PROVE  FALSE
    BY DEF FalseIsReconciling
  <2>1. /\ up /\ p \notin queue.dirty \cup queue.processing \cup queue.delayed
        /\ UpToDate(platforms[p])
    BY DEF Settled
  <2>2. PICK w \in Workers : job[w].key = p /\ job[w].pc \notin {"idle", "done"}
    BY <2>1 DEF ConditionInv, FalseIsPending, AddToCome
  <2> QED BY <2>1, <2>2 DEF ConditionInv, HeldOnce, Busy
<1> QED BY <1>1, ConditionsAreKept, PTL
-----------------------------------------------------------------------------
(* ConfigMaps of platforms that stay, seen at once *)

\* What the theorem assumes of the constants.
MapsAreSeen == ~PlatformsMayChange /\ ~ConfigMapsLag

\* A ConfigMap of the platform as it is in the API server.
OwnMap(m, p, platform) ==
    /\ Live(maps[m]) # Absent /\ Controlled(Live(maps[m]), p, platform)
    /\ platform # Absent /\ platform = Live(platforms[p])

\* The store has what the API server has, a worker has read the platform as it
\* is, and what it is about to delete is its platform's.
OwnMapsInv ==
    /\ \A m \in Maps : UpToDate(maps[m])
    /\ \A w \in Workers :
         LET j == job[w]
         IN  /\ j.pc \in Unready => j.platform = Live(platforms[j.key])
             /\ j.pc = "delete" => OwnMap(j.now.map, j.key, j.platform)

LEMMA PlatformsStay ==
    ASSUME MapsAreSeen, TypeOK, [Next]_vars, NEW p \in Platforms
    PROVE  Live(platforms'[p]) = Live(platforms[p])
<1>1. ViewsOK /\ ControlOK
  BY DEF TypeOK
<1>2. CASE Edit
  <2>1. \A q \in Platforms : \A v : ~WritePlatform(q, v)
    BY DEF MapsAreSeen, WritePlatform
  <2>2. \A q \in Platforms : \A ns : ~EditPlatform(q, ns) /\ ~CreatePlatform(q, ns)
    BY <2>1 DEF EditPlatform, CreatePlatform
  <2>3. \A q \in Platforms : ~DeletePlatform(q)
    BY <2>1 DEF DeletePlatform
  <2> QED BY <1>2, <2>2, <2>3 DEF Edit, EditTenant, EditDomain, EditService, apiVars
<1>3. CASE Observe \/ Handle \/ Crash \/ Restart
  BY <1>1, <1>3, LastVersionStays
<1>4. ASSUME NEW w \in Workers, Work(w) \/ Fail(w) \/ \E q \in Ready(queue) : Take(w, q)
      PROVE  UNCHANGED platforms
  BY <1>1, <1>4, WorkerViews DEF apiVars
<1>5. CASE (\E m \in Maps : Collect(m)) \/ (\E q \in queue.delayed : Retry(q))
  BY <1>5 DEF Collect, Retry, apiVars
<1>6. CASE UNCHANGED vars
  BY <1>6 DEF vars, apiVars
<1> QED BY <1>2, <1>3, <1>4, <1>5, <1>6 DEF Next

LEMMA WriteSeen ==
    ASSUME MapsAreSeen, ViewsOK, NEW m \in Maps, NEW v, WriteMap(m, v)
    PROVE  /\ Live(maps'[m]) = v /\ UpToDate(maps'[m])
           /\ \A n \in Maps \ {m} : maps'[n] = maps[n]
BY DEF MapsAreSeen, ViewsOK, WriteMap, Unwatched, Live, UpToDate

\* What a worker between its two status writes does to the ConfigMaps.
Reads(w) ==
    /\ UNCHANGED maps
    /\ job'[w].pc = "delete" => OwnMap(job'[w].now.map, job[w].key, job[w].platform)

Creates(w, m) ==
    /\ job[w].pc \in {"create", "recreate"}
    /\ Live(maps[m]) = Absent /\ WriteMap(m, Desired(job[w]))
    /\ job'[w].pc = "delete" => job'[w].now.map = m

Deletes(w, m) ==
    /\ job[w].pc = "delete" /\ job[w].now.map = m
    /\ WriteMap(m, Absent) /\ job'[w].pc # "delete"

LEMMA AdvanceDeletesNot ==
    ASSUME ControlOK, NEW w \in Workers, job[w].pc \in Unready, Advance(w) \/ CallFailed(w)
    PROVE  job'[w].pc # "delete"
<1>1. job[w] \in Jobs /\ w \in DOMAIN job
  BY DEF ControlOK
<1>2. CASE Advance(w)
  <2>1. CASE job' = [job EXCEPT ![w].pc = "succeed", ![w].now = NoWrite]
    BY <1>1, <2>1 DEF Jobs
  <2>2. ASSUME NEW d \in job[w].left,
               job' = [job EXCEPT ![w].pc = "look", ![w].now = d, ![w].left = @ \ {d}]
        PROVE  job'[w].pc # "delete"
    BY <1>1, <2>2 DEF Jobs
  <2> QED BY <1>2, <2>1, <2>2 DEF Advance
<1>3. CASE CallFailed(w)
  <2>1. CASE Advance(w)
    BY <1>2, <2>1
  <2>2. CASE job' = [job EXCEPT ![w].pc = "fail"]
    BY <1>1, <2>2 DEF Jobs
  <2> QED BY <1>3, <2>1, <2>2 DEF CallFailed
<1> QED BY <1>2, <1>3

LEMMA SyncMaps ==
    ASSUME MapsAreSeen, ConditionInv, OwnMapsInv, NEW w \in Workers,
           List(w) \/ Look(w) \/ CallApi(w) \/ CallFails(w)
    PROVE  Reads(w) \/ \E m \in Maps : Creates(w, m) \/ Deletes(w, m)
<1>1. ViewsOK /\ ControlOK /\ job \in [Workers -> Jobs] /\ job[w] \in Jobs
  BY DEF ConditionInv, TypeOK, ControlOK
<1>2. job[w].pc \in Unready
  BY DEF List, Look, CallApi, CallFails, Unready
<1>3. CASE List(w)
  BY <1>1, <1>3 DEF List, Reads, Jobs
<1>4. CASE Look(w)
  <2>1. job[w].now.map \in Maps
    BY <1>1, <1>2, <1>4 DEF Look, ControlOK, Jobs, Writes
  <2>2. Cached(maps[job[w].now.map]) = Live(maps[job[w].now.map])
    BY <1>1, <2>1 DEF OwnMapsInv, UpToDate, Cached, Live, ViewsOK, WellFormed
  <2>3. job[w].platform # Absent /\ job[w].platform = Live(platforms[job[w].key])
    BY <1>1, <1>2 DEF OwnMapsInv, ControlOK
  <2>4. UNCHANGED maps
    BY <1>4 DEF Look
  <2>5. CASE Advance(w)
    BY <1>1, <1>2, <2>4, <2>5, AdvanceDeletesNot DEF Reads
  <2>6. CASE job' = [job EXCEPT ![w].pc = "create"]
    BY <1>1, <2>4, <2>6 DEF Reads, Jobs
  <2>7. CASE /\ Cached(maps[job[w].now.map]) # Absent
             /\ Controlled(Cached(maps[job[w].now.map]), job[w].key, job[w].platform)
             /\ job' = [job EXCEPT ![w].pc = "delete"]
    <3>1. job'[w].now = job[w].now
      BY <1>1, <2>7 DEF Jobs
    <3> QED BY <2>2, <2>3, <2>4, <2>7, <3>1 DEF Reads, OwnMap
  <2> QED BY <1>4, <2>5, <2>6, <2>7 DEF Look
<1>5. CASE CallApi(w) \/ CallFails(w)
  <2> DEFINE m == job[w].now.map
  <2>1. m \in Maps /\ job[w].pc \in {"create", "delete", "recreate"}
    BY <1>1, <1>2, <1>5 DEF CallApi, CallFails, ControlOK, Jobs, Writes
  <2>2. CASE CallFailed(w) \/ Advance(w)
    <3>1. job'[w].pc # "delete"
      BY <1>1, <1>2, <2>2, AdvanceDeletesNot
    <3>2. UNCHANGED maps \/ (CallPossible(job[w]) /\ CallDone(job[w]))
      BY <1>5 DEF CallApi, CallFails
    <3>3. CASE UNCHANGED maps
      BY <3>1, <3>3 DEF Reads
    <3>4. CASE CallPossible(job[w]) /\ CallDone(job[w])
      BY <2>1, <3>1, <3>4 DEF CallPossible, CallDone, Creates, Deletes
    <3> QED BY <3>2, <3>3, <3>4
  <2>3. CASE job[w].pc = "delete" /\ CallDone(job[w]) /\ job' = [job EXCEPT ![w].pc = "recreate"]
    <3>1. job'[w].pc # "delete"
      BY <1>1, <2>3 DEF Jobs
    <3> QED BY <2>1, <2>3, <3>1 DEF CallDone, Deletes
  <2>4. CASE /\ job[w].pc = "create" /\ CallPossible(job[w]) /\ CallDone(job[w])
             /\ job' = [job EXCEPT ![w].pc = "delete"]
    <3>1. job'[w].now = job[w].now
      BY <1>1, <2>4 DEF Jobs
    <3> QED BY <2>1, <2>4, <3>1 DEF CallPossible, CallDone, Creates
  <2> QED BY <1>5, <2>2, <2>3, <2>4 DEF CallApi, CallFails
<1> QED BY <1>3, <1>4, <1>5

(* Two workers do not delete the same ConfigMap, and nobody collects it. *)
LEMMA OwnMapStays ==
    ASSUME MapsAreSeen, ConditionInv, OwnMapsInv, NEW v \in Workers, job[v].pc = "delete",
           NEW m \in Maps, WriteMap(m, Absent),
           Orphan(Live(maps[m])) \/ \E w \in Workers \ {v} : Deletes(w, m)
    PROVE  job[v].now.map # m
<1> SUFFICES ASSUME job[v].now.map = m PROVE FALSE
  OBVIOUS
<1>1. OwnMap(m, job[v].key, job[v].platform)
  BY DEF OwnMapsInv
<1>2. CASE Orphan(Live(maps[m]))
  BY <1>1, <1>2 DEF OwnMap, Orphan, Controlled, Owner
<1>3. ASSUME NEW w \in Workers \ {v}, Deletes(w, m) PROVE FALSE
  <2>1. OwnMap(m, job[w].key, job[w].platform) /\ job[w].pc = "delete"
    BY <1>3 DEF OwnMapsInv, Deletes
  <2>2. job[w].key = job[v].key
    BY <1>1, <2>1 DEF OwnMap, Controlled, Owner
  <2> QED BY <2>1, <2>2 DEF ConditionInv, HeldOnce, Busy
<1> QED BY <1>2, <1>3

LEMMA SyncKeepsOwnMaps ==
    ASSUME MapsAreSeen, ConditionInv, OwnMapsInv, NEW w \in Workers,
           List(w) \/ Look(w) \/ CallApi(w) \/ CallFails(w)
    PROVE  OwnMapsInv'
<1>1. ViewsOK /\ ControlOK /\ job \in [Workers -> Jobs] /\ job[w] \in Jobs
  BY DEF ConditionInv, TypeOK, ControlOK
<1>2. UNCHANGED platforms
  BY <1>1, WorkerViews DEF Work, Fail, apiVars
<1>3. Stays(w)
  BY <1>1, MapsEffect
<1>4. /\ job'[w].key = job[w].key /\ job'[w].platform = job[w].platform
      /\ job[w].pc \in Unready /\ job'[w].pc \in Unready
      /\ \A v \in Workers \ {w} : job'[v] = job[v]
  BY <1>3 DEF Stays, Continues
<1>5. job[w].platform # Absent /\ job[w].platform = Live(platforms[job[w].key])
  BY <1>1, <1>4 DEF OwnMapsInv, ControlOK
<1>6. ASSUME NEW v \in Workers, job'[v].pc \in Unready
      PROVE  job'[v].platform = Live(platforms'[job'[v].key])
  BY <1>2, <1>4, <1>5, <1>6 DEF OwnMapsInv
<1>7. CASE Reads(w)
  <2>1. \A m \in Maps : UpToDate(maps'[m])
    BY <1>7 DEF Reads, OwnMapsInv
  <2>2. ASSUME NEW v \in Workers, job'[v].pc = "delete"
        PROVE  OwnMap(job[v].now.map, job[v].key, job[v].platform)'
    BY <1>2, <1>4, <1>7, <2>2 DEF Reads, OwnMapsInv, OwnMap
  <2> QED BY <1>6, <2>1, <2>2 DEF OwnMapsInv
<1>8. ASSUME NEW m \in Maps, Creates(w, m) \/ Deletes(w, m) PROVE OwnMapsInv'
  <2> PICK new : WriteMap(m, new) /\ (Creates(w, m) => new = Desired(job[w]))
                 /\ (Deletes(w, m) => new = Absent)
    <3>1. Creates(w, m) => ~Deletes(w, m)
      BY DEF Creates, Deletes, OwnMapsInv, OwnMap
    <3> QED BY <1>8, <3>1 DEF Creates, Deletes
  <2>1. /\ Live(maps'[m]) = new /\ UpToDate(maps'[m])
        /\ \A n \in Maps \ {m} : maps'[n] = maps[n]
    BY <1>1, WriteSeen
  <2>2. \A n \in Maps : UpToDate(maps'[n])
    BY <2>1 DEF OwnMapsInv
  <2>3. ASSUME NEW v \in Workers \ {w}, job'[v].pc = "delete"
        PROVE  OwnMap(job[v].now.map, job[v].key, job[v].platform)'
    <3>1. job[v].pc = "delete" /\ job'[v] = job[v]
      BY <1>4, <2>3
    <3>2. OwnMap(job[v].now.map, job[v].key, job[v].platform) /\ job[v].now.map \in Maps
      BY <1>1, <3>1 DEF OwnMapsInv, ControlOK, Unready, Jobs, Writes
    <3>3. job[v].now.map # m
      BY <1>8, <3>1, <3>2, OwnMapStays DEF Creates, Deletes, OwnMap
    <3> QED BY <1>2, <2>1, <3>1, <3>2, <3>3 DEF OwnMap
  <2>4. ASSUME job'[w].pc = "delete"
        PROVE  OwnMap(job[w].now.map, job[w].key, job[w].platform)'
    <3>1. Creates(w, m) /\ job'[w].now.map = m /\ Live(maps'[m]) = Desired(job[w])
      BY <1>8, <2>1, <2>4 DEF Creates, Deletes
    <3>2. Desired(job[w]) # Absent
      <4>1. /\ job[w].key \in Platforms /\ job[w].platform \in PlatformVersions
            /\ job[w].now \in Writes
        BY <1>1, <1>4, <3>1 DEF Creates, ControlOK, Jobs, Unready
      <4>2. job[w].now.data \in SUBSET Entries
        BY <4>1 DEF Writes
      <4>3. Owner(job[w].key, job[w].platform) \in Platforms \X (0 .. MaxEdits)
        BY <4>1 DEF Owner, PlatformVersions
      <4>4. Desired(job[w]) \in ConfigMaps
        BY <4>2, <4>3 DEF Desired, ConfigMaps
      <4> QED BY <4>4, VersionsAreSpecs
    <3>3. Controlled(Desired(job[w]), job[w].key, job[w].platform)
      BY DEF Desired, Controlled
    <3> QED BY <1>2, <1>4, <1>5, <3>1, <3>2, <3>3 DEF OwnMap
  <2> QED BY <1>4, <1>6, <2>2, <2>3, <2>4 DEF OwnMapsInv
<1> QED BY <1>7, <1>8, SyncMaps

\* A step of a worker that is not between the two status writes, ...
Around(w) ==
    \/ Finish(w) \/ (\E p \in Ready(queue) : Take(w, p))
    \/ ResetStatus(w) \/ ResetFails(w) \/ UpdateStatus(w) \/ UpdateFails(w)

\* ... or one of somebody else.
Elsewhere == Others \/ UNCHANGED vars \/ \E w \in Workers : Around(w)

LEMMA ElsewhereMaps ==
    ASSUME MapsAreSeen, ConditionInv, OwnMapsInv, Elsewhere
    PROVE  /\ \A m \in Maps : UpToDate(maps'[m])
           /\ \/ \A m \in Maps : Live(maps'[m]) = Live(maps[m])
              \/ \E m \in Maps : Collect(m)
<1>1. ViewsOK
  BY DEF ConditionInv, TypeOK
<1>2. \A m \in Maps : ~ObserveMap(m)
  BY <1>1 DEF OwnMapsInv, ObserveMap, CanObserve, UpToDate, ViewsOK, WellFormed
<1>3. CASE UNCHANGED maps
  BY <1>3 DEF OwnMapsInv
<1>4. CASE Crash
  BY <1>1, <1>4 DEF Crash, Unwatched, Live, UpToDate
<1>5. ASSUME NEW m \in Maps, Collect(m) PROVE \A n \in Maps : UpToDate(maps'[n])
  <2>1. WriteMap(m, Absent)
    BY <1>5 DEF Collect
  <2> QED BY <1>1, <2>1, WriteSeen DEF OwnMapsInv
<1>6. CASE Edit
  BY <1>3, <1>6 DEF Edit, EditTenant, EditDomain, EditService, EditPlatform, CreatePlatform,
     DeletePlatform, WritePlatform
<1>7. CASE Observe
  BY <1>2, <1>3, <1>7 DEF Observe, ObservePlatform, ObserveTenant, ObserveDomain
<1>8. CASE Handle \/ Restart \/ \E p \in queue.delayed : Retry(p)
  BY <1>3, <1>8 DEF Handle, HandlePlatform, HandleTenant, HandleDomain, Restart, Retry
<1>9. CASE UNCHANGED vars \/ \E w \in Workers : Around(w)
  BY <1>3, <1>9 DEF vars, Around, Finish, Take, ResetStatus, ResetFails, UpdateStatus, UpdateFails
<1> QED BY <1>4, <1>5, <1>6, <1>7, <1>8, <1>9 DEF Elsewhere, Others

LEMMA ElsewhereJobs ==
    ASSUME MapsAreSeen, ConditionInv, OwnMapsInv, Elsewhere,
           [Next]_vars, NEW v \in Workers
    PROVE  LET j == job'[v]
           IN  /\ j.pc \in Unready => j.platform = Live(platforms'[j.key])
               /\ j.pc = "delete" => j = job[v]
<1>1. /\ ViewsOK /\ ControlOK /\ job \in [Workers -> Jobs] /\ job[v] \in Jobs
      /\ TypeOK
  BY DEF ConditionInv, TypeOK, ControlOK
<1>2. CASE job'[v] = job[v]
  <2>1. job[v].pc \in Unready => job[v].key \in Platforms
    BY <1>1 DEF ControlOK, Unready
  <2> QED BY <1>1, <1>2, <2>1, PlatformsStay DEF OwnMapsInv
<1>3. CASE job'[v].pc \in {"idle", "reset", "done", "retry"}
  BY <1>3 DEF Unready
<1>4. CASE UNCHANGED vars
  BY <1>2, <1>4 DEF vars
<1>5. CASE Crash
  BY <1>3, <1>5, IdleIsJob DEF Crash
<1>6. CASE Others /\ ~Crash
  BY <1>2, <1>6 DEF Others, Edit, EditTenant, EditDomain, EditService, EditPlatform,
     CreatePlatform, DeletePlatform, WritePlatform, Observe, ObservePlatform, ObserveTenant,
     ObserveDomain, ObserveMap, Handle, HandlePlatform, HandleTenant, HandleDomain, Restart,
     Collect, Retry
<1>7. ASSUME NEW w \in Workers, Finish(w) \/ \E p \in Ready(queue) : Take(w, p)
      PROVE  LET j == job'[v]
             IN  /\ j.pc \in Unready => j.platform = Live(platforms'[j.key])
                 /\ j.pc = "delete" => j = job[v]
  <2>1. job'[v] = job[v] \/ job'[v].pc \in {"idle", "reset"}
    BY <1>1, <1>7, IdleIsJob DEF Finish, Take, Idle
  <2> QED BY <1>2, <1>3, <2>1
<1>8. ASSUME NEW w \in Workers,
             ResetStatus(w) \/ ResetFails(w) \/ UpdateStatus(w) \/ UpdateFails(w)
      PROVE  LET j == job'[v]
             IN  /\ j.pc \in Unready => j.platform = Live(platforms'[j.key])
                 /\ j.pc = "delete" => j = job[v]
  <2>1. Resets(w) \/ Ends(w)
    BY <1>1, <1>8, StatusEffect
  <2>2. v # w => job'[v] = job[v]
    BY <2>1 DEF Resets, Ends, Continues
  <2>3. CASE v = w /\ Ends(w)
    BY <1>3, <2>3 DEF Ends
  <2>4. CASE v = w /\ Resets(w)
    <3>1. job[w].key \in Platforms /\ UNCHANGED platforms
      BY <1>1, <1>8, <2>4, WorkerViews DEF Work, Fail, apiVars, ControlOK, Resets, Continues, Busy
    <3>2. Cached(platforms[job[w].key]) = Live(platforms[job[w].key])
      BY <1>1, <2>4, <3>1, PresentViews DEF Resets, StoreIsCurrent, ViewsOK
    <3> QED BY <2>4, <3>1, <3>2 DEF Resets, Continues
  <2> QED BY <1>2, <2>1, <2>2, <2>3, <2>4
<1> QED BY <1>4, <1>5, <1>6, <1>7, <1>8 DEF Elsewhere, Around

LEMMA ElsewhereKeepsOwnMaps ==
    ASSUME MapsAreSeen, ConditionInv, OwnMapsInv, Elsewhere, [Next]_vars
    PROVE  OwnMapsInv'
<1>1. ViewsOK /\ ControlOK /\ TypeOK
  BY DEF ConditionInv, TypeOK
<1>2. ASSUME NEW v \in Workers, job'[v].pc = "delete"
      PROVE  OwnMap(job[v].now.map, job[v].key, job[v].platform)'
  <2>1. job'[v] = job[v] /\ job[v].pc = "delete"
    BY <1>2, ElsewhereJobs
  <2>2. /\ OwnMap(job[v].now.map, job[v].key, job[v].platform)
        /\ job[v].now.map \in Maps /\ job[v].key \in Platforms
    BY <1>1, <2>1 DEF OwnMapsInv, ControlOK, Unready, Jobs, Writes
  <2>3. Live(platforms'[job[v].key]) = Live(platforms[job[v].key])
    BY <1>1, <2>2, PlatformsStay
  <2>4. Live(maps'[job[v].now.map]) = Live(maps[job[v].now.map])
    <3>1. ASSUME NEW m \in Maps, Collect(m)
          PROVE  Live(maps'[job[v].now.map]) = Live(maps[job[v].now.map])
      <4>1. WriteMap(m, Absent) /\ Orphan(Live(maps[m]))
        BY <3>1 DEF Collect
      <4>2. job[v].now.map # m
        BY <2>1, <4>1, OwnMapStays
      <4> QED BY <1>1, <2>2, <4>1, <4>2, WriteSeen
    <3> QED BY <2>2, <3>1, ElsewhereMaps
  <2> QED BY <2>1, <2>2, <2>3, <2>4 DEF OwnMap
<1> QED BY <1>2, ElsewhereMaps, ElsewhereJobs DEF OwnMapsInv

MapSteps(w) == List(w) \/ Look(w) \/ CallApi(w) \/ CallFails(w)

LEMMA StepsAreThese == [Next]_vars => Elsewhere \/ \E w \in Workers : MapSteps(w)
BY DEF Next, Elsewhere, Around, Others, MapSteps, Work, Fail

LEMMA OwnMapsInit == Init => OwnMapsInv
BY DEF Init, OwnMapsInv, Idle, Unready, UpToDate, Unwatched

(* Nobody but a worker on the platform that controls a ConfigMap writes it. *)
LEMMA OwnMapsAreKept ==
    ASSUME MapsAreSeen, ConditionInv, OwnMapsInv, [Next]_vars, NEW m \in Maps,
           Live(maps[m]) # Absent, ~Orphan(Live(maps[m])), Live(maps'[m]) # Live(maps[m])
    PROVE  \E w \in Workers :
              /\ job[w].pc = "delete" /\ job[w].now.map = m
              /\ Controlled(Live(maps[m]), job[w].key, job[w].platform)
<1>1. ViewsOK
  BY DEF ConditionInv, TypeOK
<1>2. CASE Elsewhere
  <2>1. PICK n \in Maps : Collect(n)
    BY <1>2, ElsewhereMaps
  <2>2. WriteMap(n, Absent) /\ n # m
    BY <2>1 DEF Collect
  <2> QED BY <1>1, <2>2, WriteSeen
<1>3. ASSUME NEW w \in Workers, MapSteps(w)
      PROVE  /\ job[w].pc = "delete" /\ job[w].now.map = m
             /\ Controlled(Live(maps[m]), job[w].key, job[w].platform)
  <2>1. PICK n \in Maps : Creates(w, n) \/ Deletes(w, n)
    BY <1>3, SyncMaps DEF MapSteps, Reads
  <2>2. n = m
    BY <1>1, <2>1, WriteSeen DEF Creates, Deletes
  <2>3. Deletes(w, m)
    BY <2>1, <2>2 DEF Creates
  <2> QED BY <2>3 DEF Deletes, OwnMapsInv, OwnMap
<1> QED BY <1>2, <1>3, StepsAreThese

(* While no platform is edited and the store of ConfigMaps does not lag, a   *)
(* ConfigMap that a platform controls is only ever deleted by a worker on    *)
(* that platform, whatever tenants and domains do and calls fail meanwhile.  *)
THEOREM OwnMapsAreReplacedOnly ==
    ASSUME MapsAreSeen PROVE Spec => OnlyOwnMapsAreReplaced
<1>1. OwnMapsInv /\ ConditionInv /\ [Next]_vars => OwnMapsInv'
  BY StepsAreThese, SyncKeepsOwnMaps, ElsewhereKeepsOwnMaps DEF MapSteps
<1>2. /\ OwnMapsInv /\ ConditionInv /\ [Next]_vars
      => [\A m \in Maps :
            LET map == Live(maps[m])
            IN  map # Absent /\ ~Orphan(map) /\ Live(maps[m])' # map =>
                   \E w \in Workers : /\ job[w].pc = "delete" /\ job[w].now.map = m
                                      /\ Controlled(map, job[w].key, job[w].platform)]_vars
  BY OwnMapsAreKept DEF Live
<1> QED BY <1>1, <1>2, OwnMapsInit, ConditionsAreKept, PTL DEF Spec, OnlyOwnMapsAreReplaced
-----------------------------------------------------------------------------
(* What makes a platform pending *)

\* The change of a platform wakes it.
Wakes(c) == c[2] # Absent /\ (c[1] = Absent \/ c[1].ns # c[2].ns)

PendingIs ==
    /\ ~up => PendingKeys = Platforms
    /\ up => \A k :
          k \in PendingKeys <=>
              \/ k \in queue.dirty \cup queue.delayed
              \/ k \in Platforms /\ \E c \in Events(platforms[k]) : Wakes(c)
              \/ \E t \in Tenants : \E c \in Events(tenants[t]) : k \in OnReference(c[1], c[2])

LEMMA PendingIsThis == PendingIs
<1> SUFFICES ASSUME up, NEW k
             PROVE  k \in PendingKeys <=>
                      \/ k \in queue.dirty \cup queue.delayed
                      \/ k \in Platforms /\ \E c \in Events(platforms[k]) : Wakes(c)
                      \/ \E t \in Tenants : \E c \in Events(tenants[t]) : k \in OnReference(c[1], c[2])
  BY DEF PendingIs, PendingKeys
<1> DEFINE P(p, i) == OnPlatform(p, platforms[p].log[i], platforms[p].log[i + 1])
           T(t, i) == OnReference(tenants[t].log[i], tenants[t].log[i + 1])
<1>1. k \in PendingKeys <=>
        \/ k \in queue.dirty \cup queue.delayed
        \/ \E p \in Platforms : \E i \in 1 .. Len(platforms[p].log) - 1 : k \in P(p, i)
        \/ \E t \in Tenants : \E i \in 1 .. Len(tenants[t].log) - 1 : k \in T(t, i)
  <2> DEFINE A == UNION {UNION {P(p, i) : i \in 1 .. Len(platforms[p].log) - 1} : p \in Platforms}
             B == UNION {UNION {T(t, i) : i \in 1 .. Len(tenants[t].log) - 1} : t \in Tenants}
  <2>1. PendingKeys = queue.dirty \cup queue.delayed \cup A \cup B
    BY DEF PendingKeys, Coming
  <2> HIDE DEF P, T
  <2>2. k \in A <=> \E p \in Platforms : \E i \in 1 .. Len(platforms[p].log) - 1 : k \in P(p, i)
    OBVIOUS
  <2>3. k \in B <=> \E t \in Tenants : \E i \in 1 .. Len(tenants[t].log) - 1 : k \in T(t, i)
    OBVIOUS
  <2> HIDE DEF A, B
  <2> QED BY <2>1, <2>2, <2>3
<1>2. (\E p \in Platforms : \E i \in 1 .. Len(platforms[p].log) - 1 : k \in P(p, i))
      <=> k \in Platforms /\ \E c \in Events(platforms[k]) : Wakes(c)
  <2>1. ASSUME NEW p, NEW x, NEW y
        PROVE  k \in OnPlatform(p, x, y) <=> k = p /\ Wakes(<<x, y>>)
    BY DEF OnPlatform, Wakes
  <2>2. (\E c \in Events(platforms[k]) : Wakes(c)) <=>
          \E i \in 1 .. Len(platforms[k].log) - 1 : Wakes(<<platforms[k].log[i], platforms[k].log[i + 1]>>)
    BY DEF Events
  <2> HIDE DEF Wakes
  <2> QED BY <2>1, <2>2
<1>3. (\E t \in Tenants : \E i \in 1 .. Len(tenants[t].log) - 1 : k \in T(t, i))
      <=> \E t \in Tenants : \E c \in Events(tenants[t]) : k \in OnReference(c[1], c[2])
  <2>1. ASSUME NEW t \in Tenants
        PROVE  (\E i \in 1 .. Len(tenants[t].log) - 1 : k \in T(t, i))
               <=> \E c \in Events(tenants[t]) : k \in OnReference(c[1], c[2])
    <3> DEFINE Pair(i) == <<tenants[t].log[i], tenants[t].log[i + 1]>>
    <3>1. Events(tenants[t]) = {Pair(i) : i \in 1 .. Len(tenants[t].log) - 1}
      BY DEF Events
    <3>2. ASSUME NEW i PROVE T(t, i) = OnReference(Pair(i)[1], Pair(i)[2])
      OBVIOUS
    <3> HIDE DEF T, Pair
    <3> QED BY <3>1, <3>2
  <2> HIDE DEF T
  <2> QED BY <2>1
<1> HIDE DEF P, T
<1> QED BY <1>1, <1>2, <1>3

\* Platform p has the tenants it had before, ...
SameTenants(p) == /\ Of(p, LiveTenants') = Of(p, LiveTenants)
                  /\ \A t \in Of(p, LiveTenants) : LiveTenants'[t] = LiveTenants[t]

\* ... and so wants the ConfigMap it wanted before.
SameWanted(p) ==
    /\ PlatformHere(p) /\ PlatformHere(p)'
    /\ Live(platforms'[p]).ns = Live(platforms[p]).ns
    /\ Live(platforms'[p]).uid = Live(platforms[p]).uid
    /\ SameTenants(p)
    /\ WantedMap(p)' = WantedMap(p) /\ Wanted(p)' = Wanted(p)

LEMMA SameWantedBy ==
    ASSUME NEW p \in Platforms, PlatformHere(p), PlatformHere(p)',
           Live(platforms'[p]).ns = Live(platforms[p]).ns,
           Live(platforms'[p]).uid = Live(platforms[p]).uid,
           \A t \in Tenants : \/ Live(tenants'[t]) = Live(tenants[t])
                              \/ p \notin OnReference(Live(tenants[t]), Live(tenants'[t]))
    PROVE  SameWanted(p)
<1>1. LiveTenants = [t \in Tenants |-> Live(tenants[t])] /\ LiveTenants' = [t \in Tenants |-> Live(tenants'[t])]
  BY DEF LiveTenants
<1> DEFINE ts == LiveTenants
           us == LiveTenants'
<1>2. DOMAIN ts = Tenants /\ DOMAIN us = Tenants
  BY <1>1
<1>3. ASSUME NEW t \in Tenants
      PROVE  \/ us[t] = ts[t]
             \/ /\ ~(ts[t] # Absent /\ ts[t].platform = p)
                /\ ~(us[t] # Absent /\ us[t].platform = p)
  BY <1>1 DEF OnReference
<1> HIDE DEF ts, us
<1>4. Of(p, us) = Of(p, ts) /\ \A t \in Of(p, ts) : t \in Tenants /\ us[t] = ts[t]
  BY <1>2, <1>3 DEF Of
<1>5. {<<t, us[t].enabled, us[t].info, {}>> : t \in Of(p, us)}
        = {<<t, ts[t].enabled, ts[t].info, {}>> : t \in Of(p, ts)}
  BY <1>4
<1>6. PlatformWrite(p, Live(platforms'[p]), us) = PlatformWrite(p, Live(platforms[p]), ts)
  BY <1>5 DEF PlatformWrite
<1>7. WantedMap(p)' = WantedMap(p)
  BY <1>6 DEF WantedMap, ts, us
<1>8. Wanted(p)' = Wanted(p)
  BY <1>7 DEF Wanted, Owner
<1>9. SameTenants(p)
  BY <1>4 DEF SameTenants, ts, us
<1> QED BY <1>7, <1>8, <1>9 DEF SameWanted

(* The users: a platform no edit wakes has the same wishes as before.      *)
LEMMA EditPending ==
    ASSUME TypeOK, VersionsArePast, Edit, NEW p \in Platforms, p \notin PendingKeys'
    PROVE  up /\ p \notin PendingKeys /\ (PlatformHere(p)' => SameWanted(p))
<1>1. /\ ViewsOK /\ StatusOK /\ queue \in QueueOver(Platforms)
      /\ UNCHANGED up /\ spent.edits < MaxEdits
      /\ queue.dirty \subseteq queue'.dirty /\ queue'.delayed = queue.delayed
  <2>1. TypeOK /\ UNCHANGED up /\ spent.edits < MaxEdits
    BY DEF Edit, EditTenant, EditDomain, EditService, EditPlatform, CreatePlatform,
           DeletePlatform, WritePlatform
  <2> QED BY <2>1, EditEffect DEF TypeOK, ControlOK, AddAll, QueueOver
<1>2. /\ platforms \in [Platforms -> ViewOf(PlatformVersions \cup {Absent})]
      /\ tenants \in [Tenants -> ViewOf(TenantSpec \cup {Absent})]
      /\ WellFormed(platforms[p]) /\ \A t \in Tenants : WellFormed(tenants[t])
  BY <1>1 DEF ViewsOK
<1>3. PendingIs /\ PendingIs'
  BY PendingIsThis, PTL
<1>4. up
  BY <1>1, <1>3 DEF PendingIs
<1>5. /\ p \notin queue.dirty \cup queue.delayed
      /\ ~\E c \in Events(platforms'[p]) : Wakes(c)
      /\ ~\E t \in Tenants : \E c \in Events(tenants'[t]) : p \in OnReference(c[1], c[2])
  BY <1>1, <1>3, <1>4 DEF PendingIs
<1>6. ASSUME Events(platforms[p]) \subseteq Events(platforms'[p]),
             \A t \in Tenants : Events(tenants[t]) \subseteq Events(tenants'[t])
      PROVE  p \notin PendingKeys
  BY <1>3, <1>4, <1>5, <1>6 DEF PendingIs
<1>7. ASSUME NEW v \in PlatformVersions \cup {Absent}, NEW q \in Platforms,
             platforms' = [platforms EXCEPT ![q] = Write(@, v)], UNCHANGED tenants
      PROVE  /\ p \notin PendingKeys
             /\ q # p => platforms'[p] = platforms[p]
             /\ q = p => Live(platforms'[p]) = v /\ ~Wakes(<<Live(platforms[p]), v>>)
  <2>1. q # p => platforms'[p] = platforms[p]
    BY <1>7
  <2>2. q = p => platforms'[p] = Written(platforms[p], v)
    BY <1>2, <1>4, <1>7 DEF Write
  <2>3. /\ Events(Written(platforms[p], v)) = Events(platforms[p]) \cup {<<Live(platforms[p]), v>>}
    BY <1>2, ChangesOfViews
  <2>4. Live(Written(platforms[p], v)) = v
    BY <1>2, WrittenLog DEF Live
  <2>5. Events(platforms[p]) \subseteq Events(platforms'[p])
    BY <2>1, <2>2, <2>3
  <2>6. p \notin PendingKeys
    BY <1>6, <1>7, <2>5
  <2> QED BY <1>5, <2>1, <2>2, <2>3, <2>4, <2>6
<1>8. ASSUME platforms'[p] = platforms[p], PlatformHere(p)',
             \A t \in Tenants : \/ Live(tenants'[t]) = Live(tenants[t])
                                \/ p \notin OnReference(Live(tenants[t]), Live(tenants'[t]))
      PROVE  SameWanted(p)
  BY <1>8, SameWantedBy DEF PlatformHere
<1>9. ASSUME NEW s \in Tenants, NEW v \in TenantVals[s] \cup {Absent}, EditTenant(s, v)
      PROVE  p \notin PendingKeys /\ (PlatformHere(p)' => SameWanted(p))
  <2>1. /\ UNCHANGED platforms /\ \A t \in Tenants \ {s} : tenants'[t] = tenants[t]
        /\ tenants'[s] = Written(tenants[s], v)
    BY <1>2, <1>4, <1>9 DEF EditTenant, Write
  <2>2. v \in TenantSpec \cup {Absent}
    BY VersionsAreSpecs
  <2>3. Events(Written(tenants[s], v)) = Events(tenants[s]) \cup {<<Live(tenants[s]), v>>}
    BY <1>2, <2>2, ChangesOfViews
  <2>4. Live(Written(tenants[s], v)) = v
    BY <1>2, <2>2, WrittenLog DEF Live
  <2>5. \A t \in Tenants : Events(tenants[t]) \subseteq Events(tenants'[t])
    BY <2>1, <2>3
  <2>6. p \notin OnReference(Live(tenants[s]), v)
    <3>1. <<Live(tenants[s]), v>> \in Events(tenants'[s])
      BY <2>1, <2>3
    <3> QED BY <1>5, <3>1
  <2>7. \A t \in Tenants : \/ Live(tenants'[t]) = Live(tenants[t])
                           \/ p \notin OnReference(Live(tenants[t]), Live(tenants'[t]))
    BY <2>1, <2>4, <2>6
  <2> QED BY <1>6, <1>8, <2>1, <2>5, <2>7
<1>10. ASSUME UNCHANGED <<platforms, tenants>>
       PROVE  p \notin PendingKeys /\ (PlatformHere(p)' => SameWanted(p))
  BY <1>6, <1>8, <1>10
<1>11. ASSUME NEW q \in Platforms, NEW ns \in Namespaces, EditPlatform(q, ns)
       PROVE  p \notin PendingKeys /\ (PlatformHere(p)' => SameWanted(p))
  <2> DEFINE v == [Live(platforms[q]) EXCEPT !.rv = spent.edits + 1, !.ns = ns]
  <2>1. /\ PlatformHere(q) /\ UNCHANGED tenants
        /\ platforms' = [platforms EXCEPT ![q] = Write(@, v)]
    BY <1>11 DEF EditPlatform, WritePlatform, PlatformHere
  <2>2. Live(platforms[q]) \in PlatformVersions /\ v \in PlatformVersions
    BY <1>1, <2>1, EditsAreNew
  <2>3. v # Absent /\ v.ns = ns /\ v.uid = Live(platforms[q]).uid
    BY <2>2, VersionsAreSpecs DEF PlatformVersions
  <2> HIDE DEF v
  <2>4. CASE q # p
    BY <1>7, <1>8, <2>1, <2>2, <2>4
  <2>5. CASE q = p
    <3>1. p \notin PendingKeys /\ Live(platforms'[p]) = v /\ ~Wakes(<<Live(platforms[p]), v>>)
      BY <1>7, <2>1, <2>2, <2>5
    <3>2. v.ns = Live(platforms[p]).ns
      BY <2>1, <2>3, <2>5, <3>1 DEF Wakes, PlatformHere
    <3>3. PlatformHere(p) /\ PlatformHere(p)'
      BY <2>1, <2>3, <2>5, <3>1 DEF PlatformHere
    <3> QED BY <2>1, <2>3, <2>5, <3>1, <3>2, <3>3, SameWantedBy
  <2> QED BY <2>4, <2>5
<1>12. ASSUME NEW q \in Platforms, NEW ns \in Namespaces, CreatePlatform(q, ns)
       PROVE  p \notin PendingKeys /\ (PlatformHere(p)' => SameWanted(p))
  <2> DEFINE v == [rv |-> spent.edits + 1, uid |-> spent.edits + 1, ns |-> ns]
  <2>1. /\ Live(platforms[q]) = Absent /\ UNCHANGED tenants
        /\ platforms' = [platforms EXCEPT ![q] = Write(@, v)]
    BY <1>12 DEF CreatePlatform, WritePlatform
  <2>2. v \in PlatformVersions /\ v # Absent
    BY <1>1, EditsAreNew, VersionsAreSpecs
  <2> HIDE DEF v
  <2>3. q # p
    BY <1>7, <2>1, <2>2 DEF Wakes
  <2> QED BY <1>7, <1>8, <2>1, <2>2, <2>3
<1>13. ASSUME NEW q \in Platforms, DeletePlatform(q)
       PROVE  p \notin PendingKeys /\ (PlatformHere(p)' => SameWanted(p))
  <2>1. UNCHANGED tenants /\ platforms' = [platforms EXCEPT ![q] = Write(@, Absent)]
    BY <1>13 DEF DeletePlatform, WritePlatform
  <2>2. q = p => ~PlatformHere(p)'
    BY <1>7, <2>1 DEF PlatformHere
  <2> QED BY <1>7, <1>8, <2>1, <2>2
<1>14. ASSUME \/ \E d \in Domains : \E v \in DomainVals[d] \cup {Absent} : EditDomain(d, v)
              \/ \E q, r \in Platforms : EditService(q, r)
       PROVE  UNCHANGED <<platforms, tenants>>
  BY <1>14 DEF EditDomain, EditService, apiVars
<1> QED BY <1>4, <1>9, <1>10, <1>11, <1>12, <1>13, <1>14 DEF Edit

\* The objects of the API server that platform p depends on stay.
ApiStays ==
    /\ \A p \in Platforms : Live(platforms'[p]) = Live(platforms[p])
    /\ \A t \in Tenants : Live(tenants'[t]) = Live(tenants[t])

LEMMA ApiStaysWanted ==
    ASSUME ApiStays, NEW p \in Platforms
    PROVE  /\ PlatformHere(p)' = PlatformHere(p)
           /\ PlatformHere(p) => SameWanted(p)
<1>1. PlatformHere(p)' = PlatformHere(p)
  BY DEF ApiStays, PlatformHere
<1> QED BY <1>1, SameWantedBy DEF ApiStays

(* Informers, handlers, the garbage collector and the process write no      *)
(* platform and no tenant.                                                 *)
LEMMA NobodyWrites ==
    ASSUME ViewsOK, \/ Observe \/ Handle \/ Crash \/ Restart
                    \/ (\E m \in Maps : Collect(m)) \/ (\E p \in queue.delayed : Retry(p))
    PROVE  ApiStays
<1>1. CASE (\E m \in Maps : Collect(m)) \/ (\E p \in queue.delayed : Retry(p))
  BY <1>1 DEF Collect, Retry, apiVars, ApiStays
<1>2. CASE Observe \/ Handle \/ Crash \/ Restart
  <2>1. \A p \in Platforms : Live(platforms'[p]) = Live(platforms[p])
    BY <1>2, LastVersionStays
  <2> SUFFICES ASSUME NEW t \in Tenants PROVE Live(tenants'[t]) = Live(tenants[t])
    BY <2>1 DEF ApiStays
  <2>2. /\ tenants \in [Tenants -> ViewOf(TenantSpec \cup {Absent})]
        /\ tenants[t] \in ViewOf(TenantSpec \cup {Absent}) /\ WellFormed(tenants[t])
    BY DEF ViewsOK
  <2>3. /\ CanObserve(tenants[t]) => Live(Observed(tenants[t])) = Live(tenants[t])
        /\ CanNotify(tenants[t]) => Live(Notified(tenants[t])) = Live(tenants[t])
    BY <2>2, ObservedView, NotifiedView
  <2>4. CASE Observe
    BY <2>2, <2>3, <2>4 DEF Observe, ObservePlatform, ObserveTenant, ObserveDomain, ObserveMap, apiVars
  <2>5. CASE Handle
    BY <2>2, <2>3, <2>5 DEF Handle, HandlePlatform, HandleTenant, HandleDomain
  <2>6. CASE Crash \/ Restart
    <3>1. Live(tenants[t]) \in TenantSpec \cup {Absent}
      BY ReadTypes
    <3>2. /\ Live(Unwatched(Live(tenants[t]))) = Live(tenants[t])
          /\ Live(Listed(Live(tenants[t]))) = Live(tenants[t])
      BY <3>1, UnwatchedView, ListedView
    <3> QED BY <2>6, <3>2 DEF Crash, Restart
  <2> QED BY <1>2, <2>4, <2>5, <2>6
<1> QED BY <1>1, <1>2

(* An event that is handled leaves its platforms on the queue: nothing that *)
(* is pending is forgotten.                                                *)
LEMMA NothingForgotten ==
    ASSUME TypeOK, \/ Observe \/ Handle
                   \/ (\E m \in Maps : Collect(m)) \/ (\E p \in queue.delayed : Retry(p))
    PROVE  UNCHANGED <<up, job>> /\ PendingKeys \subseteq PendingKeys'
<1>1. /\ ViewsOK /\ queue \in QueueOver(Platforms)
      /\ platforms \in [Platforms -> ViewOf(PlatformVersions \cup {Absent})]
      /\ tenants \in [Tenants -> ViewOf(TenantSpec \cup {Absent})]
      /\ \A p \in Platforms : WellFormed(platforms[p])
      /\ \A t \in Tenants : WellFormed(tenants[t])
  BY DEF TypeOK, ControlOK, ViewsOK
<1>2. UNCHANGED <<up, job>>
  BY DEF Observe, ObservePlatform, ObserveTenant, ObserveDomain, ObserveMap, Handle,
         HandlePlatform, HandleTenant, HandleDomain, Collect, Retry
<1>3. PendingIs /\ PendingIs'
  BY PendingIsThis, PTL
<1>4. ASSUME NEW k, k \in queue.dirty \cup queue.delayed
      PROVE  k \in queue'.dirty \cup queue'.delayed
  <2>1. \/ UNCHANGED queue \/ (\E keys : queue' = AddAll(queue, keys))
        \/ (\E p : queue' = BackoffOver(queue, p))
    BY DEF Observe, ObservePlatform, ObserveTenant, ObserveDomain, ObserveMap, Handle,
       HandlePlatform, HandleTenant, HandleDomain, Collect, Retry
  <2> QED BY <1>1, <1>4, <2>1 DEF AddAll, BackoffOver, QueueOver
<1>5. ASSUME NEW p \in Platforms, NEW c \in Events(platforms[p]), Wakes(c)
      PROVE  c \in Events(platforms'[p]) \/ p \in queue'.dirty
  <2>1. /\ Events(Observed(platforms[p])) = Events(platforms[p])
        /\ CanNotify(platforms[p]) =>
             Events(platforms[p]) = {<<OldVersion(platforms[p]), NewVersion(platforms[p])>>}
                                        \cup Events(Notified(platforms[p]))
    BY <1>1, ChangesOfViews
  <2>2. ASSUME HandlePlatform(p) PROVE c \in Events(platforms'[p]) \/ p \in queue'.dirty
    <3>1. /\ CanNotify(platforms[p]) /\ platforms'[p] = Notified(platforms[p])
          /\ queue' = AddAll(queue, OnPlatform(p, OldVersion(platforms[p]), NewVersion(platforms[p])))
      BY <1>1, <2>2 DEF HandlePlatform
    <3>2. CASE c = <<OldVersion(platforms[p]), NewVersion(platforms[p])>>
      <4>1. p \in OnPlatform(p, OldVersion(platforms[p]), NewVersion(platforms[p]))
        BY <1>5, <3>2 DEF Wakes, OnPlatform
      <4> QED BY <1>1, <3>1, <4>1 DEF AddAll, QueueOver
    <3> QED BY <2>1, <3>1, <3>2
  <2>3. ASSUME NEW q \in Platforms, HandlePlatform(q), q # p PROVE platforms'[p] = platforms[p]
    BY <2>3 DEF HandlePlatform
  <2>4. ASSUME NEW q \in Platforms, ObservePlatform(q)
        PROVE  platforms'[p] \in {platforms[p], Observed(platforms[p])}
    BY <1>1, <2>4 DEF ObservePlatform
  <2>5. ASSUME \/ \E t \in Tenants : ObserveTenant(t) \/ HandleTenant(t)
               \/ \E d \in Domains : ObserveDomain(d) \/ HandleDomain(d)
               \/ \E m \in Maps : ObserveMap(m) \/ Collect(m)
               \/ \E k \in queue.delayed : Retry(k)
        PROVE  UNCHANGED platforms
    BY <2>5 DEF ObserveTenant, HandleTenant, ObserveDomain, HandleDomain, ObserveMap, Collect,
                Retry, apiVars
  <2> QED BY <2>1, <2>2, <2>3, <2>4, <2>5 DEF Observe, Handle
<1>6. ASSUME NEW t \in Tenants, NEW c \in Events(tenants[t]), NEW k, k \in OnReference(c[1], c[2])
      PROVE  c \in Events(tenants'[t]) \/ k \in queue'.dirty
  <2>1. /\ Events(Observed(tenants[t])) = Events(tenants[t])
        /\ CanNotify(tenants[t]) =>
             Events(tenants[t]) = {<<OldVersion(tenants[t]), NewVersion(tenants[t])>>}
                                      \cup Events(Notified(tenants[t]))
    BY <1>1, ChangesOfViews
  <2>2. ASSUME HandleTenant(t) PROVE c \in Events(tenants'[t]) \/ k \in queue'.dirty
    <3>1. /\ CanNotify(tenants[t]) /\ tenants'[t] = Notified(tenants[t])
          /\ queue' = AddAll(queue, OnReference(OldVersion(tenants[t]), NewVersion(tenants[t])))
      BY <1>1, <2>2 DEF HandleTenant
    <3>2. CASE c = <<OldVersion(tenants[t]), NewVersion(tenants[t])>>
      <4>1. k \in OnReference(OldVersion(tenants[t]), NewVersion(tenants[t]))
        BY <1>6, <3>2
      <4> QED BY <1>1, <3>1, <4>1 DEF AddAll, QueueOver
    <3> QED BY <2>1, <3>1, <3>2
  <2>3. ASSUME NEW s \in Tenants, HandleTenant(s), s # t PROVE tenants'[t] = tenants[t]
    BY <2>3 DEF HandleTenant
  <2>4. ASSUME NEW s \in Tenants, ObserveTenant(s)
        PROVE  tenants'[t] \in {tenants[t], Observed(tenants[t])}
    BY <1>1, <2>4 DEF ObserveTenant
  <2>5. ASSUME \/ \E p \in Platforms : ObservePlatform(p) \/ HandlePlatform(p)
               \/ \E d \in Domains : ObserveDomain(d) \/ HandleDomain(d)
               \/ \E m \in Maps : ObserveMap(m) \/ Collect(m)
               \/ \E p \in queue.delayed : Retry(p)
        PROVE  UNCHANGED tenants
    BY <2>5 DEF ObservePlatform, HandlePlatform, ObserveDomain, HandleDomain, ObserveMap, Collect,
                Retry, apiVars
  <2> QED BY <2>1, <2>2, <2>3, <2>4, <2>5 DEF Observe, Handle
<1>7. CASE up
  <2> SUFFICES ASSUME NEW k \in PendingKeys PROVE k \in PendingKeys'
    BY <1>2
  <2>1. up'
    BY <1>2, <1>7
  <2>2. CASE k \in queue.dirty \cup queue.delayed
    BY <1>3, <1>4, <2>1, <2>2 DEF PendingIs
  <2>3. CASE k \in Platforms /\ \E c \in Events(platforms[k]) : Wakes(c)
    BY <1>3, <1>5, <2>1, <2>3 DEF PendingIs
  <2>4. CASE \E t \in Tenants : \E c \in Events(tenants[t]) : k \in OnReference(c[1], c[2])
    BY <1>3, <1>6, <2>1, <2>4 DEF PendingIs
  <2> QED BY <1>3, <1>7, <2>2, <2>3, <2>4 DEF PendingIs
<1> QED BY <1>2, <1>3, <1>7 DEF PendingIs

(* What is pending follows the queue while the API server's objects stay.  *)
LEMMA PendingByQueue ==
    ASSUME up, UNCHANGED <<apiVars, up>>, NEW k,
           k \in (queue.dirty \cup queue.delayed)' \ (queue.dirty \cup queue.delayed)
             => k \in PendingKeys'
    PROVE  /\ k \in PendingKeys' \ PendingKeys =>
                k \in (queue.dirty \cup queue.delayed)' \ (queue.dirty \cup queue.delayed)
           /\ k \in PendingKeys \ PendingKeys' =>
                k \in (queue.dirty \cup queue.delayed) \ (queue.dirty \cup queue.delayed)'
<1>1. PendingIs /\ PendingIs'
  BY PendingIsThis, PTL
<1>2. UNCHANGED <<platforms, tenants>>
  BY DEF apiVars
<1> DEFINE E == \/ k \in Platforms /\ \E c \in Events(platforms[k]) : Wakes(c)
                \/ \E t \in Tenants : \E c \in Events(tenants[t]) : k \in OnReference(c[1], c[2])
<1>3. k \in PendingKeys <=> k \in queue.dirty \cup queue.delayed \/ E
  BY <1>1 DEF PendingIs
<1>4. k \in PendingKeys' <=> k \in (queue.dirty \cup queue.delayed)' \/ E
  BY <1>1, <1>2 DEF PendingIs
<1> HIDE DEF E
<1> QED BY <1>3, <1>4

(* A worker that goes on with its key changes nothing of it, ...           *)
LEMMA ContinuesPending ==
    ASSUME up, UNCHANGED <<apiVars, up>>, NEW w \in Workers, Continues(w)
    PROVE  PendingKeys' = PendingKeys
<1>1. ASSUME NEW k PROVE k \in PendingKeys' <=> k \in PendingKeys
  BY PendingByQueue DEF Continues
<1> QED BY <1>1

(* ... one that takes a key takes it off, ...                              *)
LEMMA TakePending ==
    ASSUME TypeOK, NEW w \in Workers, NEW p \in Ready(queue), Take(w, p)
    PROVE  /\ p \in PendingKeys /\ PendingKeys \ {p} \subseteq PendingKeys'
           /\ PendingKeys' \subseteq PendingKeys
<1>1. queue \in QueueOver(Platforms) /\ up /\ UNCHANGED <<apiVars, up>>
  BY DEF TypeOK, ControlOK, Take
<1>2. /\ p \in queue.dirty /\ queue'.delayed = queue.delayed
      /\ queue'.dirty = queue.dirty \ {p}
  BY <1>1 DEF Take, Get, Ready, QueueOver
<1>3. p \in PendingKeys
  BY <1>1, <1>2, PendingIsThis DEF PendingIs
<1>4. ASSUME NEW k
      PROVE  /\ k \in PendingKeys' => k \in PendingKeys
             /\ k \in PendingKeys /\ k # p => k \in PendingKeys'
  BY <1>1, <1>2, PendingByQueue
<1> QED BY <1>3, <1>4

(* ... and one that gives it back may put it on again.                     *)
LEMMA FinishPending ==
    ASSUME TypeOK, up, NEW w \in Workers, Finish(w)
    PROVE  /\ PendingKeys' \in {PendingKeys, PendingKeys \cup {job[w].key}}
           /\ job[w].pc = "retry" => job[w].key \in PendingKeys'
<1>1. queue \in QueueOver(Platforms) /\ UNCHANGED <<apiVars, up>>
  BY DEF TypeOK, ControlOK, Finish
<1>2. /\ queue'.dirty = queue.dirty
      /\ queue'.delayed = IF job[w].pc = "retry" THEN queue.delayed \cup {job[w].key}
                                                  ELSE queue.delayed
  BY <1>1 DEF Finish, Done, AddRateLimited, QueueOver
<1>3. PendingIs'
  BY PendingIsThis, PTL
<1>4. job[w].pc = "retry" => job[w].key \in PendingKeys'
  BY <1>1, <1>2, <1>3 DEF PendingIs
<1>5. ASSUME NEW k
      PROVE  /\ k \in PendingKeys => k \in PendingKeys'
             /\ k \in PendingKeys' /\ k # job[w].key => k \in PendingKeys
  <2>1. k \in (queue.dirty \cup queue.delayed)' \ (queue.dirty \cup queue.delayed)
          => k = job[w].key /\ job[w].pc = "retry"
    BY <1>2
  <2>2. k \in queue.dirty \cup queue.delayed => k \in (queue.dirty \cup queue.delayed)'
    BY <1>2
  <2> QED BY <1>1, <1>4, <2>1, <2>2, PendingByQueue
<1> QED BY <1>4, <1>5

(* The initial list wakes every platform there is.                         *)
LEMMA ListedWakes ==
    ASSUME NEW v \in PlatformVersions \cup {Absent}, Live(Listed(v)) # Absent
    PROVE  \E c \in Events(Listed(v)) : Wakes(c)
<1>1. Live(Listed(v)) = v
  BY ListedView
<1>2. Unwatched(Absent) \in ViewOf(PlatformVersions \cup {Absent}) /\ WellFormed(Unwatched(Absent))
  BY UnwatchedView
<1>3. <<Absent, v>> \in Events(Listed(v))
  BY <1>1, <1>2, ChangesOfViews
<1>4. Wakes(<<Absent, v>>)
  BY <1>1 DEF Wakes
<1> QED BY <1>3, <1>4

LEMMA InitPending ==
    ASSUME Init, NEW p \in Platforms, PlatformHere(p)
    PROVE  p \in PendingKeys
<1>1. PICK api \in InitialApi : platforms = [q \in Platforms |-> Listed(FirstVersion(api.platforms[q]))]
  BY DEF Init
<1>2. FirstVersion(api.platforms[p]) \in PlatformVersions \cup {Absent}
  BY InitialAssumption, BoundsAssumption DEF FirstVersion, PlatformVersions
<1>3. up /\ \E c \in Events(platforms[p]) : Wakes(c)
  BY <1>1, <1>2, ListedWakes DEF PlatformHere, Init
<1> QED BY <1>3, PendingIsThis DEF PendingIs

LEMMA RestartPending ==
    ASSUME TypeOK, Restart, NEW p \in Platforms, PlatformHere(p)'
    PROVE  p \in PendingKeys'
<1>1. PendingIs'
  BY PendingIsThis, PTL
<1>2. /\ up' /\ platforms'[p] = Listed(Live(platforms[p]))
      /\ Live(platforms[p]) \in PlatformVersions \cup {Absent}
  BY ReadTypes DEF Restart, TypeOK
<1>3. \E c \in Events(platforms'[p]) : Wakes(c)
  BY <1>2, ListedWakes DEF PlatformHere
<1> QED BY <1>1, <1>2, <1>3 DEF PendingIs
-----------------------------------------------------------------------------
(* The worker at the ConfigMaps *)

MapsKeepUp == ~ConfigMapsLag /\ \A m \in Maps : UpToDate(maps[m])

LEMMA WriteKeepsUp ==
    ASSUME ~ConfigMapsLag, ViewsOK, NEW m \in Maps, NEW v, WriteMap(m, v)
    PROVE  /\ Live(maps'[m]) = v /\ UpToDate(maps'[m])
           /\ \A n \in Maps \ {m} : maps'[n] = maps[n]
BY DEF ViewsOK, WriteMap, Unwatched, Live, UpToDate

(* What a worker between its two status writes does to its job, ...        *)

AtMap == {"look", "create", "delete", "recreate"}

Lists(w) ==
    /\ job[w].pc = "list" /\ job'[w].pc = "look" /\ UNCHANGED maps
    /\ job'[w].now = PlatformWrite(job[w].key, job[w].platform, CachedTenants)
    /\ job'[w].left = DomainWrites(job[w].key, CachedTenants, CachedDomains)

\* ... while it is at the same ConfigMap, ...
Holds(w) ==
    /\ job[w].pc \in AtMap /\ job'[w].pc \in {"create", "delete", "recreate", "fail"}
    /\ job'[w].now = job[w].now /\ job'[w].left = job[w].left

\* ... and when it goes on to the next.
Passes(w) ==
    /\ job[w].pc \in AtMap /\ job'[w].left \subseteq job[w].left
    /\ job'[w].pc = "succeed" \/ (job'[w].pc = "look" /\ job'[w].now \in job[w].left)
    /\ LET j == job[w]
           map == Live(maps[j.now.map])
       IN  \/ ~j.now.strict
           \/ /\ UNCHANGED maps /\ map # Absent
              /\ Controlled(map, j.key, j.platform) => SameData(map, j.now)
           \/ Live(maps'[j.now.map]) = Desired(j)

LEMMA AdvanceEffect ==
    ASSUME ControlOK, NEW w \in Workers, Advance(w)
    PROVE  /\ job'[w].left \subseteq job[w].left
           /\ job'[w].pc = "succeed" \/ (job'[w].pc = "look" /\ job'[w].now \in job[w].left)
<1>1. job[w] \in Jobs /\ w \in DOMAIN job
  BY DEF ControlOK
<1>2. CASE job' = [job EXCEPT ![w].pc = "succeed", ![w].now = NoWrite]
  BY <1>1, <1>2 DEF Jobs
<1>3. ASSUME NEW d \in job[w].left,
             job' = [job EXCEPT ![w].pc = "look", ![w].now = d, ![w].left = @ \ {d}]
      PROVE  /\ job'[w].left \subseteq job[w].left
             /\ job'[w].pc = "look" /\ job'[w].now \in job[w].left
  BY <1>1, <1>3 DEF Jobs
<1> QED BY <1>2, <1>3 DEF Advance

LEMMA PcEffect ==
    ASSUME ControlOK, NEW w \in Workers, NEW pc, job' = [job EXCEPT ![w].pc = pc]
    PROVE  job'[w].pc = pc /\ job'[w].now = job[w].now /\ job'[w].left = job[w].left
BY DEF ControlOK, Jobs

LEMMA MapWork ==
    ASSUME TypeOK, MapsKeepUp, NEW w \in Workers, MapSteps(w)
    PROVE  Lists(w) \/ Holds(w) \/ Passes(w)
<1>1. ViewsOK /\ ControlOK /\ job[w] \in Jobs /\ w \in DOMAIN job
  BY DEF TypeOK, ControlOK
<1>2. ASSUME job[w].pc \in AtMap
      PROVE  /\ job[w].now \in Writes /\ job[w].now.map \in Maps
             /\ Cached(maps[job[w].now.map]) = Live(maps[job[w].now.map])
  <2>1. job[w].now \in Writes /\ job[w].now.map \in Maps
    BY <1>1, <1>2 DEF AtMap, ControlOK, Jobs, Writes
  <2> QED BY <1>1, <2>1 DEF MapsKeepUp, UpToDate, Cached, Live, ViewsOK, WellFormed
<1>3. CASE List(w)
  <2> DEFINE now  == PlatformWrite(job[w].key, job[w].platform, CachedTenants)
             left == DomainWrites(job[w].key, CachedTenants, CachedDomains)
  <2>1. job[w].pc = "list" /\ UNCHANGED maps
        /\ job' = [job EXCEPT ![w].pc = "look", ![w].now = now, ![w].left = left]
    BY <1>3 DEF List
  <2> HIDE DEF now, left
  <2>2. job'[w].pc = "look" /\ job'[w].now = now /\ job'[w].left = left
    BY <1>1, <2>1 DEF Jobs
  <2> QED BY <2>1, <2>2 DEF Lists, now, left
<1>4. CASE Look(w)
  <2>1. job[w].pc \in AtMap /\ UNCHANGED maps
    BY <1>4 DEF Look, AtMap
  <2>2. CASE \E pc \in {"create", "delete"} : job' = [job EXCEPT ![w].pc = pc]
    BY <1>1, <2>1, <2>2, PcEffect DEF Holds
  <2>3. CASE /\ Cached(maps[job[w].now.map]) # Absent
             /\ Controlled(Cached(maps[job[w].now.map]), job[w].key, job[w].platform) =>
                   SameData(Cached(maps[job[w].now.map]), job[w].now)
             /\ Advance(w)
    BY <1>1, <1>2, <2>1, <2>3, AdvanceEffect DEF Passes
  <2> QED BY <1>4, <2>2, <2>3 DEF Look
<1>5. ASSUME job[w].pc \in {"create", "delete", "recreate"}, CallFailed(w)
      PROVE  Holds(w) \/ Passes(w)
  <2>1. job[w].pc \in AtMap
    BY <1>5 DEF AtMap
  <2>2. CASE job' = [job EXCEPT ![w].pc = "fail"]
    BY <1>1, <2>1, <2>2, PcEffect DEF Holds
  <2>3. CASE ~job[w].now.strict /\ Advance(w)
    BY <1>1, <2>1, <2>3, AdvanceEffect DEF Passes
  <2> QED BY <1>5, <2>2, <2>3 DEF CallFailed
<1>6. CASE CallApi(w)
  <2>1. job[w].pc \in {"create", "delete", "recreate"} /\ job[w].pc \in AtMap
    BY <1>6 DEF CallApi, AtMap
  <2>2. CASE \E pc \in {"recreate", "delete"} : job' = [job EXCEPT ![w].pc = pc]
    BY <1>1, <2>1, <2>2, PcEffect DEF Holds
  <2>3. CASE CallPossible(job[w]) /\ CallDone(job[w]) /\ job[w].pc # "delete" /\ Advance(w)
    <3>1. Live(maps'[job[w].now.map]) = Desired(job[w])
      BY <1>1, <1>2, <2>1, <2>3, WriteKeepsUp DEF CallDone, MapsKeepUp
    <3> QED BY <1>1, <2>1, <2>3, <3>1, AdvanceEffect DEF Passes
  <2> QED BY <1>5, <1>6, <2>1, <2>2, <2>3 DEF CallApi
<1>7. CASE CallFails(w)
  BY <1>5, <1>7 DEF CallFails
<1> QED BY <1>3, <1>4, <1>6, <1>7 DEF MapSteps

(* ... and to the ConfigMaps: it writes none but the one it is at.          *)
LEMMA MapWritten ==
    ASSUME TypeOK, MapsKeepUp, NEW w \in Workers, MapSteps(w), NEW m \in Maps, maps'[m] # maps[m]
    PROVE  /\ job[w].pc \in AtMap /\ m = job[w].now.map
           /\ UpToDate(maps'[m]) /\ Live(maps'[m]) \in {Absent, Desired(job[w])}
<1>1. CallDone(job[w]) /\ job[w].pc \in {"create", "delete", "recreate"}
  BY DEF MapSteps, List, Look, CallApi, CallFails
<1>2. job[w].pc \in AtMap /\ job[w].now.map \in Maps /\ ViewsOK
  BY <1>1 DEF AtMap, TypeOK, ControlOK, Jobs, Writes
<1>3. PICK v \in {Absent, Desired(job[w])} : WriteMap(job[w].now.map, v)
  BY <1>1 DEF CallDone
<1> QED BY <1>2, <1>3, WriteKeepsUp DEF MapsKeepUp

(* Everybody else leaves the ConfigMaps alone; the garbage collector deletes*)
(* orphans.                                                                *)
LEMMA OthersMaps ==
    ASSUME TypeOK, MapsKeepUp, Elsewhere
    PROVE  /\ \A m \in Maps : UpToDate(maps'[m])
           /\ \A m \in Maps : \/ Live(maps'[m]) = Live(maps[m])
                              \/ Live(maps[m]) # Absent /\ Orphan(Live(maps[m])) /\ Live(maps'[m]) = Absent
<1>1. ViewsOK
  BY DEF TypeOK
<1>2. \A m \in Maps : ~ObserveMap(m)
  <2> SUFFICES ASSUME NEW m \in Maps, ObserveMap(m) PROVE FALSE
    OBVIOUS
  <2>1. maps[m].cached = 1 /\ Len(maps[m].log) = 1
    BY <1>1 DEF MapsKeepUp, UpToDate, ViewsOK
  <2>2. CanObserve(maps[m])
    BY DEF ObserveMap
  <2> QED BY <2>1, <2>2 DEF CanObserve
<1>3. CASE UNCHANGED maps
  BY <1>3 DEF MapsKeepUp
<1>4. CASE Crash
  BY <1>1, <1>4 DEF Crash, Unwatched, Live, UpToDate
<1>5. ASSUME NEW m \in Maps, Collect(m)
      PROVE  /\ Live(maps'[m]) = Absent /\ Orphan(Live(maps[m])) /\ Live(maps[m]) # Absent
             /\ UpToDate(maps'[m])
             /\ \A n \in Maps \ {m} : maps'[n] = maps[n]
  <2>1. WriteMap(m, Absent) /\ Orphan(Live(maps[m])) /\ Live(maps[m]) # Absent
    BY <1>5 DEF Collect
  <2> QED BY <1>1, <2>1, WriteKeepsUp DEF MapsKeepUp
<1>6. CASE Edit
  BY <1>3, <1>6 DEF Edit, EditTenant, EditDomain, EditService, EditPlatform, CreatePlatform,
     DeletePlatform, WritePlatform
<1>7. CASE Observe
  BY <1>2, <1>3, <1>7 DEF Observe, ObservePlatform, ObserveTenant, ObserveDomain
<1>8. CASE Handle \/ Restart \/ \E p \in queue.delayed : Retry(p)
  BY <1>3, <1>8 DEF Handle, HandlePlatform, HandleTenant, HandleDomain, Restart, Retry
<1>9. CASE UNCHANGED vars \/ \E w \in Workers : Around(w)
  BY <1>3, <1>9 DEF vars, Around, Finish, Take, ResetStatus, ResetFails, UpdateStatus, UpdateFails
<1>10. CASE \E m \in Maps : Collect(m)
  BY <1>5, <1>10 DEF MapsKeepUp
<1> QED BY <1>4, <1>6, <1>7, <1>8, <1>9, <1>10 DEF Elsewhere, Others
-----------------------------------------------------------------------------
(* The lives of platforms, and whose the ConfigMaps are *)

(* Taking a key and giving it back starts an empty job.                    *)
LEMMA QueueJob ==
    ASSUME ControlOK, NEW v \in Workers, NEW w \in Workers,
           Finish(w) \/ \E p \in Ready(queue) : Take(w, p)
    PROVE  job'[v] = job[v] \/ (job'[v].left = {} /\ job'[v].pc \in {"idle", "reset"})
<1>1. ASSUME NEW j, job' = [job EXCEPT ![w] = j], j.left = {}, j.pc \in {"idle", "reset"}
      PROVE  job'[v] = job[v] \/ (job'[v].left = {} /\ job'[v].pc \in {"idle", "reset"})
  BY <1>1 DEF ControlOK
<1>2. CASE Finish(w)
  <2>1. job' = [job EXCEPT ![w] = Idle] /\ Idle.left = {} /\ Idle.pc = "idle"
    BY <1>2 DEF Finish, Idle
  <2> QED BY <1>1, <2>1
<1>3. ASSUME NEW p, Take(w, p)
      PROVE  job'[v] = job[v] \/ (job'[v].left = {} /\ job'[v].pc \in {"idle", "reset"})
  <2> DEFINE j == [Idle EXCEPT !.pc = "reset", !.key = p]
  <2>1. job' = [job EXCEPT ![w] = j]
    BY <1>3 DEF Take
  <2>2. j.left = {} /\ j.pc = "reset"
    BY DEF Idle
  <2> HIDE DEF j
  <2> QED BY <1>1, <2>1, <2>2
<1> QED BY <1>2, <1>3

(* Nobody but a worker between its two status writes goes to a ConfigMap.  *)
LEMMA ElsewhereJob ==
    ASSUME ControlOK, Elsewhere, NEW v \in Workers
    PROVE  \/ job'[v] = job[v]
           \/ /\ job'[v].pc \notin AtMap /\ job'[v].left \subseteq job[v].left
              /\ (job'[v].pc \in Unready => job[v].pc = "reset" /\ job'[v].pc = "list")
<1>1. job \in [Workers -> Jobs] /\ job[v] \in Jobs
  BY DEF ControlOK
<1>2. CASE Others
  <2>1. job'[v] = job[v] \/ job'[v] = Idle
    BY <1>2 DEF Others, Edit, EditTenant, EditDomain, EditService, EditPlatform,
     CreatePlatform, DeletePlatform, WritePlatform, Observe, ObservePlatform, ObserveTenant,
     ObserveDomain, ObserveMap, Handle, HandlePlatform, HandleTenant, HandleDomain, Restart,
     Collect, Retry, Crash
  <2> QED BY <2>1 DEF Idle, AtMap, Unready
<1>3. CASE UNCHANGED vars
  BY <1>3 DEF vars
<1>4. ASSUME NEW w \in Workers, Finish(w) \/ \E p \in Ready(queue) : Take(w, p)
      PROVE  job'[v] = job[v] \/ (job'[v].left = {} /\ job'[v].pc \in {"idle", "reset"})
  BY <1>4, QueueJob
<1>5. ASSUME NEW w \in Workers, ResetStatus(w) \/ ResetFails(w) \/ UpdateStatus(w) \/ UpdateFails(w)
      PROVE  \/ job'[v] = job[v]
             \/ /\ job'[v].left = job[v].left
                /\ \/ job'[v].pc \in {"done", "retry"}
                   \/ job[v].pc = "reset" /\ job'[v].pc = "list"
  <2>1. CASE v # w
    BY <1>5, <2>1, StatusEffect DEF Resets, Ends, Continues
  <2>2. ASSUME NEW pc \in {"done", "retry"}, job' = [job EXCEPT ![w].pc = pc], v = w
        PROVE  job'[v].pc = pc /\ job'[v].left = job[v].left
    BY <1>1, <2>2 DEF Jobs
  <2>3. ASSUME NEW x, job' = [job EXCEPT ![w].pc = "list", ![w].platform = x], v = w
        PROVE  job'[v].pc = "list" /\ job'[v].left = job[v].left
    BY <1>1, <2>3 DEF Jobs
  <2>4. CASE v = w /\ ResetStatus(w)
    <3>1. /\ job[v].pc = "reset"
          /\ \/ \E pc \in {"done", "retry"} : job' = [job EXCEPT ![w].pc = pc]
             \/ \E x : job' = [job EXCEPT ![w].pc = "list", ![w].platform = x]
      BY <2>4 DEF ResetStatus
    <3> QED BY <2>2, <2>3, <2>4, <3>1
  <2>5. CASE v = w /\ (ResetFails(w) \/ UpdateStatus(w) \/ UpdateFails(w))
    <3>1. \E pc \in {"done", "retry"} : job' = [job EXCEPT ![w].pc = pc]
      BY <1>1, <2>5 DEF ResetFails, UpdateStatus, UpdateFails, AfterUpdate
    <3> QED BY <2>2, <2>5, <3>1
  <2> QED BY <1>5, <2>1, <2>4, <2>5
<1> QED BY <1>2, <1>3, <1>4, <1>5 DEF Elsewhere, Around, AtMap, Unready

(* A worker has the platform it read when it withdrew the condition: the    *)
(* current one.                                                            *)
LEMMA JobPlatform ==
    ASSUME TypeOK, [Next]_vars, NEW v \in Workers, job'[v].pc \in Unready
    PROVE  /\ Busy(v) /\ job'[v].key = job[v].key /\ job[v].key \in Platforms
           /\ \/ job[v].pc \in Unready /\ job'[v].platform = job[v].platform
              \/ /\ job'[v].platform = Live(platforms[job[v].key])
                 /\ UNCHANGED <<apiVars, maps, up>>
<1>1. ViewsOK /\ ControlOK /\ (Busy(v) => job[v].key \in Platforms)
  BY DEF TypeOK, ControlOK, Busy
<1>2. CASE job'[v] = job[v]
  BY <1>1, <1>2 DEF Busy, Unready
<1>3. ASSUME NEW w \in Workers, MapSteps(w)
      PROVE  job'[v] = job[v] \/ Stays(v)
  BY <1>1, <1>3, MapsEffect DEF MapSteps, Stays, Continues
<1>4. CASE Elsewhere /\ job'[v] # job[v]
  <2>1. job[v].pc = "reset" /\ job'[v].pc = "list"
    BY <1>1, <1>4, ElsewhereJob
  <2>2. ~Others
    <3>1. Others => job'[v] = job[v] \/ job'[v] = Idle
      BY DEF Others, Edit, EditTenant, EditDomain, EditService, EditPlatform,
       CreatePlatform, DeletePlatform, WritePlatform, Observe, ObservePlatform, ObserveTenant,
       ObserveDomain, ObserveMap, Handle, HandlePlatform, HandleTenant, HandleDomain, Restart,
       Collect, Retry, Crash
    <3> QED BY <1>4, <2>1, <3>1 DEF Idle
  <2>3. PICK w \in Workers : Around(w)
    BY <1>4, <2>2 DEF Elsewhere, vars
  <2>4. Finish(w) \/ (\E p \in Ready(queue) : Take(w, p)) => job'[v] = job[v] \/ job'[v].pc \in {"idle", "reset"}
    BY <1>1, QueueJob
  <2>5. Resets(w) \/ Ends(w)
    BY <1>1, <1>4, <2>1, <2>3, <2>4, StatusEffect DEF Around
  <2>6. v = w /\ Resets(v)
    BY <1>4, <2>1, <2>5 DEF Resets, Ends, Continues
  <2>7. UNCHANGED <<apiVars, maps, up>>
    BY <1>4, <2>1, <2>3, <2>4 DEF Around, ResetStatus, ResetFails, UpdateStatus, UpdateFails
  <2>8. Cached(platforms[job[v].key]) = Live(platforms[job[v].key])
    BY <1>1, <2>6, PresentViews DEF Resets, Continues, StoreIsCurrent, ViewsOK
  <2> QED BY <1>1, <2>6, <2>7, <2>8 DEF Resets, Continues
<1> QED BY <1>1, <1>2, <1>3, <1>4, StepsAreThese DEF Stays, Continues

(* A platform keeps its uid as long as it is there.                        *)
LEMMA UidStays ==
    ASSUME TypeOK, VersionsArePast, [Next]_vars, NEW p \in Platforms, PlatformHere(p)'
    PROVE  \/ PlatformHere(p) /\ Live(platforms'[p]).uid = Live(platforms[p]).uid
           \/ \E ns \in Namespaces : CreatePlatform(p, ns)
<1>1. ViewsOK /\ ControlOK /\ StatusOK
  BY DEF TypeOK
<1>2. CASE Live(platforms'[p]) = Live(platforms[p])
  BY <1>2 DEF PlatformHere
<1>3. CASE Observe \/ Handle \/ Crash \/ Restart
  BY <1>1, <1>2, <1>3, LastVersionStays
<1>4. ASSUME UNCHANGED platforms PROVE Live(platforms'[p]) = Live(platforms[p])
  BY <1>4
<1>5. CASE Edit
  <2>1. ASSUME NEW q \in Platforms, q # p, NEW v, WritePlatform(q, v)
        PROVE  Live(platforms'[p]) = Live(platforms[p])
    BY <2>1 DEF WritePlatform
  <2>2. ASSUME NEW v \in PlatformVersions \cup {Absent}, v # Live(platforms[p]),
               platforms' = [platforms EXCEPT ![p] = Write(@, v)]
        PROVE  Live(platforms'[p]) = v
    BY <1>1, <2>2, WriteView DEF ViewsOK
  <2>3. ASSUME NEW ns \in Namespaces, EditPlatform(p, ns)
        PROVE  PlatformHere(p) /\ Live(platforms'[p]).uid = Live(platforms[p]).uid
    <3> DEFINE v == [Live(platforms[p]) EXCEPT !.rv = spent.edits + 1, !.ns = ns]
    <3>1. PlatformHere(p) /\ platforms' = [platforms EXCEPT ![p] = Write(@, v)] /\ spent.edits < MaxEdits
      BY <2>3 DEF EditPlatform, WritePlatform, PlatformHere
    <3>2. Live(platforms[p]) \in PlatformVersions /\ v \in PlatformVersions
      BY <1>1, <3>1, EditsAreNew
    <3>3. v.rv = spent.edits + 1 /\ v.uid = Live(platforms[p]).uid
      BY <3>2 DEF PlatformVersions
    <3>4. v # Live(platforms[p])
      BY <1>1, <3>1, <3>3, EditsAreNew
    <3> HIDE DEF v
    <3> QED BY <2>2, <3>1, <3>2, <3>3, <3>4
  <2>4. ASSUME DeletePlatform(p) PROVE FALSE
    BY <2>2, <2>4 DEF DeletePlatform, WritePlatform, PlatformHere
  <2>5. ASSUME \/ \E t \in Tenants : \E v \in TenantVals[t] \cup {Absent} : EditTenant(t, v)
               \/ \E d \in Domains : \E v \in DomainVals[d] \cup {Absent} : EditDomain(d, v)
               \/ \E q, r \in Platforms : EditService(q, r)
        PROVE  UNCHANGED platforms
    BY <2>5 DEF EditTenant, EditDomain, EditService, apiVars
  <2>6. ASSUME NEW q \in Platforms, q # p, NEW ns \in Namespaces,
               EditPlatform(q, ns) \/ CreatePlatform(q, ns) \/ DeletePlatform(q)
        PROVE  Live(platforms'[p]) = Live(platforms[p])
    <3>1. \E v : WritePlatform(q, v)
      BY <2>6 DEF EditPlatform, CreatePlatform, DeletePlatform
    <3> QED BY <2>1, <2>6, <3>1
  <2>7. ASSUME NEW q \in Platforms, q # p, DeletePlatform(q)
        PROVE  Live(platforms'[p]) = Live(platforms[p])
    BY <2>1, <2>7 DEF DeletePlatform
  <2> QED BY <1>2, <1>4, <1>5, <2>3, <2>4, <2>5, <2>6, <2>7 DEF Edit
<1>6. CASE (\E m \in Maps : Collect(m)) \/ (\E q \in queue.delayed : Retry(q))
  BY <1>2, <1>4, <1>6 DEF Collect, Retry, apiVars
<1>7. ASSUME NEW w \in Workers, Work(w) \/ Fail(w) \/ \E q \in Ready(queue) : Take(w, q)
      PROVE  UNCHANGED platforms
  BY <1>1, <1>7, WorkerViews DEF apiVars
<1>8. CASE UNCHANGED vars
  BY <1>2, <1>4, <1>8 DEF vars, apiVars
<1> QED BY <1>2, <1>3, <1>4, <1>5, <1>6, <1>7, <1>8 DEF Next

\* The ConfigMaps of platforms and those of domains have names of their own, are
\* seen at once, and a platform's are gone before another has its name.
MapsAreApart == ~ConfigMapsLag /\ ~NamesReusedAtOnce /\ Platforms \cap DomainNames = {}

WritesAreApart ==
    \A w \in Workers :
        LET j == job[w]
        IN  /\ j.pc \in AtMap => IF j.now.strict THEN j.now.map = <<j.platform.ns, j.key>>
                                                 ELSE j.now.map \in Domains
            /\ \A d \in j.left : ~d.strict /\ d.map \in Domains

\* A ConfigMap with the name of a platform is of a platform of that name ...
OwnersInv ==
    /\ \A m \in Maps : UpToDate(maps[m])
    /\ \A m \in Maps : m[2] \in Platforms /\ Live(maps[m]) # Absent =>
            Live(maps[m]).owner[1] = m[2]

\* ... and, while there is one, of this one; so is what a worker has read.
UidsInv ==
    \A p \in Platforms : PlatformHere(p) =>
        /\ \A w \in Workers : job[w].pc \in Unready /\ job[w].key = p =>
                job[w].platform.uid = Live(platforms[p]).uid
        /\ \A m \in Maps : Live(maps[m]) # Absent /\ Live(maps[m]).owner[1] = p =>
                Live(maps[m]).owner[2] = Live(platforms[p]).uid

ApartInv == WritesAreApart /\ OwnersInv /\ UidsInv

LEMMA WritesStep ==
    ASSUME MapsAreApart, ConditionInv, ApartInv, [Next]_vars
    PROVE  WritesAreApart'
<1>1. TypeOK /\ ViewsOK /\ ControlOK /\ MapsKeepUp /\ WritesAreApart
  BY DEF ConditionInv, TypeOK, ApartInv, OwnersInv, MapsKeepUp, MapsAreApart
<1> SUFFICES ASSUME NEW v \in Workers
             PROVE  LET j == job'[v]
                    IN  /\ j.pc \in AtMap => IF j.now.strict THEN j.now.map = <<j.platform.ns, j.key>>
                                                             ELSE j.now.map \in Domains
                        /\ \A d \in j.left : ~d.strict /\ d.map \in Domains
  BY DEF WritesAreApart
<1>2. CASE job'[v] = job[v]
  BY <1>1, <1>2 DEF WritesAreApart
<1>3. CASE Elsewhere
  BY <1>1, <1>2, <1>3, ElsewhereJob DEF WritesAreApart
<1>4. ASSUME NEW w \in Workers, MapSteps(w), v # w
      PROVE  job'[v] = job[v]
  BY <1>1, <1>4, MapsEffect DEF MapSteps, Stays, Continues
<1>5. CASE MapSteps(v)
  <2>1. job'[v].platform = job[v].platform /\ job'[v].key = job[v].key
    BY <1>1, <1>5, MapsEffect DEF MapSteps, Stays, Continues
  <2>2. CASE Lists(v)
    <3>1. job'[v].now.strict /\ job'[v].now.map = <<job[v].platform.ns, job[v].key>>
      BY <2>2 DEF Lists, PlatformWrite
    <3>2. \A d \in job'[v].left : ~d.strict /\ d.map \in Domains
      BY <2>2 DEF Lists, DomainWrites, DomainWrite, Of, CachedDomains
    <3> QED BY <2>1, <3>1, <3>2
  <2>3. CASE Holds(v)
    BY <1>1, <2>1, <2>3 DEF Holds, WritesAreApart
  <2>4. CASE Passes(v)
    BY <1>1, <2>4 DEF Passes, WritesAreApart, AtMap
  <2> QED BY <1>1, <1>5, <2>2, <2>3, <2>4, MapWork
<1> QED BY <1>2, <1>3, <1>4, <1>5, StepsAreThese

LEMMA OwnersStep ==
    ASSUME MapsAreApart, ConditionInv, ApartInv, [Next]_vars
    PROVE  OwnersInv'
<1>1. TypeOK /\ MapsKeepUp /\ WritesAreApart /\ OwnersInv
  BY DEF ConditionInv, ApartInv, OwnersInv, MapsKeepUp, MapsAreApart
<1>2. CASE Elsewhere
  BY <1>1, <1>2, OthersMaps DEF OwnersInv
<1>3. ASSUME NEW w \in Workers, MapSteps(w) PROVE OwnersInv'
  <2> SUFFICES ASSUME NEW m \in Maps
               PROVE  /\ UpToDate(maps'[m])
                      /\ m[2] \in Platforms /\ Live(maps'[m]) # Absent => Live(maps'[m]).owner[1] = m[2]
    BY DEF OwnersInv
  <2>1. CASE maps'[m] = maps[m]
    BY <1>1, <2>1 DEF OwnersInv
  <2>2. CASE maps'[m] # maps[m]
    <3>1. /\ job[w].pc \in AtMap /\ m = job[w].now.map
          /\ UpToDate(maps'[m]) /\ Live(maps'[m]) \in {Absent, Desired(job[w])}
      BY <1>1, <1>3, <2>2, MapWritten
    <3>2. Desired(job[w]).owner[1] = job[w].key
      BY DEF Desired, Owner
    <3>3. CASE job[w].now.strict
      BY <1>1, <3>1, <3>2, <3>3 DEF WritesAreApart
    <3>4. CASE ~job[w].now.strict
      <4>1. m \in Domains /\ m[2] \in DomainNames
        BY <1>1, <3>1, <3>4, ValuesAssumption DEF WritesAreApart
      <4> QED BY <3>1, <4>1 DEF MapsAreApart
    <3> QED BY <3>3, <3>4
  <2> QED BY <2>1, <2>2
<1> QED BY <1>2, <1>3, StepsAreThese

LEMMA UidsStep ==
    ASSUME MapsAreApart, ConditionInv, ApartInv, [Next]_vars
    PROVE  UidsInv'
<1>1. TypeOK /\ ViewsOK /\ VersionsArePast /\ HeldOnce /\ MapsKeepUp /\ UidsInv
  BY DEF ConditionInv, TypeOK, ApartInv, OwnersInv, MapsKeepUp, MapsAreApart
<1> SUFFICES ASSUME NEW p \in Platforms, PlatformHere(p)'
             PROVE  /\ \A w \in Workers : job'[w].pc \in Unready /\ job'[w].key = p =>
                          job'[w].platform.uid = Live(platforms'[p]).uid
                    /\ \A m \in Maps : Live(maps'[m]) # Absent /\ Live(maps'[m]).owner[1] = p =>
                          Live(maps'[m]).owner[2] = Live(platforms'[p]).uid
  BY DEF UidsInv
<1>2. ASSUME NEW w \in Workers, job'[w].pc \in Unready, job'[w].key = p
      PROVE  /\ Busy(w) /\ job[w].key = p
             /\ \/ job[w].pc \in Unready /\ job'[w].platform = job[w].platform
                \/ job'[w].platform = Live(platforms[p])
  BY <1>1, <1>2, JobPlatform
<1>3. CASE PlatformHere(p) /\ Live(platforms'[p]).uid = Live(platforms[p]).uid
  <2>1. ASSUME NEW w \in Workers, job'[w].pc \in Unready, job'[w].key = p
        PROVE  job'[w].platform.uid = Live(platforms'[p]).uid
    BY <1>1, <1>2, <1>3, <2>1 DEF UidsInv
  <2>2. ASSUME NEW m \in Maps, Live(maps'[m]) # Absent, Live(maps'[m]).owner[1] = p
        PROVE  Live(maps'[m]).owner[2] = Live(platforms'[p]).uid
    <3>1. CASE Live(maps'[m]) = Live(maps[m])
      BY <1>1, <1>3, <2>2, <3>1 DEF UidsInv
    <3>2. ASSUME NEW w \in Workers, MapSteps(w), maps'[m] # maps[m]
          PROVE  Live(maps'[m]).owner[2] = Live(platforms'[p]).uid
      <4>1. /\ job[w].pc \in Unready /\ Live(maps'[m]) = Desired(job[w])
        BY <1>1, <2>2, <3>2, MapWritten DEF AtMap, Unready
      <4>2. job[w].key = p /\ Live(maps'[m]).owner[2] = job[w].platform.uid
        BY <2>2, <4>1 DEF Desired, Owner
      <4> QED BY <1>1, <1>3, <4>1, <4>2 DEF UidsInv
    <3>3. CASE Elsewhere
      BY <1>1, <2>2, <3>1, <3>3, OthersMaps
    <3> QED BY <3>1, <3>2, <3>3, StepsAreThese
  <2> QED BY <2>1, <2>2
<1>4. ASSUME NEW ns \in Namespaces, CreatePlatform(p, ns)
      PROVE  /\ ~\E w \in Workers : job'[w].pc \in Unready /\ job'[w].key = p
             /\ ~\E m \in Maps : Live(maps'[m]) # Absent /\ Live(maps'[m]).owner[1] = p
  <2>1. Unused(p) /\ UNCHANGED <<job, maps>>
    BY <1>4 DEF CreatePlatform, WritePlatform, MapsAreApart
  <2>2. p \notin queue.processing
        /\ \A m \in Maps : \A v \in Versions(maps[m]) : v # Absent => v.owner[1] # p
    BY <2>1 DEF Unused
  <2>3. \A m \in Maps : Live(maps[m]) \in Versions(maps[m])
    BY <1>1, ReadsAreVersions DEF ViewsOK
  <2> QED BY <1>1, <2>1, <2>2, <2>3 DEF HeldOnce, Busy, Unready
<1> QED BY <1>1, <1>3, <1>4, UidStays
-----------------------------------------------------------------------------
(* What a sync has built when its platform is not pending *)

\* A worker on a platform nothing will wake has read its namespace, is to write
\* the platform's ConfigMap as wanted, and past it leaves it as wanted.
JobClaim(w) ==
    LET j == job[w]
        p == j.key
    IN  Busy(w) /\ p \notin PendingKeys /\ PlatformHere(p) =>
            /\ j.pc \in Unready => j.platform.ns = Live(platforms[p]).ns
            /\ j.pc \in AtMap /\ j.now.strict => j.now = WantedMap(p)
            /\ (j.pc \in AtMap /\ ~j.now.strict) \/ j.pc \in {"succeed", "done"} =>
                    Live(maps[WantedMap(p).map]) = Wanted(p)

SyncInv == \A w \in Workers : JobClaim(w)

(* A platform that is not pending, and that no worker takes, was not before,*)
(* and wants the same ConfigMap: any step that changes what it wants wakes  *)
(* it.                                                                     *)
LEMMA CalmBefore ==
    ASSUME ConditionInv, [Next]_vars, ~Crash, NEW p \in Platforms,
           \A w \in Workers : p \in Ready(queue) => ~Take(w, p),
           p \notin PendingKeys', PlatformHere(p)'
    PROVE  up /\ p \notin PendingKeys /\ SameWanted(p)
<1>1. TypeOK /\ ViewsOK /\ ControlOK /\ VersionsArePast /\ queue \in QueueOver(Platforms)
  BY DEF ConditionInv, TypeOK, ControlOK
<1>2. PendingIs /\ PendingIs'
  BY PendingIsThis, PTL
<1>3. up'
  BY <1>2 DEF PendingIs
<1>4. ASSUME ApiStays PROVE SameWanted(p)
  BY <1>4, ApiStaysWanted
<1>5. CASE Edit
  <2>1. up /\ p \notin PendingKeys /\ (PlatformHere(p)' => SameWanted(p))
    BY <1>1, <1>5, EditPending
  <2> QED BY <2>1
<1>6. CASE Observe \/ Handle \/ (\E m \in Maps : Collect(m)) \/ (\E q \in queue.delayed : Retry(q))
  <2>1. ApiStays
    BY <1>1, <1>6, NobodyWrites
  <2>2. UNCHANGED <<up, job>> /\ PendingKeys \subseteq PendingKeys'
    BY <1>1, <1>6, NothingForgotten
  <2> QED BY <1>3, <1>4, <2>1, <2>2
<1>7. CASE Restart
  <2>1. p \in PendingKeys'
    BY <1>1, <1>7, RestartPending
  <2> QED BY <2>1
<1>8. ASSUME NEW w \in Workers, Work(w) \/ Fail(w) \/ \E q \in Ready(queue) : Take(w, q)
      PROVE  up /\ p \notin PendingKeys /\ SameWanted(p)
  <2>1. UNCHANGED <<apiVars, up>> /\ up
    BY <1>1, <1>3, <1>8, WorkerViews
  <2>2. SameWanted(p)
    BY <1>4, <2>1 DEF ApiStays, apiVars
  <2>3. ASSUME NEW q \in Ready(queue), Take(w, q) PROVE p \notin PendingKeys
    <3>1. q # p
      BY <2>3
    <3> QED BY <1>1, <2>3, <3>1, TakePending
  <2>4. CASE Finish(w)
    <3>1. PendingKeys' \in {PendingKeys, PendingKeys \cup {job[w].key}}
      BY <1>1, <2>1, <2>4, FinishPending
    <3> QED BY <2>1, <2>2, <3>1
  <2>5. ASSUME Continues(w) PROVE p \notin PendingKeys
    <3>1. PendingKeys' = PendingKeys
      BY <2>1, <2>5, ContinuesPending
    <3> QED BY <3>1
  <2>6. CASE MapSteps(w)
    BY <1>1, <2>1, <2>2, <2>5, <2>6, MapsEffect DEF MapSteps, Stays
  <2>7. CASE ResetStatus(w) \/ ResetFails(w) \/ UpdateStatus(w) \/ UpdateFails(w)
    BY <1>1, <2>1, <2>2, <2>5, <2>7, StatusEffect DEF Resets, Ends
  <2> QED BY <1>8, <2>1, <2>2, <2>3, <2>4, <2>6, <2>7 DEF Work, Fail, MapSteps
<1>9. CASE UNCHANGED vars
  <2>1. UNCHANGED <<apiVars, up, queue>> /\ up
    BY <1>3, <1>9 DEF vars
  <2>2. p \notin PendingKeys
    BY <2>1, PendingByQueue
  <2> QED BY <1>4, <2>1, <2>2 DEF ApiStays, apiVars
<1> QED BY <1>5, <1>6, <1>7, <1>8, <1>9 DEF Next

(* So it is of a platform under work.                                       *)
LEMMA CalmStep ==
    ASSUME ConditionInv, [Next]_vars, ~Crash, NEW p \in Platforms, p \in queue.processing,
           p \notin PendingKeys', PlatformHere(p)'
    PROVE  up /\ p \notin PendingKeys /\ SameWanted(p)
BY CalmBefore DEF Ready

(* The garbage collector leaves the right ConfigMap of a platform alone, as *)
(* do all who are not at the ConfigMaps.                                   *)
LEMMA OthersKeepWanted ==
    ASSUME MapsAreApart, TypeOK, ApartInv, Elsewhere, NEW p \in Platforms, PlatformHere(p)
    PROVE  Live(maps'[WantedMap(p).map]) = Live(maps[WantedMap(p).map])
<1>1. ViewsOK /\ MapsKeepUp /\ OwnersInv /\ UidsInv
  BY DEF TypeOK, ApartInv, OwnersInv, MapsKeepUp, MapsAreApart
<1> DEFINE m == WantedMap(p).map
<1>2. Live(platforms[p]) \in PlatformVersions
  BY <1>1, ReadTypes DEF PlatformHere
<1>3. m \in Maps /\ m[2] = p
  BY <1>2 DEF WantedMap, PlatformWrite, Maps, PlatformVersions
<1> HIDE DEF m
<1>4. ASSUME Live(maps[m]) # Absent PROVE ~Orphan(Live(maps[m]))
  <2>1. Live(maps[m]) \in ConfigMaps
    BY <1>1, <1>3, <1>4, ReadTypes
  <2>2. Live(maps[m]).owner[1] = p /\ Live(maps[m]).owner[2] = Live(platforms[p]).uid
    BY <1>1, <1>3, <1>4 DEF OwnersInv, UidsInv
  <2>3. Live(maps[m]).owner = <<p, Live(platforms[p]).uid>>
    BY <2>1, <2>2 DEF ConfigMaps
  <2> QED BY <2>2, <2>3 DEF Orphan, Controlled, Owner, PlatformHere
<1> QED BY <1>1, <1>3, <1>4, OthersMaps DEF m

(* A step at the ConfigMaps writes the right one of its platform at most.   *)
LEMMA OnlyOwnWanted ==
    ASSUME MapsAreApart, ConditionInv, ApartInv, NEW w \in Workers, MapSteps(w),
           NEW p \in Platforms, PlatformHere(p),
           Live(maps'[WantedMap(p).map]) # Live(maps[WantedMap(p).map])
    PROVE  job[w].key = p /\ job[w].pc \in AtMap /\ job[w].now.strict
<1>1. TypeOK /\ ViewsOK /\ MapsKeepUp /\ WritesAreApart
  BY DEF ConditionInv, TypeOK, ApartInv, OwnersInv, MapsKeepUp, MapsAreApart
<1> DEFINE m == WantedMap(p).map
<1>2. Live(platforms[p]) \in PlatformVersions
  BY <1>1, ReadTypes DEF PlatformHere
<1>3. m \in Maps /\ m[2] = p
  BY <1>2 DEF WantedMap, PlatformWrite, Maps, PlatformVersions
<1> HIDE DEF m
<1>4. maps'[m] # maps[m]
  BY DEF m
<1>5. job[w].pc \in AtMap /\ m = job[w].now.map
  BY <1>1, <1>3, <1>4, MapWritten
<1>6. CASE job[w].now.strict
  BY <1>1, <1>3, <1>5, <1>6 DEF WritesAreApart
<1>7. CASE ~job[w].now.strict
  <2>1. m \in Domains /\ m[2] \in DomainNames
    BY <1>1, <1>5, <1>7, ValuesAssumption DEF WritesAreApart
  <2> QED BY <1>3, <2>1 DEF MapsAreApart
<1> QED BY <1>6, <1>7

(* So it is written only by the worker on its platform.                     *)
LEMMA WantedMapStays ==
    ASSUME MapsAreApart, ConditionInv, ApartInv, [Next]_vars,
           NEW v \in Workers, Busy(v), NEW p \in Platforms, job[v].key = p, PlatformHere(p),
           ~MapSteps(v) \/ (job[v].pc \in AtMap /\ ~job[v].now.strict)
    PROVE  Live(maps'[WantedMap(p).map]) = Live(maps[WantedMap(p).map])
<1>1. TypeOK /\ HeldOnce
  BY DEF ConditionInv
<1>2. ASSUME NEW w \in Workers, MapSteps(w),
             Live(maps'[WantedMap(p).map]) # Live(maps[WantedMap(p).map])
      PROVE  FALSE
  <2>1. job[w].key = p /\ job[w].pc \in AtMap /\ job[w].now.strict
    BY <1>2, OnlyOwnWanted
  <2>2. w = v
    BY <1>1, <2>1 DEF HeldOnce, Busy, AtMap
  <2> QED BY <1>2, <2>1, <2>2
<1> QED BY <1>1, <1>2, OthersKeepWanted, StepsAreThese

(* A sync of a platform nothing will wake reads of its tenants what the API *)
(* server has.                                                             *)
LEMMA ListedTenants ==
    ASSUME ViewsOK, up, NEW p \in Platforms, p \notin PendingKeys
    PROVE  /\ Of(p, CachedTenants) = Of(p, LiveTenants)
           /\ \A t \in Of(p, LiveTenants) : CachedTenants[t] = LiveTenants[t]
<1> DEFINE cs == CachedTenants
           ls == LiveTenants
<1>1. /\ cs = [t \in Tenants |-> Cached(tenants[t])] /\ ls = [t \in Tenants |-> Live(tenants[t])]
  BY DEF CachedTenants, LiveTenants
<1>2. ASSUME NEW t \in Tenants, cs[t] # ls[t]
      PROVE  /\ ~(cs[t] # Absent /\ cs[t].platform = p)
             /\ ~(ls[t] # Absent /\ ls[t].platform = p)
  <2>1. /\ tenants[t] \in ViewOf(TenantSpec \cup {Absent}) /\ WellFormed(tenants[t])
        /\ Cached(tenants[t]) # Live(tenants[t])
    BY <1>1, <1>2 DEF ViewsOK
  <2>2. /\ \E c \in Events(tenants[t]) : c[1] = Cached(tenants[t]) /\ c[1] # c[2]
        /\ \E c \in Events(tenants[t]) : c[2] = Live(tenants[t])
    BY <2>1, ChangesOfTheStore
  <2>3. \A c \in Events(tenants[t]) : p \notin OnReference(c[1], c[2])
    BY PendingIsThis DEF PendingIs
  <2>4. \A c \in Events(tenants[t]) : /\ ~(c[1] # Absent /\ c[1].platform = p)
                                       /\ ~(c[2] # Absent /\ c[2].platform = p)
    BY <2>3 DEF OnReference
  <2> QED BY <1>1, <2>2, <2>4
<1>3. DOMAIN cs = Tenants /\ DOMAIN ls = Tenants
  BY <1>1
<1> HIDE DEF cs, ls
<1>4. Of(p, cs) = Of(p, ls) /\ \A t \in Of(p, ls) : cs[t] = ls[t]
  BY <1>2, <1>3 DEF Of
<1> QED BY <1>4 DEF cs, ls

LEMMA CalmTenants ==
    ASSUME ViewsOK, up, NEW p \in Platforms, p \notin PendingKeys,
           NEW platform, platform.ns = Live(platforms[p]).ns
    PROVE  PlatformWrite(p, platform, CachedTenants) = WantedMap(p)
<1> DEFINE cs == CachedTenants
           ls == LiveTenants
<1>1. Of(p, cs) = Of(p, ls) /\ \A t \in Of(p, ls) : cs[t] = ls[t]
  BY ListedTenants
<1> HIDE DEF cs, ls
<1>2. {<<t, cs[t].enabled, cs[t].info, {}>> : t \in Of(p, cs)}
        = {<<t, ls[t].enabled, ls[t].info, {}>> : t \in Of(p, ls)}
  BY <1>1
<1> QED BY <1>2 DEF PlatformWrite, WantedMap, cs, ls

(* ... and finds the platform in the store if it is there.                 *)
LEMMA CalmPlatform ==
    ASSUME ViewsOK, up, NEW p \in Platforms, p \notin PendingKeys, PlatformHere(p)
    PROVE  Cached(platforms[p]) # Absent
<1> SUFFICES ASSUME Cached(platforms[p]) = Absent PROVE FALSE
  OBVIOUS
<1>1. /\ platforms[p] \in ViewOf(PlatformVersions \cup {Absent}) /\ WellFormed(platforms[p])
      /\ Cached(platforms[p]) # Live(platforms[p])
  BY DEF ViewsOK, PlatformHere
<1>2. PICK c \in Events(platforms[p]) : c[1] = Absent /\ c[1] # c[2]
  BY <1>1, ChangesOfTheStore
<1>3. Wakes(c)
  BY <1>2 DEF Wakes
<1> QED BY <1>2, <1>3, PendingIsThis DEF PendingIs

(* A sync is done after a status write, or without a platform.             *)
LEMMA DoneEffect ==
    ASSUME TypeOK, Elsewhere, NEW v \in Workers, job'[v].pc = "done", job'[v] # job[v]
    PROVE  /\ Busy(v) /\ job'[v].key = job[v].key /\ UNCHANGED apiVars
           /\ job[v].pc = "succeed" \/ Cached(platforms[job[v].key]) = Absent
<1>1. ControlOK /\ job \in [Workers -> Jobs] /\ ViewsOK
  BY DEF TypeOK, ControlOK
<1>2. ~Others
  <2>1. Others => job'[v] = job[v] \/ job'[v] = Idle
    BY <1>1 DEF Others, Edit, EditTenant, EditDomain, EditService, EditPlatform,
     CreatePlatform, DeletePlatform, WritePlatform, Observe, ObservePlatform, ObserveTenant,
     ObserveDomain, ObserveMap, Handle, HandlePlatform, HandleTenant, HandleDomain, Restart,
     Collect, Retry, Crash
  <2> QED BY <2>1 DEF Idle
<1>3. PICK w \in Workers : Around(w)
  BY <1>2 DEF Elsewhere, vars
<1>4. ResetStatus(w) \/ ResetFails(w) \/ UpdateStatus(w) \/ UpdateFails(w)
  BY <1>1, <1>3, QueueJob DEF Around
<1>5. Continues(w)
  BY <1>1, <1>4, StatusEffect DEF Resets, Ends
<1>6. v = w /\ Busy(v) /\ job'[v].key = job[v].key
  BY <1>5 DEF Continues
<1>7. UNCHANGED apiVars
  BY <1>4 DEF ResetStatus, ResetFails, UpdateStatus, UpdateFails
<1>8. job[v].pc = "succeed" \/ Cached(platforms[job[v].key]) = Absent
  <2>1. ASSUME NEW pc, job' = [job EXCEPT ![v].pc = pc] PROVE pc = "done"
    BY <1>1, <2>1, PcEffect
  <2>2. ASSUME UpdateStatus(v) \/ UpdateFails(v) PROVE job[v].pc = "succeed"
    <3>1. /\ job[v].pc \in {"succeed", "fail"}
          /\ job' = [job EXCEPT ![v].pc = IF job[v].pc = "fail" THEN "retry" ELSE "done"]
      BY <1>1, <2>2 DEF UpdateStatus, UpdateFails, AfterUpdate
    <3> QED BY <2>1, <3>1
  <2>3. ~ResetFails(v)
    BY <2>1 DEF ResetFails
  <2>4. ASSUME ResetStatus(v) PROVE Cached(platforms[job[v].key]) = Absent
    <3>1. ASSUME NEW x PROVE job' # [job EXCEPT ![v].pc = "list", ![v].platform = x]
      BY <1>1 DEF Jobs
    <3> QED BY <2>1, <2>4, <3>1 DEF ResetStatus
  <2> QED BY <1>4, <1>6, <2>2, <2>3, <2>4
<1> QED BY <1>6, <1>7, <1>8

\* The claim of a worker, spelled out for its platform.
ClaimOf(v, p) ==
    LET j == job[v]
    IN  /\ j.pc \in Unready => j.platform.ns = Live(platforms[p]).ns
        /\ j.pc \in AtMap /\ j.now.strict => j.now = WantedMap(p)
        /\ (j.pc \in AtMap /\ ~j.now.strict) \/ j.pc \in {"succeed", "done"} =>
                Live(maps[WantedMap(p).map]) = Wanted(p)

(* Somebody else's step, ...                                               *)
LEMMA ElsewhereClaim ==
    ASSUME MapsAreApart, ConditionInv, ApartInv, SyncInv, [Next]_vars, ~Crash,
           NEW v \in Workers, NEW p \in Platforms, Busy(v)', job'[v].key = p,
           p \notin PendingKeys', PlatformHere(p)', ~MapSteps(v)
    PROVE  ClaimOf(v, p)'
<1>1. /\ TypeOK /\ ViewsOK /\ ControlOK /\ HeldOnce
  BY DEF ConditionInv, TypeOK
<1>2. ASSUME Busy(v), job[v].key = p
      PROVE  /\ up /\ p \notin PendingKeys /\ SameWanted(p) /\ ClaimOf(v, p)
             /\ Live(maps'[WantedMap(p).map]) = Live(maps[WantedMap(p).map])
  <2>1. p \in queue.processing
    BY <1>1, <1>2 DEF HeldOnce
  <2>2. up /\ p \notin PendingKeys /\ SameWanted(p)
    BY <2>1, CalmStep
  <2>3. PlatformHere(p)
    BY <2>2 DEF SameWanted
  <2>4. ClaimOf(v, p)
    BY <1>2, <2>2, <2>3 DEF SyncInv, JobClaim, ClaimOf
  <2> QED BY <1>2, <2>2, <2>3, <2>4, WantedMapStays
<1>3. CASE job'[v] = job[v]
  <2>1. Busy(v) /\ job[v].key = p
    BY <1>3 DEF Busy
  <2>2. /\ SameWanted(p) /\ ClaimOf(v, p)
        /\ Live(maps'[WantedMap(p).map]) = Live(maps[WantedMap(p).map])
    BY <1>2, <2>1
  <2> QED BY <1>3, <2>2 DEF SameWanted, ClaimOf
<1>4. ASSUME NEW w \in Workers, MapSteps(w), w # v PROVE job'[v] = job[v]
  BY <1>1, <1>4, MapsEffect DEF MapSteps, Stays, Continues
<1>5. CASE Elsewhere /\ job'[v] # job[v]
  <2>1. /\ job'[v].pc \notin AtMap
        /\ job'[v].pc \in Unready => job[v].pc = "reset" /\ job'[v].pc = "list"
    BY <1>1, <1>5, ElsewhereJob
  <2>2. ASSUME job'[v].pc \in Unready
        PROVE  job'[v].platform.ns = Live(platforms'[p]).ns
    <3>1. /\ Busy(v) /\ job[v].key = p
          /\ job'[v].platform = Live(platforms[p]) /\ UNCHANGED apiVars
      BY <1>1, <2>1, <2>2, JobPlatform DEF Unready
    <3> QED BY <3>1 DEF apiVars
  <2>3. ASSUME job'[v].pc = "done"
        PROVE  Live(maps'[WantedMap(p)'.map]) = Wanted(p)'
    <3>1. /\ Busy(v) /\ job[v].key = p
          /\ job[v].pc = "succeed" \/ Cached(platforms[p]) = Absent
      BY <1>1, <1>5, <2>3, DoneEffect
    <3>2. /\ up /\ p \notin PendingKeys /\ SameWanted(p) /\ ClaimOf(v, p)
          /\ Live(maps'[WantedMap(p).map]) = Live(maps[WantedMap(p).map])
      BY <1>2, <3>1
    <3>3. job[v].pc = "succeed"
      BY <1>1, <3>1, <3>2, CalmPlatform DEF SameWanted
    <3> QED BY <3>2, <3>3 DEF SameWanted, ClaimOf
  <2>4. job'[v].pc # "succeed"
    BY <2>1 DEF Unready
  <2> QED BY <2>1, <2>2, <2>3, <2>4 DEF ClaimOf
<1> QED BY <1>3, <1>4, <1>5, StepsAreThese

(* ... and the worker's own.                                               *)
LEMMA OwnClaim ==
    ASSUME MapsAreApart, ConditionInv, ApartInv, SyncInv, [Next]_vars, ~Crash,
           NEW v \in Workers, NEW p \in Platforms, job'[v].key = p,
           p \notin PendingKeys', PlatformHere(p)', MapSteps(v)
    PROVE  ClaimOf(v, p)'
<1>1. /\ TypeOK /\ ViewsOK /\ ControlOK /\ HeldOnce /\ MapsKeepUp
      /\ WritesAreApart /\ OwnersInv /\ UidsInv
  BY DEF ConditionInv, TypeOK, ApartInv, OwnersInv, MapsKeepUp, MapsAreApart
<1>2. /\ Busy(v) /\ job[v].key = p /\ job[v].pc \in Unready /\ job'[v].platform = job[v].platform
  BY <1>1, MapsEffect DEF MapSteps, Stays, Continues
<1>3. /\ up /\ p \notin PendingKeys /\ SameWanted(p)
  <2>1. p \in queue.processing
    BY <1>1, <1>2 DEF HeldOnce
  <2> QED BY <2>1, CalmStep
<1>4. PlatformHere(p) /\ WantedMap(p)' = WantedMap(p) /\ Wanted(p)' = Wanted(p)
      /\ Live(platforms'[p]).ns = Live(platforms[p]).ns
  BY <1>3 DEF SameWanted
<1>5. ClaimOf(v, p)
  BY <1>2, <1>3, <1>4 DEF SyncInv, JobClaim, ClaimOf
<1>6. job[v].platform.ns = Live(platforms[p]).ns /\ job[v].platform.uid = Live(platforms[p]).uid
  BY <1>1, <1>2, <1>4, <1>5 DEF ClaimOf, UidsInv
<1>7. job'[v].pc \in Unready => job'[v].platform.ns = Live(platforms'[p]).ns
  BY <1>2, <1>4, <1>6
<1>8. CASE Lists(v)
  <2>1. job'[v].now = WantedMap(p) /\ job'[v].pc = "look"
    BY <1>1, <1>2, <1>3, <1>6, <1>8, CalmTenants DEF Lists
  <2>2. WantedMap(p).strict
    BY DEF WantedMap, PlatformWrite
  <2> QED BY <1>4, <1>7, <2>1, <2>2 DEF ClaimOf
<1>9. CASE Holds(v)
  <2>1. /\ job[v].pc \in AtMap /\ job'[v].now = job[v].now
        /\ job'[v].pc \notin {"succeed", "done"}
    BY <1>9 DEF Holds
  <2>2. job'[v].now.strict => job'[v].now = WantedMap(p)
    BY <1>5, <2>1 DEF ClaimOf
  <2>3. ~job'[v].now.strict => Live(maps'[WantedMap(p).map]) = Wanted(p)
    BY <1>2, <1>4, <1>5, <2>1, WantedMapStays DEF ClaimOf
  <2> QED BY <1>4, <1>7, <2>1, <2>2, <2>3 DEF ClaimOf
<1>10. CASE Passes(v)
  <2>1. /\ job[v].pc \in AtMap
        /\ job'[v].pc \in {"succeed", "look"} /\ (job'[v].pc = "look" => ~job'[v].now.strict)
    BY <1>1, <1>10 DEF Passes, WritesAreApart
  <2>2. CASE ~job[v].now.strict
    <3>1. Live(maps'[WantedMap(p).map]) = Wanted(p)
      BY <1>2, <1>4, <1>5, <2>1, <2>2, WantedMapStays DEF ClaimOf
    <3> QED BY <1>4, <1>7, <2>1, <3>1 DEF ClaimOf, AtMap
  <2>3. CASE job[v].now.strict
    <3> DEFINE m == WantedMap(p).map
    <3>1. job[v].now = WantedMap(p) /\ job[v].now.map = m
      BY <1>5, <2>1, <2>3 DEF ClaimOf
    <3>2. Desired(job[v]) = Wanted(p)
      BY <1>2, <1>6, <3>1 DEF Desired, Wanted, Owner
    <3>3. ASSUME UNCHANGED maps, Live(maps[m]) # Absent,
                 Controlled(Live(maps[m]), p, job[v].platform) => SameData(Live(maps[m]), job[v].now)
          PROVE  Live(maps'[m]) = Wanted(p)
      <4>1. m \in Maps /\ m[2] = p
        <5>1. Live(platforms[p]) \in PlatformVersions
          BY <1>1, <1>4, ReadTypes DEF PlatformHere
        <5> QED BY <5>1 DEF WantedMap, PlatformWrite, Maps, PlatformVersions
      <4>2. Live(maps[m]) \in ConfigMaps
        BY <1>1, <3>3, <4>1, ReadTypes
      <4>3. Live(maps[m]).owner[1] = p /\ Live(maps[m]).owner[2] = Live(platforms[p]).uid
        BY <1>1, <1>4, <3>3, <4>1 DEF OwnersInv, UidsInv
      <4>4. Live(maps[m]).owner = <<p, Live(platforms[p]).uid>>
        BY <4>2, <4>3 DEF ConfigMaps
      <4>5. Live(maps[m]).data = job[v].now.data
        BY <1>6, <3>3, <4>4 DEF Controlled, Owner, SameData
      <4>6. Live(maps[m]) = [owner |-> Live(maps[m]).owner, data |-> Live(maps[m]).data]
        BY <4>2 DEF ConfigMaps
      <4> QED BY <3>1, <3>3, <4>4, <4>5, <4>6 DEF Wanted, Owner
    <3>4. Live(maps'[m]) = Wanted(p)
      BY <1>2, <1>10, <2>3, <3>1, <3>2, <3>3 DEF Passes
    <3> QED BY <1>4, <1>7, <2>1, <3>4 DEF ClaimOf, AtMap
  <2> QED BY <2>2, <2>3
<1> QED BY <1>1, <1>8, <1>9, <1>10, MapWork

LEMMA SyncStep ==
    ASSUME MapsAreApart, ConditionInv, ConditionInv', ApartInv, SyncInv, [Next]_vars
    PROVE  SyncInv'
<1> SUFFICES ASSUME NEW v \in Workers PROVE JobClaim(v)'
  BY DEF SyncInv
<1>1. Busy(v)' => job'[v].key \in Platforms
  BY DEF ConditionInv, TypeOK, ControlOK, Busy
<1>2. Crash => ~Busy(v)'
  BY DEF Crash, Busy, Idle
<1>3. ASSUME NEW p \in Platforms, Busy(v)', job'[v].key = p, p \notin PendingKeys',
             PlatformHere(p)'
      PROVE  ClaimOf(v, p)'
  BY <1>2, <1>3, ElsewhereClaim, OwnClaim
<1> QED BY <1>1, <1>3 DEF JobClaim, ClaimOf, PlatformHere, WantedMap, Wanted

(* The inductive invariant: whose the ConfigMaps are, and what a worker on a *)
(* platform that nothing will wake has read and built.                     *)
THEOREM MapsAreSynced ==
    ASSUME MapsAreApart PROVE Spec => [](ConditionInv /\ ApartInv /\ SyncInv)
<1>1. Init => ApartInv /\ SyncInv
  <2> SUFFICES ASSUME Init PROVE ApartInv /\ SyncInv
    OBVIOUS
  <2>1. \A w \in Workers : job[w].pc = "idle" /\ job[w].left = {}
    BY DEF Init, Idle
  <2>2. \A m \in Maps : maps[m] = Unwatched(Absent)
    BY DEF Init
  <2>3. \A m \in Maps : Live(maps[m]) = Absent /\ UpToDate(maps[m])
    BY <2>2 DEF UpToDate, Unwatched, Live
  <2>4. OwnersInv /\ UidsInv
    BY <2>1, <2>3 DEF OwnersInv, UidsInv, Unready
  <2>5. WritesAreApart
    BY <2>1 DEF WritesAreApart, AtMap
  <2>6. SyncInv
    BY <2>1 DEF SyncInv, JobClaim, Busy
  <2> QED BY <2>4, <2>5, <2>6 DEF ApartInv
<1>2. ConditionInv /\ ConditionInv' /\ ApartInv /\ SyncInv /\ [Next]_vars => ApartInv' /\ SyncInv'
  BY WritesStep, OwnersStep, UidsStep, SyncStep DEF ApartInv
<1> QED BY <1>1, <1>2, ConditionsAreKept, PTL DEF Spec
-----------------------------------------------------------------------------
(* The steps of the reconciler *)

WantedNow(p) == IF PlatformHere(p) THEN Wanted(p) ELSE Absent
BuiltNow(p) == IF PlatformHere(p) THEN Live(maps[WantedMap(p).map]) ELSE Absent
Syncing == {job[w].key : w \in {v \in Workers : Busy(v)}}

(* A worker that goes on has its key, ...                                  *)
LEMMA ContinuesSyncing ==
    ASSUME NEW w \in Workers, Continues(w)
    PROVE  Syncing' = Syncing /\ job[w].key \in Syncing
<1>1. \A v \in Workers : Busy(v)' = Busy(v) /\ job'[v].key = job[v].key
  BY DEF Continues, Busy
<1> QED BY <1>1 DEF Syncing, Continues

(* ... one that takes a key takes one that nobody has, ...                  *)
LEMMA TakeSyncing ==
    ASSUME TypeOK, HeldOnce, NEW w \in Workers, NEW p \in Ready(queue), Take(w, p)
    PROVE  p \notin Syncing /\ Syncing' = Syncing \cup {p}
<1>1. job \in [Workers -> Jobs]
  BY DEF TypeOK, ControlOK
<1>2. p \notin Syncing
  BY DEF Ready, HeldOnce, Syncing
<1>3. job'[w].key = p /\ Busy(w)' /\ ~Busy(w)
  BY <1>1 DEF Take, Idle, Busy
<1>4. \A v \in Workers \ {w} : job'[v] = job[v]
  BY <1>1 DEF Take
<1>5. \A v \in Workers \ {w} : Busy(v)' = Busy(v) /\ job'[v].key = job[v].key
  BY <1>4 DEF Busy
<1> QED BY <1>2, <1>3, <1>5 DEF Syncing

(* ... and one that gives its key back leaves it to nobody.                *)
LEMMA FinishSyncing ==
    ASSUME TypeOK, HeldOnce, NEW w \in Workers, Finish(w)
    PROVE  job[w].key \in Syncing /\ Syncing' = Syncing \ {job[w].key}
<1>1. job \in [Workers -> Jobs]
  BY DEF TypeOK, ControlOK
<1>2. Busy(w) /\ ~Busy(w)'
  BY <1>1 DEF Finish, Idle, Busy
<1>3. \A v \in Workers \ {w} : job'[v] = job[v]
  BY <1>1 DEF Finish
<1>4. \A v \in Workers \ {w} : Busy(v)' = Busy(v) /\ job'[v].key = job[v].key
  BY <1>3 DEF Busy
<1>5. \A v \in Workers \ {w} : Busy(v) => job[v].key # job[w].key
  BY <1>2 DEF HeldOnce
<1> QED BY <1>2, <1>4, <1>5 DEF Syncing

(* What is wanted and built is up to the API server's objects.              *)
LEMMA SameNow ==
    ASSUME NEW p \in Platforms, ApiStays,
           PlatformHere(p) => Live(maps'[WantedMap(p).map]) = Live(maps[WantedMap(p).map])
    PROVE  WantedNow(p)' = WantedNow(p) /\ BuiltNow(p)' = BuiltNow(p)
<1>1. PlatformHere(p)' = PlatformHere(p) /\ (PlatformHere(p) => SameWanted(p))
  BY ApiStaysWanted
<1>2. PlatformHere(p) => WantedMap(p)' = WantedMap(p) /\ Wanted(p)' = Wanted(p)
  BY <1>1 DEF SameWanted
<1>3. PlatformHere(p) => BuiltNow(p)' = BuiltNow(p)
  BY <1>1, <1>2 DEF BuiltNow
<1>4. ~PlatformHere(p) => BuiltNow(p)' = BuiltNow(p)
  BY <1>1 DEF BuiltNow
<1> QED BY <1>1, <1>2, <1>3, <1>4 DEF WantedNow

\* A step that changes nothing the reconciler sees.
Nothing == /\ UNCHANGED up /\ Syncing' = Syncing /\ PendingKeys' = PendingKeys
           /\ \A p \in Platforms : WantedNow(p)' = WantedNow(p) /\ BuiltNow(p)' = BuiltNow(p)

LEMMA NothingStep == Nothing => [Register!Next]_(Register!vars)
BY DEF Nothing, Register!vars, Syncing, WantedNow, BuiltNow

(* The users, the garbage collector, the informers and the handlers: what   *)
(* one of them changes wakes its platform.                                 *)
LEMMA OthersChange ==
    ASSUME MapsAreApart, ConditionInv, ApartInv, Others, ~Crash, ~Restart
    PROVE  Register!Change
<1>1. /\ TypeOK /\ ViewsOK /\ VersionsArePast
      /\ Edit \/ Observe \/ Handle \/ (\E m \in Maps : Collect(m)) \/ (\E q \in queue.delayed : Retry(q))
  BY DEF ConditionInv, TypeOK, Others
<1>2. UNCHANGED <<up, job>>
  <2>1. CASE Edit
    BY <1>1, <2>1, EditEffect
  <2> QED BY <1>1, <2>1, NothingForgotten
<1>3. Syncing' = Syncing
  BY <1>2 DEF Syncing, Busy
<1>4. ASSUME NEW p \in Platforms, p \notin PendingKeys'
      PROVE  p \notin PendingKeys /\ (PlatformHere(p)' => SameWanted(p))
  <2>1. CASE Edit
    <3>1. p \notin PendingKeys /\ (PlatformHere(p)' => SameWanted(p))
      BY <1>1, <1>4, <2>1, EditPending
    <3> QED BY <3>1
  <2>2. CASE Observe \/ Handle \/ (\E m \in Maps : Collect(m)) \/ (\E q \in queue.delayed : Retry(q))
    <3>1. ApiStays
      BY <1>1, <2>2, NobodyWrites
    <3>2. PendingKeys \subseteq PendingKeys'
      BY <1>1, <2>2, NothingForgotten
    <3>3. PlatformHere(p)' = PlatformHere(p) /\ (PlatformHere(p) => SameWanted(p))
      BY <3>1, ApiStaysWanted
    <3> QED BY <1>4, <3>2, <3>3
  <2> QED BY <1>1, <2>1, <2>2
<1>5. ASSUME NEW p \in Platforms, p \notin PendingKeys'
      PROVE  \/ WantedNow(p)' = BuiltNow(p)'
             \/ /\ p \notin PendingKeys
                /\ WantedNow(p)' = WantedNow(p) /\ BuiltNow(p)' = BuiltNow(p)
  <2>1. p \notin PendingKeys /\ (PlatformHere(p)' => SameWanted(p))
    BY <1>4, <1>5
  <2>2. CASE ~PlatformHere(p)'
    BY <2>2 DEF WantedNow, BuiltNow
  <2>3. CASE SameWanted(p)
    <3>1. PlatformHere(p) /\ PlatformHere(p)' /\ WantedMap(p)' = WantedMap(p) /\ Wanted(p)' = Wanted(p)
      BY <2>3 DEF SameWanted
    <3>2. Live(maps'[WantedMap(p).map]) = Live(maps[WantedMap(p).map])
      BY <1>1, <3>1, OthersKeepWanted DEF Elsewhere
    <3>3. WantedNow(p)' = WantedNow(p)
      BY <3>1 DEF WantedNow
    <3>4. BuiltNow(p)' = BuiltNow(p)
      BY <3>1, <3>2 DEF BuiltNow
    <3> QED BY <2>1, <3>3, <3>4
  <2> QED BY <2>1, <2>2, <2>3
<1> QED BY <1>2, <1>3, <1>5 DEF Register!Change, WantedNow, BuiltNow, Syncing

(* The process.                                                            *)
LEMMA CrashChange == ASSUME TypeOK, Crash PROVE Register!Crash
<1>1. ViewsOK /\ up /\ ~up'
  BY DEF TypeOK, Crash
<1>2. PendingKeys' = Platforms
  <2>1. PendingIs'
    BY PendingIsThis, PTL
  <2> QED BY <1>1, <2>1 DEF PendingIs
<1>3. \A w \in Workers : ~Busy(w)'
  BY DEF Crash, Idle, Busy
<1>4. Syncing' = {}
  BY <1>3 DEF Syncing
<1>5. ApiStays
  BY <1>1, NobodyWrites
<1>6. \A m \in Maps : Live(maps'[m]) = Live(maps[m])
  BY DEF Crash, Unwatched, Live
<1>7. ASSUME NEW p \in Platforms
      PROVE  WantedNow(p)' = WantedNow(p) /\ BuiltNow(p)' = BuiltNow(p)
  <2>1. PlatformHere(p) => WantedMap(p).map \in Maps
    BY <1>1, ReadTypes DEF PlatformHere, WantedMap, PlatformWrite, Maps, PlatformVersions
  <2> QED BY <1>5, <1>6, <2>1, SameNow
<1> QED BY <1>1, <1>2, <1>4, <1>7 DEF Register!Crash, WantedNow, BuiltNow, Syncing

LEMMA RestartChange == ASSUME TypeOK, Restart PROVE Register!Restart
<1>1. ViewsOK /\ ~up /\ up' /\ UNCHANGED <<job, maps>>
  BY DEF TypeOK, Restart
<1>2. Syncing' = Syncing
  BY <1>1 DEF Syncing, Busy
<1>3. ApiStays
  BY <1>1, NobodyWrites
<1>4. \A p \in Platforms : WantedNow(p)' = WantedNow(p) /\ BuiltNow(p)' = BuiltNow(p)
  BY <1>1, <1>3, SameNow
<1>5. ASSUME NEW p \in Platforms, BuiltNow(p) # WantedNow(p)
      PROVE  p \in PendingKeys'
  <2>1. PlatformHere(p)'
    BY <1>3, <1>5, ApiStaysWanted DEF BuiltNow, WantedNow
  <2>2. p \in PendingKeys'
    BY <2>1, RestartPending
  <2> QED BY <2>2
<1> QED BY <1>1, <1>2, <1>4, <1>5 DEF Register!Restart, WantedNow, BuiltNow, Syncing

(* While there is no controller, every platform is pending.                *)
LEMMA DownPending ==
    ASSUME ~up, UNCHANGED up
    PROVE  PendingKeys = Platforms /\ PendingKeys' = Platforms
<1>1. PendingIs /\ PendingIs'
  BY PendingIsThis, PTL
<1> QED BY <1>1 DEF PendingIs

(* Who leaves the queue alone leaves the pending platforms alone.           *)
LEMMA QueueStays ==
    ASSUME UNCHANGED <<apiVars, up, queue>>
    PROVE  PendingKeys' = PendingKeys
<1>1. CASE ~up
  BY <1>1, DownPending
<1>2. ASSUME up, NEW k PROVE k \in PendingKeys' <=> k \in PendingKeys
  BY <1>2, PendingByQueue
<1> QED BY <1>1, <1>2

(* The workers.                                                            *)
LEMMA TakeChange ==
    ASSUME TypeOK, HeldOnce, NEW w \in Workers, NEW p \in Ready(queue), Take(w, p)
    PROVE  p \in Platforms /\ Register!Begin(p)
<1>1. up /\ UNCHANGED <<apiVars, maps, up>> /\ ApiStays /\ p \in Platforms
  BY DEF Take, ApiStays, apiVars, Ready, TypeOK, ControlOK, QueueOver
<1>2. p \in PendingKeys /\ PendingKeys \ {p} \subseteq PendingKeys' /\ PendingKeys' \subseteq PendingKeys
  BY TakePending
<1>3. p \notin Syncing /\ Syncing' = Syncing \cup {p}
  BY TakeSyncing
<1>4. \A q \in Platforms : WantedNow(q)' = WantedNow(q) /\ BuiltNow(q)' = BuiltNow(q)
  BY <1>1, SameNow
<1> QED BY <1>1, <1>2, <1>3, <1>4 DEF Register!Begin, WantedNow, BuiltNow, Syncing

LEMMA StatusChange ==
    ASSUME ControlOK, NEW w \in Workers,
           ResetStatus(w) \/ ResetFails(w) \/ UpdateStatus(w) \/ UpdateFails(w)
    PROVE  Nothing
<1>1. Continues(w)
  BY StatusEffect DEF Resets, Ends
<1>2. UNCHANGED <<apiVars, maps, up>> /\ ApiStays
  BY DEF ResetStatus, ResetFails, UpdateStatus, UpdateFails, ApiStays, apiVars
<1>3. PendingKeys' = PendingKeys
  BY <1>1, <1>2, QueueStays DEF Continues
<1>4. \A q \in Platforms : WantedNow(q)' = WantedNow(q) /\ BuiltNow(q)' = BuiltNow(q)
  BY <1>2, SameNow
<1> QED BY <1>1, <1>2, <1>3, <1>4, ContinuesSyncing DEF Nothing

LEMMA MapsChange ==
    ASSUME MapsAreApart, ConditionInv, ApartInv, NEW w \in Workers, MapSteps(w),
           NEW p \in Platforms, p = job[w].key
    PROVE  Register!Build(p)
<1>1. TypeOK /\ ViewsOK /\ ControlOK
  BY DEF ConditionInv, TypeOK
<1>2. Continues(w)
  BY <1>1, MapsEffect DEF MapSteps, Stays
<1>3. UNCHANGED <<apiVars, up>> /\ ApiStays
  BY DEF MapSteps, List, Look, CallApi, CallFails, ApiStays, apiVars
<1>4. PendingKeys' = PendingKeys
  BY <1>2, <1>3, QueueStays DEF Continues
<1>5. Syncing' = Syncing /\ p \in Syncing
  BY <1>2, ContinuesSyncing
<1>6. \A q \in Platforms : WantedNow(q)' = WantedNow(q)
  BY <1>3, ApiStaysWanted DEF WantedNow, SameWanted
<1>7. ASSUME NEW q \in Platforms \ {p} PROVE BuiltNow(q)' = BuiltNow(q)
  BY <1>3, <1>7, OnlyOwnWanted, SameNow
<1> QED BY <1>2, <1>3, <1>4, <1>5, <1>6, <1>7 DEF Register!Build, WantedNow, BuiltNow, Syncing

LEMMA FinishChange ==
    ASSUME TypeOK, HeldOnce, SyncInv, NEW w \in Workers, Finish(w),
           NEW p \in Platforms, p = job[w].key
    PROVE  Register!End(p)
<1>1. UNCHANGED <<apiVars, maps, up>> /\ ApiStays /\ job[w].pc \in {"done", "retry"} /\ Busy(w)
  BY DEF Finish, ApiStays, apiVars, Busy
<1>3. p \in Syncing /\ Syncing' = Syncing \ {p}
  BY FinishSyncing
<1>4. \A q \in Platforms : WantedNow(q)' = WantedNow(q) /\ BuiltNow(q)' = BuiltNow(q)
  BY <1>1, SameNow
<1>5. /\ PendingKeys' \in {PendingKeys, PendingKeys \cup {p}}
      /\ job[w].pc = "retry" => p \in PendingKeys'
  <2>1. CASE up
    BY <2>1, FinishPending
  <2>2. CASE ~up
    BY <1>1, <2>2, DownPending
  <2> QED BY <2>1, <2>2
<1>6. ASSUME BuiltNow(p) # WantedNow(p) PROVE p \in PendingKeys'
  <2>1. PlatformHere(p) /\ Live(maps[WantedMap(p).map]) # Wanted(p)
    BY <1>6 DEF BuiltNow, WantedNow
  <2>2. job[w].pc = "retry" \/ p \in PendingKeys
    BY <1>1, <2>1 DEF SyncInv, JobClaim
  <2> QED BY <1>5, <2>2
<1> QED BY <1>1, <1>3, <1>4, <1>5, <1>6 DEF Register!End, WantedNow, BuiltNow, Syncing

(* Init and every step are the reconciler's.                               *)
LEMMA InitChange == Init => Register!Init
<1> SUFFICES ASSUME Init PROVE Register!Init
  OBVIOUS
<1>1. up = TRUE /\ \A w \in Workers : ~Busy(w)
  BY DEF Init, Idle, Busy
<1>2. Syncing = {}
  BY <1>1 DEF Syncing
<1>3. \A p \in Platforms : BuiltNow(p) # WantedNow(p) => p \in PendingKeys
  BY InitPending DEF BuiltNow, WantedNow
<1> QED BY <1>1, <1>2, <1>3 DEF Register!Init, WantedNow, BuiltNow, Syncing

LEMMA KeyStep ==
    ASSUME NEW p \in Platforms, Register!Begin(p) \/ Register!Build(p) \/ Register!End(p)
    PROVE  Register!Next
BY DEF Register!Next

LEMMA NextChange ==
    ASSUME MapsAreApart, ConditionInv, ApartInv, SyncInv, [Next]_vars
    PROVE  [Register!Next]_(Register!vars)
<1>1. TypeOK /\ ControlOK /\ HeldOnce
  BY DEF ConditionInv, TypeOK
<1>2. CASE Others /\ ~Crash /\ ~Restart
  BY <1>2, OthersChange DEF Register!Next
<1>3. CASE Crash \/ Restart
  BY <1>1, <1>3, CrashChange, RestartChange DEF Register!Next
<1>4. ASSUME NEW w \in Workers, NEW p \in Ready(queue), Take(w, p)
      PROVE  [Register!Next]_(Register!vars)
  <2>1. p \in Platforms /\ Register!Begin(p)
    BY <1>1, <1>4, TakeChange
  <2>2. Register!Next
    BY <2>1, KeyStep
  <2> QED BY <2>2
<1>5. ASSUME NEW w \in Workers, MapSteps(w) PROVE [Register!Next]_(Register!vars)
  <2>1. PICK p \in Platforms : p = job[w].key
    BY <1>1, <1>5 DEF MapSteps, List, Look, CallApi, CallFails, ControlOK
  <2>2. Register!Build(p)
    BY <1>5, <2>1, MapsChange
  <2>3. Register!Next
    BY <2>2, KeyStep
  <2> QED BY <2>3
<1>6. ASSUME NEW w \in Workers, Finish(w) PROVE [Register!Next]_(Register!vars)
  <2>1. PICK p \in Platforms : p = job[w].key
    BY <1>1, <1>6 DEF Finish, ControlOK
  <2>2. Register!End(p)
    BY <1>1, <1>6, <2>1, FinishChange
  <2>3. Register!Next
    BY <2>2, KeyStep
  <2> QED BY <2>3
<1>7. ASSUME NEW w \in Workers, ResetStatus(w) \/ ResetFails(w) \/ UpdateStatus(w) \/ UpdateFails(w)
      PROVE  [Register!Next]_(Register!vars)
  BY <1>1, <1>7, StatusChange, NothingStep
<1>8. CASE UNCHANGED vars
  <2>1. UNCHANGED <<apiVars, maps, up, queue, job>> /\ ApiStays
    BY <1>8 DEF vars, ApiStays, apiVars
  <2>2. PendingKeys' = PendingKeys
    BY <2>1, QueueStays
  <2>3. Syncing' = Syncing
    BY <2>1 DEF Syncing, Busy
  <2>4. Nothing
    BY <2>1, <2>2, <2>3, SameNow DEF Nothing
  <2> QED BY <2>4, NothingStep
<1> QED BY <1>2, <1>3, <1>4, <1>5, <1>6, <1>7, <1>8 DEF Next, Others, Work, Fail, MapSteps

(* The controller implements the reconciler (runWorker, processNextWorkItem,*)
(* syncHandler, the event handlers): a platform whose ConfigMap is not what *)
(* the API server's tenants say is queued, under work, or about to be woken.*)
THEOREM PlatformReconciles ==
    ASSUME MapsAreApart PROVE Spec => ImplementsReconciler
BY InitChange, NextChange, MapsAreSynced, PTL DEF Spec, ImplementsReconciler, Register!Spec

(* ... and so the ConfigMap of every platform is right at rest.             *)
THEOREM PlatformMapsAreRight ==
    ASSUME MapsAreApart PROVE Spec => []PlatformMapsAreConsistent
<1>1. Register!Spec => []Register!Consistent
  BY Register!ReconciledAtRest
<1> QED BY <1>1, PlatformReconciles, PTL DEF ImplementsReconciler, PlatformMapsAreConsistent
-----------------------------------------------------------------------------
(* The domains of a platform that is not to hear of one *)

\* No event of a domain of platform p is to come, ...
DomainsCalm(p) ==
    \A d \in Domains : \A c \in Events(domains[d]) : p \notin OnReference(c[1], c[2])

\* ... nor any other, nor is it queued.
AllCalm(p) == p \notin PendingKeys /\ DomainsCalm(p)

\* Platform p has the domains it had before.
SameDomains(p) == /\ Of(p, LiveDomains') = Of(p, LiveDomains)
                  /\ \A d \in Of(p, LiveDomains) : LiveDomains'[d] = LiveDomains[d]

(* ... if each domain stays as it was, or is of others before and after.   *)
LEMMA SameDomainsBy ==
    ASSUME NEW p \in Platforms,
           \A d \in Domains : \/ Live(domains'[d]) = Live(domains[d])
                              \/ p \notin OnReference(Live(domains[d]), Live(domains'[d]))
    PROVE  SameDomains(p)
<1>1. LiveDomains = [d \in Domains |-> Live(domains[d])] /\ LiveDomains' = [d \in Domains |-> Live(domains'[d])]
  BY DEF LiveDomains
<1> DEFINE ds == LiveDomains
           es == LiveDomains'
<1>2. DOMAIN ds = Domains /\ DOMAIN es = Domains
  BY <1>1
<1>3. ASSUME NEW d \in Domains
      PROVE  \/ es[d] = ds[d]
             \/ /\ ~(ds[d] # Absent /\ ds[d].platform = p)
                /\ ~(es[d] # Absent /\ es[d].platform = p)
  BY <1>1 DEF OnReference
<1> HIDE DEF ds, es
<1>4. Of(p, es) = Of(p, ds) /\ \A d \in Of(p, ds) : es[d] = ds[d]
  BY <1>2, <1>3 DEF Of
<1> QED BY <1>4 DEF SameDomains, ds, es

(* A step that leaves a platform neither pending nor with an event of a     *)
(* domain to come has not changed its domains.                             *)
LEMMA DomainsBefore ==
    ASSUME ViewsOK, [Next]_vars, ~Crash, up, up', queue \in QueueOver(Platforms),
           NEW p \in Platforms, AllCalm(p)'
    PROVE  DomainsCalm(p) /\ SameDomains(p)
<1>1. /\ domains \in [Domains -> ViewOf(DomainSpec \cup {Absent})]
      /\ \A d \in Domains : WellFormed(domains[d])
  BY DEF ViewsOK
<1>2. \A d \in Domains : \A c \in Events(domains'[d]) : p \notin OnReference(c[1], c[2])
  BY DEF AllCalm, DomainsCalm
<1>3. p \notin queue'.dirty
  <2>1. PendingIs'
    BY PendingIsThis, PTL
  <2> QED BY <2>1 DEF PendingIs, AllCalm
<1>4. CASE UNCHANGED domains
  <2>1. DomainsCalm(p)
    BY <1>2, <1>4 DEF DomainsCalm
  <2> QED BY <1>4, <2>1, SameDomainsBy
<1>5. ASSUME NEW d \in Domains, NEW view, domains' = [domains EXCEPT ![d] = view],
             \A c \in Events(domains[d]) : c \in Events(view) \/ p \notin OnReference(c[1], c[2]),
             Live(view) = Live(domains[d]) \/ <<Live(domains[d]), Live(view)>> \in Events(view)
      PROVE  DomainsCalm(p) /\ SameDomains(p)
  <2>1. domains'[d] = view /\ \A e \in Domains \ {d} : domains'[e] = domains[e]
    BY <1>1, <1>5
  <2>2. DomainsCalm(p)
    BY <1>2, <1>5, <2>1 DEF DomainsCalm
  <2>3. \/ Live(domains'[d]) = Live(domains[d])
        \/ p \notin OnReference(Live(domains[d]), Live(domains'[d]))
    BY <1>2, <1>5, <2>1
  <2>4. \A e \in Domains : \/ Live(domains'[e]) = Live(domains[e])
                           \/ p \notin OnReference(Live(domains[e]), Live(domains'[e]))
    BY <2>1, <2>3
  <2> QED BY <2>2, <2>4, SameDomainsBy
<1>6. ASSUME NEW d \in Domains, NEW v \in DomainVals[d] \cup {Absent}, EditDomain(d, v)
      PROVE  DomainsCalm(p) /\ SameDomains(p)
  <2> DEFINE view == Written(domains[d], v)
  <2>1. domains' = [domains EXCEPT ![d] = view]
    BY <1>1, <1>6 DEF EditDomain, Write
  <2>2. v \in DomainSpec \cup {Absent}
    BY VersionsAreSpecs
  <2>3. Events(view) = Events(domains[d]) \cup {<<Live(domains[d]), v>>} /\ Live(view) = v
    BY <1>1, <2>2, ChangesOfViews, WrittenLog DEF Live
  <2> HIDE DEF view
  <2> QED BY <1>5, <2>1, <2>3
<1>7. ASSUME NEW d \in Domains, ObserveDomain(d)
      PROVE  DomainsCalm(p) /\ SameDomains(p)
  <2> DEFINE view == Observed(domains[d])
  <2>1. domains' = [domains EXCEPT ![d] = view] /\ CanObserve(domains[d])
    BY <1>1, <1>7 DEF ObserveDomain
  <2>2. Events(view) = Events(domains[d]) /\ Live(view) = Live(domains[d])
    BY <1>1, <2>1, ChangesOfViews, ObservedView
  <2> HIDE DEF view
  <2> QED BY <1>5, <2>1, <2>2
<1>8. ASSUME NEW d \in Domains, HandleDomain(d)
      PROVE  DomainsCalm(p) /\ SameDomains(p)
  <2> DEFINE view == Notified(domains[d])
             old == OldVersion(domains[d])
             new == NewVersion(domains[d])
  <2>1. /\ domains' = [domains EXCEPT ![d] = view] /\ CanNotify(domains[d])
        /\ queue' = AddAll(queue, OnReference(old, new))
    BY <1>1, <1>8 DEF HandleDomain
  <2>2. Events(domains[d]) = {<<old, new>>} \cup Events(view) /\ Live(view) = Live(domains[d])
    BY <1>1, <2>1, ChangesOfViews, NotifiedView
  <2>3. p \notin OnReference(old, new)
    BY <1>3, <2>1 DEF AddAll, QueueOver
  <2> HIDE DEF view, old, new
  <2>4. ASSUME NEW c \in Events(domains[d])
        PROVE  c \in Events(view) \/ p \notin OnReference(c[1], c[2])
    <3>1. CASE c = <<old, new>>
      <4>1. c[1] = old /\ c[2] = new
        BY <3>1
      <4> QED BY <2>3, <4>1
    <3> QED BY <2>2, <3>1
  <2> QED BY <1>5, <2>1, <2>2, <2>4
<1>9. CASE UNCHANGED vars \/ Restart \/ Handle \/ Observe \/ Edit
  <2>1. CASE UNCHANGED vars
    BY <1>4, <2>1 DEF vars, apiVars
  <2>2. CASE Restart
    BY <2>2 DEF Restart
  <2>3. CASE Handle
    BY <1>4, <1>8, <2>3 DEF Handle, HandlePlatform, HandleTenant
  <2>4. CASE Observe
    BY <1>4, <1>7, <2>4 DEF Observe, ObservePlatform, ObserveTenant, ObserveMap, apiVars
  <2>5. CASE Edit
    BY <1>4, <1>6, <2>5 DEF Edit, EditTenant, EditService, EditPlatform, CreatePlatform, DeletePlatform,
       WritePlatform, apiVars
  <2> QED BY <1>9, <2>1, <2>2, <2>3, <2>4, <2>5
<1>10. CASE (\E m \in Maps : Collect(m)) \/ (\E q \in queue.delayed : Retry(q))
  BY <1>4, <1>10 DEF Collect, Retry, apiVars
<1>11. ASSUME NEW w \in Workers, Work(w) \/ Fail(w) \/ \E q \in Ready(queue) : Take(w, q)
       PROVE  UNCHANGED domains
  BY <1>11 DEF Work, Fail, Take, ResetStatus, List, Look, CallApi, UpdateStatus, Finish, ResetFails,
     CallFails, UpdateFails, apiVars
<1> QED BY <1>4, <1>9, <1>10, <1>11 DEF Next

(* The stores have of a calm platform's domains what the API server has.    *)
LEMMA ListedDomains ==
    ASSUME ViewsOK, NEW p \in Platforms, DomainsCalm(p)
    PROVE  /\ Of(p, CachedDomains) = Of(p, LiveDomains)
           /\ \A d \in Of(p, LiveDomains) : CachedDomains[d] = LiveDomains[d]
<1> DEFINE cs == CachedDomains
           ls == LiveDomains
<1>1. cs = [d \in Domains |-> Cached(domains[d])] /\ ls = [d \in Domains |-> Live(domains[d])]
  BY DEF CachedDomains, LiveDomains
<1>2. ASSUME NEW d \in Domains, cs[d] # ls[d]
      PROVE  /\ ~(cs[d] # Absent /\ cs[d].platform = p)
             /\ ~(ls[d] # Absent /\ ls[d].platform = p)
  <2>1. /\ domains[d] \in ViewOf(DomainSpec \cup {Absent}) /\ WellFormed(domains[d])
        /\ Cached(domains[d]) # Live(domains[d])
    BY <1>1, <1>2 DEF ViewsOK
  <2>2. /\ \E c \in Events(domains[d]) : c[1] = Cached(domains[d]) /\ c[1] # c[2]
        /\ \E c \in Events(domains[d]) : c[2] = Live(domains[d])
    BY <2>1, ChangesOfTheStore
  <2>3. \A c \in Events(domains[d]) : /\ ~(c[1] # Absent /\ c[1].platform = p)
                                      /\ ~(c[2] # Absent /\ c[2].platform = p)
    BY DEF DomainsCalm, OnReference
  <2> QED BY <1>1, <2>2, <2>3
<1>3. DOMAIN cs = Domains /\ DOMAIN ls = Domains
  BY <1>1
<1> HIDE DEF cs, ls
<1>4. Of(p, cs) = Of(p, ls) /\ \A d \in Of(p, ls) : cs[d] = ls[d]
  BY <1>2, <1>3 DEF Of
<1> QED BY <1>4 DEF cs, ls
-----------------------------------------------------------------------------
(* The worker at the ConfigMaps while no call fails *)

(* A call that fails is remembered.                                        *)
LEMMA NoFailureYet ==
    ASSUME TypeOK, [Next]_vars, spent'.failures = 0
    PROVE  spent.failures = 0 /\ \A w \in Workers : ~CallFails(w)
<1>1. /\ spent \in [edits : 0 .. MaxEdits, failures : 0 .. MaxFailures, crashes : 0 .. MaxCrashes]
      /\ MaxFailures \in Nat
  BY BoundsAssumption DEF TypeOK, StatusOK
<1>2. ~Spend("failures")
  BY <1>1 DEF Spend
<1>3. \A w \in Workers : ~CallFails(w)
  BY <1>2 DEF CallFails
<1>4. ASSUME NEW x \in {"edits", "crashes"}, Spend(x) PROVE spent.failures = 0
  BY <1>1, <1>4 DEF Spend
<1>5. UNCHANGED spent \/ Spend("edits") \/ Spend("crashes") \/ Spend("failures")
  <2>1. CASE Edit
    BY <2>1 DEF Edit, EditTenant, EditDomain, EditService, EditPlatform, CreatePlatform,
       DeletePlatform, WritePlatform
  <2>2. CASE Observe \/ Handle
    BY <2>2 DEF Observe, ObservePlatform, ObserveTenant, ObserveDomain, ObserveMap, Handle,
       HandlePlatform, HandleTenant, HandleDomain
  <2>3. CASE Crash \/ Restart \/ (\E m \in Maps : Collect(m)) \/ (\E q \in queue.delayed : Retry(q))
    BY <2>3 DEF Crash, Restart, Collect, Retry
  <2>4. ASSUME NEW w \in Workers, Work(w) \/ Fail(w) \/ \E q \in Ready(queue) : Take(w, q)
        PROVE  UNCHANGED spent \/ Spend("failures")
    BY <2>4 DEF Work, Fail, Take, ResetStatus, List, Look, CallApi, UpdateStatus, Finish, ResetFails,
       CallFails, UpdateFails
  <2>5. CASE UNCHANGED vars
    BY <2>5 DEF vars
  <2> QED BY <2>1, <2>2, <2>3, <2>4, <2>5 DEF Next
<1> QED BY <1>2, <1>3, <1>4, <1>5

\* The worker stays at the ConfigMap it is at.
Keeps(w) == job'[w].now = job[w].now /\ job'[w].left = job[w].left

\* On to the next domain, or to the end.
Goes(w) ==
    \/ job[w].left = {} /\ job'[w].pc = "succeed" /\ job'[w].left = {}
    \/ /\ job'[w].pc = "look" /\ job'[w].now \in job[w].left
       /\ job'[w].left = job[w].left \ {job'[w].now}

Stored(w) == Live(maps[job[w].now.map])

\* Worker w looks at its ConfigMap and finds that it is to write, ...
Seeks(w) ==
    /\ job[w].pc = "look" /\ UNCHANGED maps /\ Keeps(w)
    /\ \/ job'[w].pc = "create" /\ Stored(w) = Absent
       \/ job'[w].pc = "delete"

\* ... or finds, then or in its call, that there is nothing for it to do; ...
Leaves(w) ==
    /\ UNCHANGED maps /\ Stored(w) # Absent
    /\ \/ /\ job[w].pc = "look" /\ Goes(w)
          /\ Controlled(Stored(w), job[w].key, job[w].platform) => SameData(Stored(w), job[w].now)
       \/ job[w].pc \in {"create", "recreate"} /\ Goes(w)
       \/ job[w].pc \in {"create", "recreate"} /\ job[w].now.strict /\ job'[w].pc = "fail"

\* ... it creates the ConfigMap, ...
Puts(w) ==
    /\ job[w].pc \in {"create", "recreate"} /\ Stored(w) = Absent
    /\ WriteMap(job[w].now.map, Desired(job[w]))
    /\ Goes(w) \/ (Keeps(w) /\ job'[w].pc = "delete")

\* ... or deletes it.
Removes(w) ==
    /\ job[w].pc = "delete" /\ Keeps(w) /\ job'[w].pc = "recreate"
    /\ WriteMap(job[w].now.map, Absent)

(* On to the next domain (the loop of syncHandler).                        *)
LEMMA AdvanceGoes ==
    ASSUME ControlOK, NEW w \in Workers, Advance(w)
    PROVE  Goes(w)
<1>1. job[w] \in Jobs /\ w \in DOMAIN job
  BY DEF ControlOK
<1>2. CASE job[w].left = {} /\ job' = [job EXCEPT ![w].pc = "succeed", ![w].now = NoWrite]
  <2>1. job'[w].pc = "succeed" /\ job'[w].left = job[w].left
    BY <1>1, <1>2 DEF Jobs
  <2> QED BY <1>2, <2>1 DEF Goes
<1>3. ASSUME NEW d \in job[w].left,
             job' = [job EXCEPT ![w].pc = "look", ![w].now = d, ![w].left = @ \ {d}]
      PROVE  Goes(w)
  <2>1. job'[w].pc = "look" /\ job'[w].now = d /\ job'[w].left = job[w].left \ {d}
    BY <1>1, <1>3 DEF Jobs
  <2> QED BY <2>1 DEF Goes
<1> QED BY <1>2, <1>3 DEF Advance

(* While no call fails, each step at the ConfigMaps is one of these.       *)
LEMMA MapMoves ==
    ASSUME TypeOK, OwnMapsInv, NEW w \in Workers, MapSteps(w), ~CallFails(w)
    PROVE  Lists(w) \/ Seeks(w) \/ Leaves(w) \/ Puts(w) \/ Removes(w)
<1>1. ViewsOK /\ ControlOK /\ job[w] \in Jobs /\ w \in DOMAIN job
  BY DEF TypeOK, ControlOK
<1>2. ASSUME job[w].pc \in AtMap
      PROVE  job[w].now.map \in Maps /\ Cached(maps[job[w].now.map]) = Stored(w)
  <2>1. job[w].now.map \in Maps
    BY <1>1, <1>2 DEF AtMap, ControlOK, Jobs, Writes
  <2> QED BY <1>1, <2>1 DEF OwnMapsInv, UpToDate, Cached, Live, ViewsOK, WellFormed, Stored
<1>3. CASE List(w)
  <2> DEFINE now  == PlatformWrite(job[w].key, job[w].platform, CachedTenants)
             left == DomainWrites(job[w].key, CachedTenants, CachedDomains)
  <2>1. job[w].pc = "list" /\ UNCHANGED maps
        /\ job' = [job EXCEPT ![w].pc = "look", ![w].now = now, ![w].left = left]
    BY <1>3 DEF List
  <2> HIDE DEF now, left
  <2>2. job'[w].pc = "look" /\ job'[w].now = now /\ job'[w].left = left
    BY <1>1, <2>1 DEF Jobs
  <2> QED BY <2>1, <2>2 DEF Lists, now, left
<1>4. CASE Look(w)
  <2>1. job[w].pc = "look" /\ job[w].pc \in AtMap /\ UNCHANGED maps
    BY <1>4 DEF Look, AtMap
  <2>2. Cached(maps[job[w].now.map]) = Stored(w)
    BY <1>2, <2>1
  <2>3. CASE Stored(w) = Absent /\ job' = [job EXCEPT ![w].pc = "create"]
    BY <1>1, <2>1, <2>3, PcEffect DEF Seeks, Keeps
  <2>4. CASE job' = [job EXCEPT ![w].pc = "delete"]
    BY <1>1, <2>1, <2>4, PcEffect DEF Seeks, Keeps
  <2>5. CASE /\ Stored(w) # Absent /\ Advance(w)
             /\ Controlled(Stored(w), job[w].key, job[w].platform) => SameData(Stored(w), job[w].now)
    BY <1>1, <2>1, <2>5, AdvanceGoes DEF Leaves
  <2> QED BY <1>4, <2>2, <2>3, <2>4, <2>5 DEF Look
<1>5. CASE CallApi(w)
  <2>1. job[w].pc \in {"create", "delete", "recreate"} /\ job[w].pc \in AtMap
    BY <1>5 DEF CallApi, AtMap
  <2>2. job[w].pc = "delete" => Stored(w) # Absent
    BY DEF OwnMapsInv, OwnMap, Stored
  <2>3. CASE ~CallPossible(job[w]) /\ CallFailed(w) /\ UNCHANGED maps
    <3>1. Stored(w) # Absent /\ job[w].pc \in {"create", "recreate"}
      BY <2>1, <2>2, <2>3 DEF CallPossible, Stored
    <3>2. CASE job[w].now.strict /\ job' = [job EXCEPT ![w].pc = "fail"]
      BY <1>1, <2>3, <3>1, <3>2, PcEffect DEF Leaves
    <3>3. CASE Advance(w)
      BY <1>1, <2>3, <3>1, <3>3, AdvanceGoes DEF Leaves
    <3> QED BY <2>3, <3>2, <3>3 DEF CallFailed
  <2>4. CASE CallPossible(job[w]) /\ CallDone(job[w]) /\ job[w].pc = "delete"
    <3>1. job' = [job EXCEPT ![w].pc = "recreate"]
      BY <1>5, <2>4 DEF CallApi, CallPossible
    <3>2. WriteMap(job[w].now.map, Absent)
      BY <2>4 DEF CallDone
    <3> QED BY <1>1, <2>4, <3>1, <3>2, PcEffect DEF Removes, Keeps
  <2>5. CASE CallPossible(job[w]) /\ CallDone(job[w]) /\ job[w].pc # "delete"
    <3>1. Stored(w) = Absent /\ WriteMap(job[w].now.map, Desired(job[w]))
      BY <2>1, <2>5 DEF CallPossible, CallDone, Stored
    <3>2. CASE job' = [job EXCEPT ![w].pc = "delete"]
      BY <1>1, <2>1, <2>5, <3>1, <3>2, PcEffect DEF Puts, Keeps
    <3>3. CASE Advance(w)
      BY <1>1, <2>1, <2>5, <3>1, <3>3, AdvanceGoes DEF Puts
    <3>4. (job' = [job EXCEPT ![w].pc = "delete"]) \/ Advance(w)
      BY <1>5, <2>5, <3>1 DEF CallApi, CallPossible, Stored
    <3> QED BY <3>2, <3>3, <3>4
  <2> QED BY <1>5, <2>3, <2>4, <2>5 DEF CallApi
<1> QED BY <1>3, <1>4, <1>5 DEF MapSteps
-----------------------------------------------------------------------------
(* Domains' ConfigMaps of platforms that stay *)

\* What the theorem assumes of the constants.
DomainsAreApart == MapsAreApart /\ ~PlatformsMayChange

AskedOf(p, d) == DomainWrite(p, LiveTenants, d, LiveDomains[d])

\* The ConfigMap of domain d is right for platform p: it is what p wants, or is
\* somebody else's, or about to be somebody else's again.
IsRight(p, d) ==
    LET map == Live(maps[d])
    IN  \/ map = WantedOf(p, d)
        \/ map # Absent /\ map.owner[1] # p
        \/ /\ map = Absent
           /\ \E w \in Workers : job[w].pc = "recreate" /\ job[w].now.map = d /\ job[w].key # p

\* Nobody but the worker about to create it makes the ConfigMap its platform's.
CreatedOnce ==
    \A w \in Workers : job[w].pc \in {"create", "recreate"} =>
        Stored(w) = Absent \/ Stored(w).owner[1] # job[w].key

NoOrphans == \A m \in Maps : Live(maps[m]) # Absent => ~Orphan(Live(maps[m]))

\* The ConfigMaps of domains worker w has still to see to.
Ahead(w) ==
    IF job[w].pc \notin AtMap THEN {}
    ELSE {l.map : l \in job[w].left} \cup (IF job[w].now.strict THEN {} ELSE {job[w].now.map})

\* A worker on a platform nothing will wake has its platform's domains ahead as
\* wanted, and leaves their ConfigMaps right behind it.
DomainClaim(w, p) ==
    LET j == job[w]
        ds == Of(p, LiveDomains)
    IN  /\ j.pc \in AtMap =>
              /\ \A l \in j.left : l.map \in ds /\ l = AskedOf(p, l.map)
              /\ ~j.now.strict => j.now.map \in ds /\ j.now = AskedOf(p, j.now.map)
        /\ j.pc \in AtMap \cup {"succeed", "done"} =>
              \A d \in ds : d \in Ahead(w) \/ IsRight(p, d)

Held(p) == \E w \in Workers : Busy(w) /\ job[w].key = p

\* ... as they are when it is gone.
DomainSync ==
    spent.failures = 0 =>
        \A p \in Platforms : AllCalm(p) /\ PlatformHere(p) =>
            /\ \A w \in Workers : Busy(w) /\ job[w].key = p => DomainClaim(w, p)
            /\ ~Held(p) => \A d \in Of(p, LiveDomains) : IsRight(p, d)

DomainInv == OwnMapsInv /\ NoOrphans /\ CreatedOnce /\ DomainSync

(* What the invariants say together.                                       *)
LEMMA DomainHyps ==
    ASSUME DomainsAreApart, ConditionInv, ApartInv, DomainInv
    PROVE  /\ MapsAreApart /\ MapsAreSeen /\ ~ConfigMapsLag
           /\ TypeOK /\ ViewsOK /\ ControlOK /\ VersionsArePast /\ HeldOnce
           /\ MapsKeepUp /\ WritesAreApart /\ OwnersInv /\ UidsInv
           /\ OwnMapsInv /\ NoOrphans /\ CreatedOnce
BY DEF DomainsAreApart, MapsAreApart, MapsAreSeen, ConditionInv, TypeOK, ApartInv, OwnersInv,
   MapsKeepUp, DomainInv

(* Nobody but the workers at the ConfigMaps changes them: none is an orphan.*)
LEMMA NothingCollected ==
    ASSUME DomainsAreApart, ConditionInv, ApartInv, DomainInv, Elsewhere, NEW m \in Maps
    PROVE  Live(maps'[m]) = Live(maps[m])
<1>1. MapsAreSeen /\ OwnMapsInv /\ NoOrphans
  BY DomainHyps
<1>2. \A n \in Maps : ~Collect(n)
  BY <1>1 DEF NoOrphans, Collect
<1> QED BY <1>1, <1>2, ElsewhereMaps

(* While platforms stay, the owner a ConfigMap names is there.             *)
LEMMA OrphansStep ==
    ASSUME DomainsAreApart, ConditionInv, ApartInv, DomainInv, [Next]_vars
    PROVE  NoOrphans'
<1>1. /\ MapsAreSeen /\ TypeOK /\ ViewsOK /\ ControlOK /\ MapsKeepUp /\ OwnMapsInv /\ NoOrphans
  BY DomainHyps
<1> SUFFICES ASSUME NEW m \in Maps, Live(maps'[m]) # Absent
             PROVE  LET map == Live(maps'[m])
                        platform == Live(platforms'[map.owner[1]])
                    IN  platform # Absent /\ Controlled(map, map.owner[1], platform)
  BY DEF NoOrphans, Orphan
<1>2. CASE Live(maps'[m]) = Live(maps[m])
  <2> DEFINE map == Live(maps[m])
  <2>1. ~Orphan(map) /\ map \in ConfigMaps
    BY <1>1, <1>2, ReadTypes DEF NoOrphans
  <2>2. map.owner[1] \in Platforms
    BY <2>1 DEF ConfigMaps
  <2>3. Live(platforms'[map.owner[1]]) = Live(platforms[map.owner[1]])
    BY <1>1, <2>2, PlatformsStay
  <2>4. Live(maps'[m]) = map
    BY <1>2
  <2> HIDE DEF map
  <2> QED BY <2>1, <2>3, <2>4 DEF Orphan
<1>3. ASSUME NEW w \in Workers, MapSteps(w), Live(maps'[m]) # Live(maps[m])
      PROVE  LET map == Live(maps'[m])
                 platform == Live(platforms'[map.owner[1]])
             IN  platform # Absent /\ Controlled(map, map.owner[1], platform)
  <2>1. job[w].pc \in AtMap /\ Live(maps'[m]) = Desired(job[w])
    BY <1>1, <1>3, MapWritten
  <2>2. job[w].pc \in Unready /\ job[w].key \in Platforms
    BY <1>1, <2>1 DEF AtMap, Unready, ControlOK
  <2>3. job[w].platform # Absent /\ job[w].platform = Live(platforms[job[w].key])
    BY <1>1, <2>2 DEF OwnMapsInv, ControlOK
  <2>4. Live(platforms'[job[w].key]) = job[w].platform
    BY <1>1, <2>2, <2>3, PlatformsStay
  <2>5. Desired(job[w]).owner = <<job[w].key, job[w].platform.uid>>
    BY DEF Desired, Owner
  <2>6. Desired(job[w]).owner[1] = job[w].key
    BY <2>5
  <2> QED BY <2>1, <2>3, <2>4, <2>5, <2>6 DEF Controlled, Owner
<1> QED BY <1>2, <1>3, NothingCollected, StepsAreThese

(* ... and only a crash takes another's worker from its ConfigMap.         *)
LEMMA AtMapStays ==
    ASSUME ControlOK, Elsewhere, ~Crash, NEW w \in Workers, job[w].pc \in AtMap
    PROVE  job'[w] = job[w]
<1>1. CASE Others \/ UNCHANGED vars
  BY <1>1 DEF vars, Others, Edit, EditTenant, EditDomain, EditService, EditPlatform,
     CreatePlatform, DeletePlatform, WritePlatform, Observe, ObservePlatform, ObserveTenant,
     ObserveDomain, ObserveMap, Handle, HandlePlatform, HandleTenant, HandleDomain, Restart,
     Collect, Retry
<1>2. ASSUME NEW v \in Workers, Around(v) PROVE job'[w] = job[w]
  <2>1. v # w
    BY <1>2 DEF Around, Finish, Take, ResetStatus, ResetFails, UpdateStatus, UpdateFails, AtMap
  <2>2. CASE ResetStatus(v) \/ ResetFails(v) \/ UpdateStatus(v) \/ UpdateFails(v)
    BY <2>1, <2>2, StatusEffect DEF Resets, Ends, Continues
  <2>3. CASE Finish(v) \/ \E p \in Ready(queue) : Take(v, p)
    BY <2>1, <2>3 DEF Finish, Take, ControlOK
  <2> QED BY <1>2, <2>2, <2>3 DEF Around
<1> QED BY <1>1, <1>2 DEF Elsewhere

(* What a worker at a ConfigMap would write is its platform's.             *)
LEMMA DesiredTypes ==
    ASSUME ControlOK, NEW w \in Workers, job[w].pc \in AtMap
    PROVE  /\ job[w].now \in Writes /\ job[w].now.map \in Maps /\ job[w].key \in Platforms
           /\ Desired(job[w]) \in ConfigMaps /\ Desired(job[w]) # Absent
           /\ Desired(job[w]).owner[1] = job[w].key
<1>1. /\ job[w].key \in Platforms /\ job[w].platform \in PlatformVersions
      /\ job[w].now \in Writes
  BY DEF AtMap, ControlOK, Jobs, Unready
<1>2. job[w].now.data \in SUBSET Entries /\ job[w].now.map \in Maps
  BY <1>1 DEF Writes
<1>3. Owner(job[w].key, job[w].platform) \in Platforms \X (0 .. MaxEdits)
      /\ Owner(job[w].key, job[w].platform)[1] = job[w].key
  BY <1>1 DEF Owner, PlatformVersions
<1>4. Desired(job[w]) \in ConfigMaps /\ Desired(job[w]).owner[1] = job[w].key
  BY <1>2, <1>3 DEF Desired, ConfigMaps
<1> QED BY <1>1, <1>2, <1>4, VersionsAreSpecs

(* A domain's ConfigMap has the domain's name.                             *)
LEMMA DomainsAreMaps == Domains \subseteq Maps /\ \A d \in Domains : d[2] \in DomainNames
BY ValuesAssumption DEF Maps

(* Another worker's writes are another platform's (HeldOnce).              *)
LEMMA CreatedStep ==
    ASSUME DomainsAreApart, ConditionInv, ApartInv, DomainInv, [Next]_vars
    PROVE  CreatedOnce'
<1>1. TypeOK /\ ViewsOK /\ ControlOK /\ MapsKeepUp /\ OwnMapsInv /\ CreatedOnce /\ HeldOnce
      /\ ~ConfigMapsLag
  BY DomainHyps
<1> SUFFICES ASSUME NEW v \in Workers, job'[v].pc \in {"create", "recreate"}
             PROVE  LET map == Live(maps'[job'[v].now.map])
                    IN  map = Absent \/ map.owner[1] # job'[v].key
  BY DEF CreatedOnce, Stored
<1>2. job'[v].pc \in AtMap
  BY DEF AtMap
<1>3. ASSUME job'[v] = job[v], Live(maps'[job[v].now.map]) = Live(maps[job[v].now.map])
      PROVE  LET map == Live(maps'[job'[v].now.map])
             IN  map = Absent \/ map.owner[1] # job'[v].key
  BY <1>1, <1>3 DEF CreatedOnce, Stored
<1>4. ASSUME job'[v] = job[v] PROVE job[v].pc \in AtMap /\ job[v].now.map \in Maps
  BY <1>1, <1>2, <1>4, DesiredTypes
<1>5. CASE Elsewhere
  <2>1. job'[v] = job[v]
    BY <1>1, <1>2, <1>5, ElsewhereJob
  <2> QED BY <1>3, <1>4, <1>5, <2>1, NothingCollected
<1>6. ASSUME NEW w \in Workers, MapSteps(w), w # v
      PROVE  LET map == Live(maps'[job'[v].now.map])
             IN  map = Absent \/ map.owner[1] # job'[v].key
  <2>1. job'[v] = job[v]
    BY <1>1, <1>6, MapsEffect DEF MapSteps, Stays, Continues
  <2> DEFINE m == job[v].now.map
  <2>2. CASE maps'[m] = maps[m]
    BY <1>3, <2>1, <2>2
  <2>3. CASE maps'[m] # maps[m]
    <3>1. job[w].pc \in AtMap /\ Live(maps'[m]) \in {Absent, Desired(job[w])}
      BY <1>1, <1>4, <1>6, <2>1, <2>3, MapWritten
    <3>2. Desired(job[w]).owner[1] = job[w].key
      BY <1>1, <3>1, DesiredTypes
    <3>3. job[w].key # job[v].key
      BY <1>1, <1>4, <1>6, <2>1, <3>1 DEF HeldOnce, Busy, AtMap
    <3> QED BY <2>1, <3>1, <3>2, <3>3
  <2> QED BY <2>2, <2>3
<1>7. CASE MapSteps(v)
  <2>1. ~CallFails(v)
    <3>1. ASSUME CallFailed(v) PROVE job'[v].pc \in {"fail", "succeed", "look"}
      BY <1>1, <3>1, AdvanceEffect, PcEffect DEF CallFailed
    <3> QED BY <3>1 DEF CallFails
  <2>2. Seeks(v) \/ Removes(v)
    <3>1. Lists(v) \/ Seeks(v) \/ Leaves(v) \/ Puts(v) \/ Removes(v)
      BY <1>1, <1>7, <2>1, MapMoves
    <3> QED BY <3>1 DEF Lists, Leaves, Puts, Goes
  <2>3. job[v].pc \in AtMap /\ job'[v].now = job[v].now
    BY <2>2 DEF Seeks, Removes, Keeps, AtMap
  <2>4. job[v].now.map \in Maps
    BY <1>1, <2>3, DesiredTypes
  <2>5. Live(maps'[job[v].now.map]) = Absent
    <3>1. CASE Seeks(v)
      BY <3>1 DEF Seeks, Stored
    <3>2. CASE Removes(v)
      BY <1>1, <2>4, <3>2, WriteKeepsUp DEF Removes
    <3> QED BY <2>2, <3>1, <3>2
  <2> QED BY <2>3, <2>5
<1> QED BY <1>5, <1>6, <1>7, StepsAreThese

(* Only the worker at it makes a right ConfigMap of a platform wrong.      *)
LEMMA RightStays ==
    ASSUME DomainsAreApart, ConditionInv, ApartInv, DomainInv, [Next]_vars, ~Crash,
           \A w \in Workers : ~CallFails(w),
           NEW p \in Platforms, NEW d \in Domains, WantedOf(p, d)' = WantedOf(p, d),
           IsRight(p, d),
           \A w \in Workers : MapSteps(w) =>
               job[w].key # p \/ job[w].pc \notin AtMap \/ job[w].now.map # d
    PROVE  IsRight(p, d)'
<1>1. TypeOK /\ ViewsOK /\ ControlOK /\ MapsKeepUp /\ OwnMapsInv /\ ~ConfigMapsLag
  BY DomainHyps
<1>2. d \in Maps
  BY DomainsAreMaps
<1> DEFINE map == Live(maps[d])
<1>3. ASSUME map = Absent, Live(maps'[d]) = Absent,
             NEW u \in Workers, job[u].pc = "recreate", job[u].now.map = d, job[u].key # p,
             job'[u] = job[u]
      PROVE  IsRight(p, d)'
  BY <1>3 DEF IsRight
<1>4. CASE Elsewhere
  <2>1. Live(maps'[d]) = map
    BY <1>2, <1>4, NothingCollected
  <2>2. ASSUME NEW u \in Workers, job[u].pc = "recreate" PROVE job'[u] = job[u]
    BY <1>1, <1>4, <2>2, AtMapStays DEF AtMap
  <2> QED BY <1>3, <2>1, <2>2 DEF IsRight
<1>5. ASSUME NEW w \in Workers, MapSteps(w) PROVE IsRight(p, d)'
  <2>1. Lists(w) \/ Seeks(w) \/ Leaves(w) \/ Puts(w) \/ Removes(w)
    BY <1>1, <1>5, MapMoves
  <2>2. /\ \A u \in Workers \ {w} : job'[u] = job[u]
        /\ job'[w].key = job[w].key
    BY <1>1, <1>5, MapsEffect DEF MapSteps, Stays, Continues
  <2>3. ASSUME maps'[d] # maps[d]
        PROVE  /\ job[w].pc \in AtMap /\ job[w].now.map = d /\ job[w].key # p
               /\ Puts(w) \/ Removes(w)
    <3>1. job[w].pc \in AtMap /\ job[w].now.map = d /\ job[w].key # p
      BY <1>1, <1>2, <1>5, <2>3, MapWritten
    <3> QED BY <2>1, <2>3, <3>1 DEF Lists, Seeks, Leaves
  <2>4. ASSUME job[w].pc \in AtMap, job[w].now.map = d, job[w].key # p, Puts(w)
        PROVE  map = Absent /\ IsRight(p, d)'
    <3>1. Live(maps'[d]) = Desired(job[w]) /\ map = Absent
      BY <1>1, <1>2, <2>4, WriteKeepsUp DEF Puts, Stored
    <3>2. Desired(job[w]) # Absent /\ Desired(job[w]).owner[1] = job[w].key
      BY <1>1, <2>4, DesiredTypes
    <3> QED BY <2>4, <3>1, <3>2 DEF IsRight
  <2>5. ASSUME job[w].pc \in AtMap, job[w].now.map = d, job[w].key # p, Removes(w)
        PROVE  map # Absent /\ map.owner[1] # p /\ IsRight(p, d)'
    <3>1. OwnMap(d, job[w].key, job[w].platform)
      BY <1>1, <2>5 DEF OwnMapsInv, Removes
    <3>2. map # Absent /\ map.owner[1] # p
      BY <2>5, <3>1 DEF OwnMap, Controlled, Owner
    <3>3. Live(maps'[d]) = Absent
      BY <1>1, <1>2, <2>5, WriteKeepsUp DEF Removes
    <3>4. job'[w].pc = "recreate" /\ job'[w].now.map = d /\ job'[w].key # p
      BY <2>2, <2>5 DEF Removes, Keeps
    <3> QED BY <3>2, <3>3, <3>4 DEF IsRight
  <2>6. CASE maps'[d] # maps[d]
    BY <2>3, <2>4, <2>5, <2>6
  <2>7. CASE maps'[d] = maps[d]
    <3>1. CASE map = WantedOf(p, d) \/ (map # Absent /\ map.owner[1] # p)
      BY <2>7, <3>1 DEF IsRight
    <3>2. ASSUME map = Absent,
                 NEW u \in Workers, job[u].pc = "recreate", job[u].now.map = d, job[u].key # p
          PROVE  IsRight(p, d)'
      <4>1. CASE u # w
        BY <1>3, <2>2, <2>7, <3>2, <4>1
      <4>2. CASE u = w
        <5>1. Puts(w)
          BY <2>1, <3>2, <4>2 DEF Lists, Seeks, Leaves, Removes, Stored
        <5> QED BY <2>4, <3>2, <4>2, <5>1 DEF AtMap
      <4> QED BY <4>1, <4>2
    <3> QED BY <3>1, <3>2 DEF IsRight
  <2> QED BY <2>6, <2>7
<1> QED BY <1>4, <1>5, StepsAreThese
-----------------------------------------------------------------------------
(* What a sync makes of the ConfigMaps of domains *)

\* Platform p is calm before and after a step, and wants of its domains what it
\* wanted.
Steady(p) ==
    /\ ~Crash /\ up /\ AllCalm(p) /\ PlatformHere(p) /\ DomainsCalm(p)
    /\ Of(p, LiveDomains') = Of(p, LiveDomains)
    /\ \A d \in Of(p, LiveDomains) :
          /\ d \in Domains
          /\ AskedOf(p, d)' = AskedOf(p, d) /\ WantedOf(p, d)' = WantedOf(p, d)

(* A platform calm after a step was so before: any step that changes its   *)
(* domains, their tenants or itself wakes it or leaves an event to come.   *)
LEMMA CalmIsSteady ==
    ASSUME DomainsAreApart, ConditionInv, ApartInv, DomainInv, [Next]_vars,
           NEW p \in Platforms, AllCalm(p)', PlatformHere(p)',
           \A w \in Workers : p \in Ready(queue) => ~Take(w, p)
    PROVE  Steady(p)
<1>1. /\ MapsAreSeen /\ TypeOK /\ ViewsOK /\ queue \in QueueOver(Platforms)
  BY DomainHyps DEF ControlOK
<1>2. p \notin PendingKeys' /\ up'
  <2>1. PendingIs'
    BY PendingIsThis, PTL
  <2> QED BY <2>1 DEF PendingIs, AllCalm
<1>3. ~Crash
  BY <1>2 DEF Crash
<1>4. up /\ p \notin PendingKeys /\ SameWanted(p)
  BY <1>2, <1>3, CalmBefore
<1>5. DomainsCalm(p) /\ SameDomains(p)
  BY <1>1, <1>2, <1>3, <1>4, DomainsBefore
<1>6. PlatformHere(p) /\ SameTenants(p)
  BY <1>4 DEF SameWanted
<1>7. Live(platforms'[p]) = Live(platforms[p])
  BY <1>1, PlatformsStay
<1>8. ASSUME NEW d \in Of(p, LiveDomains)
      PROVE  /\ d \in Domains
             /\ AskedOf(p, d)' = AskedOf(p, d) /\ WantedOf(p, d)' = WantedOf(p, d)
  <2>1. d \in Domains
    BY DEF Of, LiveDomains
  <2> DEFINE ts == LiveTenants
             us == LiveTenants'
             domain == LiveDomains[d]
  <2>2. LiveDomains'[d] = domain
    BY <1>5 DEF SameDomains
  <2>3. Of(p, us) = Of(p, ts) /\ \A t \in Of(p, ts) : us[t] = ts[t]
    BY <1>6 DEF SameTenants
  <2> HIDE DEF ts, us, domain
  <2>4. {DomainEntry(t, us[t], d, domain) : t \in Of(p, us)}
          = {DomainEntry(t, ts[t], d, domain) : t \in Of(p, ts)}
    BY <2>3
  <2>5. DomainWrite(p, us, d, domain) = DomainWrite(p, ts, d, domain)
    BY <2>4 DEF DomainWrite
  <2>6. AskedOf(p, d)' = AskedOf(p, d)
    BY <2>2, <2>5 DEF AskedOf, ts, us, domain
  <2>7. Owner(p, Live(platforms'[p])) = Owner(p, Live(platforms[p]))
    BY <1>7
  <2>8. WantedOf(p, d)' = WantedOf(p, d)
    BY <2>6, <2>7 DEF WantedOf, AskedOf
  <2> QED BY <2>1, <2>6, <2>8
<1> QED BY <1>3, <1>4, <1>5, <1>6, <1>8 DEF Steady, AllCalm, SameDomains

(* What the sync of such a platform lists is what the API server says.     *)
LEMMA ListedAsked ==
    ASSUME ViewsOK, up, NEW p \in Platforms, AllCalm(p)
    PROVE  DomainWrites(p, CachedTenants, CachedDomains) = {AskedOf(p, d) : d \in Of(p, LiveDomains)}
<1> DEFINE cts == CachedTenants
           ts == LiveTenants
           cds == CachedDomains
           ds == LiveDomains
<1>1. Of(p, cts) = Of(p, ts) /\ \A t \in Of(p, ts) : cts[t] = ts[t]
  BY ListedTenants DEF AllCalm
<1>2. Of(p, cds) = Of(p, ds) /\ \A d \in Of(p, ds) : cds[d] = ds[d]
  BY ListedDomains DEF AllCalm
<1> HIDE DEF cts, ts, cds, ds
<1>3. ASSUME NEW d, NEW domain PROVE DomainWrite(p, cts, d, domain) = DomainWrite(p, ts, d, domain)
  <2>1. {DomainEntry(t, cts[t], d, domain) : t \in Of(p, cts)}
          = {DomainEntry(t, ts[t], d, domain) : t \in Of(p, ts)}
    BY <1>1
  <2> QED BY <2>1 DEF DomainWrite
<1>4. {DomainWrite(p, cts, d, cds[d]) : d \in Of(p, cds)} = {DomainWrite(p, ts, d, ds[d]) : d \in Of(p, ds)}
  BY <1>2, <1>3
<1> QED BY <1>4 DEF DomainWrites, AskedOf, cts, ts, cds, ds

(* The write of a domain is of its ConfigMap.                              *)
LEMMA AskedMap == \A p, d : AskedOf(p, d).map = d /\ ~AskedOf(p, d).strict
BY DEF AskedOf, DomainWrite

\* All a worker on p has not ahead of it is right.
RightBehind(w, p) == \A d \in Of(p, LiveDomains) : d \in Ahead(w) \/ IsRight(p, d)

\* All it has ahead is as wanted.
AskedAhead(w, p) ==
    /\ \A l \in job[w].left : l.map \in Of(p, LiveDomains) /\ l = AskedOf(p, l.map)
    /\ ~job[w].now.strict =>
          job[w].now.map \in Of(p, LiveDomains) /\ job[w].now = AskedOf(p, job[w].now.map)

(* The claim of a worker outlives the steps of everybody else, ...         *)
LEMMA ElsewhereDomainClaim ==
    ASSUME DomainsAreApart, ConditionInv, ApartInv, DomainInv, [Next]_vars,
           \A w \in Workers : ~CallFails(w),
           NEW v \in Workers, NEW p \in Platforms, Busy(v)', job'[v].key = p,
           Busy(v) /\ job[v].key = p => Steady(p) /\ DomainClaim(v, p), ~MapSteps(v)
    PROVE  DomainClaim(v, p)'
<1>1. /\ TypeOK /\ ViewsOK /\ ControlOK /\ HeldOnce
  BY DomainHyps
<1>2. ASSUME Busy(v), job[v].key = p,
             NEW d \in Of(p, LiveDomains), IsRight(p, d)
      PROVE  IsRight(p, d)'
  <2>1. /\ ~Crash /\ d \in Domains /\ WantedOf(p, d)' = WantedOf(p, d)
    BY <1>2 DEF Steady
  <2>2. ASSUME NEW w \in Workers, MapSteps(w) PROVE job[w].key # p
    <3>1. Busy(w) /\ w # v
      BY <1>1, <2>2, MapsEffect DEF MapSteps, Stays, Continues
    <3> QED BY <1>1, <1>2, <3>1 DEF HeldOnce
  <2> QED BY <1>2, <2>1, <2>2, RightStays
<1>3. CASE job'[v] = job[v]
  <2>1. Busy(v) /\ job[v].key = p
    BY <1>3 DEF Busy
  <2>2. Steady(p) /\ DomainClaim(v, p)
    BY <2>1
  <2>3. Ahead(v)' = Ahead(v)
    BY <1>3 DEF Ahead
  <2>4. /\ Of(p, LiveDomains)' = Of(p, LiveDomains)
        /\ \A d \in Of(p, LiveDomains) : AskedOf(p, d)' = AskedOf(p, d)
    BY <2>2 DEF Steady
  <2>5. \A d \in Of(p, LiveDomains) : IsRight(p, d) => IsRight(p, d)'
    BY <1>2, <2>1
  <2>6. ASSUME job'[v].pc \in AtMap
        PROVE  AskedAhead(v, p)'
    <3>1. AskedAhead(v, p)
      BY <1>3, <2>2, <2>6 DEF DomainClaim, AskedAhead
    <3> QED BY <1>3, <2>4, <3>1 DEF AskedAhead, AskedOf
  <2>7. ASSUME job'[v].pc \in AtMap \cup {"succeed", "done"} PROVE RightBehind(v, p)'
    <3>1. RightBehind(v, p)
      BY <1>3, <2>2, <2>7 DEF DomainClaim, RightBehind
    <3> QED BY <2>3, <2>4, <2>5, <3>1 DEF RightBehind
  <2> QED BY <2>6, <2>7 DEF DomainClaim, AskedAhead, RightBehind
<1>4. ASSUME NEW w \in Workers, MapSteps(w), w # v PROVE job'[v] = job[v]
  BY <1>1, <1>4, MapsEffect DEF MapSteps, Stays, Continues
<1>5. CASE Elsewhere /\ job'[v] # job[v]
  <2>1. job'[v].pc \notin AtMap /\ job'[v].pc # "succeed"
    BY <1>1, <1>5, ElsewhereJob DEF Unready
  <2>2. ASSUME job'[v].pc = "done" PROVE RightBehind(v, p)'
    <3>1. /\ Busy(v) /\ job[v].key = p
          /\ job[v].pc = "succeed" \/ Cached(platforms[p]) = Absent
      BY <1>1, <1>5, <2>2, DoneEffect
    <3>2. Steady(p) /\ DomainClaim(v, p)
      BY <3>1
    <3>3. job[v].pc = "succeed"
      BY <1>1, <3>1, <3>2, CalmPlatform DEF Steady, AllCalm
    <3>4. ASSUME NEW d \in Of(p, LiveDomains) PROVE d \notin Ahead(v)
      BY <3>3 DEF Ahead, AtMap
    <3>5. \A d \in Of(p, LiveDomains) : IsRight(p, d)'
      BY <1>2, <3>1, <3>2, <3>3, <3>4 DEF DomainClaim
    <3> QED BY <3>2, <3>5 DEF Steady, RightBehind
  <2> QED BY <2>1, <2>2 DEF DomainClaim, RightBehind
<1> QED BY <1>3, <1>4, <1>5, StepsAreThese

(* A worker that goes on has one ConfigMap less ahead, ...                  *)
LEMMA GoesOn ==
    ASSUME WritesAreApart, NEW w \in Workers, job[w].pc \in AtMap, Goes(w),
           NEW m \in Ahead(w), m \notin Ahead(w)'
    PROVE  ~job[w].now.strict /\ m = job[w].now.map
<1>1. ASSUME NEW l \in job[w].left, l.map = m PROVE FALSE
  <2>1. job'[w].pc = "look" /\ job'[w].now \in job[w].left
        /\ job'[w].left = job[w].left \ {job'[w].now}
    BY <1>1 DEF Goes
  <2>2. ~job'[w].now.strict
    BY <2>1 DEF WritesAreApart
  <2>3. l = job'[w].now \/ l \in job'[w].left
    BY <1>1, <2>1
  <2> QED BY <1>1, <2>1, <2>2, <2>3 DEF Ahead, AtMap
<1> QED BY <1>1 DEF Ahead

(* ... which is right.                                                     *)
LEMMA DoneIsRight ==
    ASSUME DomainsAreApart, ConditionInv, ApartInv, DomainInv,
           NEW w \in Workers, NEW p \in Platforms, job[w].key = p, Steady(p),
           job[w].pc \in AtMap, NEW d \in Of(p, LiveDomains),
           job[w].now.map = d, job[w].now = AskedOf(p, d),
           (Leaves(w) /\ Goes(w)) \/ Puts(w)
    PROVE  IsRight(p, d)'
<1>1. /\ TypeOK /\ ViewsOK /\ ControlOK /\ OwnMapsInv /\ CreatedOnce /\ UidsInv /\ ~ConfigMapsLag
  BY DomainHyps
<1>2. /\ PlatformHere(p) /\ d \in Domains /\ d \in Maps /\ WantedOf(p, d)' = WantedOf(p, d)
  BY DomainsAreMaps DEF Steady
<1>3. job[w].pc \in Unready /\ job[w].platform = Live(platforms[p])
  <2>1. job[w].pc \in Unready
    BY DEF AtMap, Unready
  <2> QED BY <1>1, <2>1 DEF OwnMapsInv
<1>4. Desired(job[w]) = WantedOf(p, d)
  BY <1>3 DEF Desired, WantedOf, AskedOf
<1>5. CASE Puts(w)
  <2>1. Live(maps'[d]) = WantedOf(p, d)
    BY <1>1, <1>2, <1>4, <1>5, WriteKeepsUp DEF Puts
  <2> QED BY <1>2, <2>1 DEF IsRight
<1>6. CASE Leaves(w) /\ Goes(w)
  <2> DEFINE map == Live(maps[d])
  <2>1. map # Absent /\ Live(maps'[d]) = map /\ map \in ConfigMaps
    BY <1>1, <1>2, <1>6, ReadTypes DEF Leaves, Stored
  <2>2. CASE map.owner[1] # p
    BY <2>1, <2>2 DEF IsRight
  <2>3. CASE map.owner[1] = p
    <3>1. job[w].pc = "look" /\ (Controlled(map, p, job[w].platform) => SameData(map, job[w].now))
      <4>1. job[w].pc \notin {"create", "recreate"}
        BY <1>1, <2>1, <2>3 DEF CreatedOnce, Stored
      <4> QED BY <1>6, <4>1 DEF Leaves, Stored
    <3>2. map.owner[2] = Live(platforms[p]).uid
      BY <1>1, <1>2, <2>1, <2>3 DEF UidsInv
    <3>3. map.owner = Owner(p, job[w].platform)
      BY <1>3, <2>1, <2>3, <3>2 DEF ConfigMaps, Owner
    <3>4. map.data = job[w].now.data
      BY <3>1, <3>3 DEF Controlled, SameData
    <3>5. map = [owner |-> map.owner, data |-> map.data]
      BY <2>1 DEF ConfigMaps
    <3>6. map = Desired(job[w])
      BY <3>3, <3>4, <3>5 DEF Desired
    <3>7. Live(maps'[d]) = WantedOf(p, d)
      BY <1>4, <2>1, <3>6
    <3> QED BY <1>2, <3>7 DEF IsRight
  <2> QED BY <2>2, <2>3
<1> QED BY <1>5, <1>6

(* ... and its own.                                                        *)
LEMMA OwnDomainClaim ==
    ASSUME DomainsAreApart, ConditionInv, ApartInv, DomainInv, [Next]_vars,
           \A w \in Workers : ~CallFails(w),
           NEW v \in Workers, NEW p \in Platforms, job[v].key = p, Steady(p), DomainClaim(v, p),
           MapSteps(v)
    PROVE  DomainClaim(v, p)'
<1>1. /\ TypeOK /\ ViewsOK /\ ControlOK /\ HeldOnce /\ OwnMapsInv /\ WritesAreApart
      /\ MapsAreApart
  BY DomainHyps
<1>2. Stays(v)
  BY <1>1, MapsEffect DEF MapSteps
<1>3. /\ ~Crash /\ AllCalm(p) /\ up
      /\ Of(p, LiveDomains)' = Of(p, LiveDomains)
      /\ \A d \in Of(p, LiveDomains) :
            /\ d \in Domains
            /\ AskedOf(p, d)' = AskedOf(p, d) /\ WantedOf(p, d)' = WantedOf(p, d)
  BY DEF Steady
<1>4. ASSUME NEW d \in Of(p, LiveDomains), IsRight(p, d),
             job[v].pc \notin AtMap \/ job[v].now.map # d
      PROVE  IsRight(p, d)'
  <2>1. ASSUME NEW w \in Workers, MapSteps(w), w # v PROVE job[w].key # p
    <3>1. Busy(w) /\ Busy(v)
      BY <1>1, <1>2, <2>1, MapsEffect DEF MapSteps, Stays, Continues
    <3> QED BY <1>1, <2>1, <3>1 DEF HeldOnce
  <2> QED BY <1>3, <1>4, <2>1, RightStays
<1>5. ASSUME job[v].pc \in AtMap PROVE AskedAhead(v, p) /\ RightBehind(v, p)
  BY <1>5 DEF DomainClaim, AskedAhead, RightBehind
<1>6. ASSUME job[v].pc \in AtMap, NEW d \in Of(p, LiveDomains), d \notin Ahead(v)
      PROVE  IsRight(p, d)'
  <2>1. IsRight(p, d)
    BY <1>5, <1>6 DEF RightBehind
  <2>2. job[v].now.map # d
    <3>1. CASE job[v].now.strict
      <4>1. job[v].now.map = <<job[v].platform.ns, p>>
        BY <1>1, <1>6, <3>1 DEF WritesAreApart
      <4>2. job[v].now.map[2] = p
        BY <4>1
      <4>3. d[2] \in DomainNames
        BY <1>3, DomainsAreMaps
      <4> QED BY <1>1, <4>2, <4>3 DEF MapsAreApart
    <3>2. CASE ~job[v].now.strict
      BY <1>6, <3>2 DEF Ahead
    <3> QED BY <3>1, <3>2
  <2> QED BY <1>4, <2>1, <2>2
<1>7. CASE Lists(v)
  <2>1. /\ job'[v].pc = "look" /\ job'[v].now.strict
        /\ job'[v].left = {AskedOf(p, d) : d \in Of(p, LiveDomains)}
    BY <1>1, <1>3, <1>7, ListedAsked DEF Lists, PlatformWrite
  <2>2. ASSUME NEW l \in job'[v].left
        PROVE  l.map \in Of(p, LiveDomains)' /\ l = AskedOf(p, l.map)'
    <3>1. PICK d \in Of(p, LiveDomains) : l = AskedOf(p, d)
      BY <2>1
    <3>2. l.map = d
      BY <3>1, AskedMap
    <3> QED BY <1>3, <3>1, <3>2 DEF AskedOf
  <2>3. ASSUME NEW d \in Of(p, LiveDomains) PROVE d \in Ahead(v)'
    <3>1. AskedOf(p, d) \in job'[v].left /\ AskedOf(p, d).map = d
      BY <2>1, AskedMap
    <3> QED BY <2>1, <3>1 DEF Ahead, AtMap
  <2> QED BY <1>3, <2>1, <2>2, <2>3 DEF DomainClaim, AskedOf
<1>8. CASE Keeps(v) /\ job[v].pc \in AtMap /\ job'[v].pc \in AtMap
  <2>1. Ahead(v)' = Ahead(v)
    BY <1>8 DEF Keeps, Ahead
  <2>2. AskedAhead(v, p)'
    BY <1>3, <1>5, <1>8 DEF AskedAhead, AskedOf, Keeps
  <2>3. RightBehind(v, p)'
    BY <1>3, <1>6, <1>8, <2>1 DEF RightBehind
  <2> QED BY <2>2, <2>3 DEF DomainClaim, AskedAhead, RightBehind
<1>9. CASE Goes(v) /\ job[v].pc \in AtMap /\ (Leaves(v) \/ Puts(v))
  <2>1. ASSUME job'[v].pc \in AtMap PROVE AskedAhead(v, p)'
    <3>1. job'[v].now \in job[v].left /\ job'[v].left \subseteq job[v].left
      BY <1>9, <2>1 DEF Goes, AtMap
    <3>2. AskedAhead(v, p)
      BY <1>5, <1>9
    <3> QED BY <1>3, <3>1, <3>2 DEF AskedAhead, AskedOf
  <2>2. ASSUME NEW d \in Of(p, LiveDomains), d \notin Ahead(v)' PROVE IsRight(p, d)'
    <3>1. CASE d \notin Ahead(v)
      BY <1>6, <1>9, <3>1
    <3>2. CASE d \in Ahead(v)
      <4>1. ~job[v].now.strict /\ d = job[v].now.map
        BY <1>1, <1>9, <2>2, <3>2, GoesOn
      <4>2. job[v].now = AskedOf(p, d)
        BY <1>5, <1>9, <4>1 DEF AskedAhead
      <4> QED BY <1>9, <4>1, <4>2, DoneIsRight
    <3> QED BY <3>1, <3>2
  <2>3. RightBehind(v, p)'
    BY <1>3, <2>2 DEF RightBehind
  <2> QED BY <2>1, <2>3 DEF DomainClaim, AskedAhead, RightBehind
<1>10. CASE job'[v].pc = "fail"
  BY <1>10 DEF DomainClaim, AtMap
<1>11. Lists(v) \/ Seeks(v) \/ Leaves(v) \/ Puts(v) \/ Removes(v)
  BY <1>1, MapMoves
<1>12. CASE Seeks(v) \/ Removes(v)
  BY <1>8, <1>12 DEF Seeks, Removes, AtMap
<1>13. CASE Leaves(v) \/ Puts(v)
  BY <1>8, <1>9, <1>10, <1>13 DEF Leaves, Puts, AtMap
<1> QED BY <1>7, <1>11, <1>12, <1>13

(* Who lets a key go without a crash has finished with it.                 *)
LEMMA OnlyFinishLetsGo ==
    ASSUME TypeOK, [Next]_vars, ~Crash, NEW v \in Workers, Busy(v),
           ~(Busy(v)' /\ job'[v].key = job[v].key)
    PROVE  Finish(v)
<1>1. ViewsOK /\ ControlOK
  BY DEF TypeOK
<1>2. job'[v] # job[v]
  BY DEF Busy
<1>3. ASSUME NEW w \in Workers PROVE ~Continues(w)
  BY <1>2 DEF Continues
<1>4. ASSUME NEW w \in Workers PROVE ~MapSteps(w)
  BY <1>1, <1>3, MapsEffect DEF MapSteps, Stays
<1>5. ~Others /\ ~UNCHANGED vars
  BY <1>2 DEF vars, Others, Edit, EditTenant, EditDomain, EditService, EditPlatform,
     CreatePlatform, DeletePlatform, WritePlatform, Observe, ObservePlatform, ObserveTenant,
     ObserveDomain, ObserveMap, Handle, HandlePlatform, HandleTenant, HandleDomain, Restart,
     Collect, Retry
<1>6. PICK w \in Workers : Around(w)
  BY <1>4, <1>5, StepsAreThese DEF Elsewhere
<1>7. Finish(w) \/ \E p \in Ready(queue) : Take(w, p)
  BY <1>1, <1>3, <1>6, StatusEffect DEF Around, Resets, Ends
<1>8. v = w
  BY <1>1, <1>2, <1>7 DEF Finish, Take, ControlOK
<1> QED BY <1>7, <1>8 DEF Take, Busy

(* Calm platforms have right ConfigMaps behind their workers, and when     *)
(* they have none.                                                         *)
LEMMA DomainSyncStep ==
    ASSUME DomainsAreApart, ConditionInv, ApartInv, DomainInv, [Next]_vars
    PROVE  DomainSync'
<1>1. /\ TypeOK /\ ViewsOK /\ ControlOK /\ HeldOnce /\ DomainSync
  BY DomainHyps DEF DomainInv
<1> SUFFICES ASSUME spent'.failures = 0, NEW p \in Platforms, AllCalm(p)', PlatformHere(p)'
             PROVE  /\ \A v \in Workers : Busy(v)' /\ job'[v].key = p => DomainClaim(v, p)'
                    /\ ~Held(p)' => \A d \in Of(p, LiveDomains)' : IsRight(p, d)'
  BY DEF DomainSync
<1>2. spent.failures = 0 /\ \A w \in Workers : ~CallFails(w)
  BY <1>1, NoFailureYet
<1>3. ASSUME \A w \in Workers : p \in Ready(queue) => ~Take(w, p)
      PROVE  Steady(p)
  BY <1>3, CalmIsSteady
<1>4. ASSUME NEW v \in Workers, Busy(v), job[v].key = p
      PROVE  Steady(p) /\ DomainClaim(v, p)
  <2>1. p \notin Ready(queue)
    BY <1>1, <1>4 DEF HeldOnce, Ready
  <2>2. Steady(p)
    BY <1>3, <2>1
  <2> QED BY <1>1, <1>2, <1>4, <2>2 DEF DomainSync, Steady
<1>5. ASSUME NEW v \in Workers, Busy(v)', job'[v].key = p PROVE DomainClaim(v, p)'
  <2>1. CASE MapSteps(v)
    <3>1. Busy(v) /\ job[v].key = p
      BY <1>1, <1>5, <2>1, MapsEffect DEF MapSteps, Stays, Continues
    <3>2. Steady(p) /\ DomainClaim(v, p)
      BY <1>4, <3>1
    <3> QED BY <1>2, <2>1, <3>1, <3>2, OwnDomainClaim
  <2>2. CASE ~MapSteps(v)
    BY <1>2, <1>4, <1>5, <2>2, ElsewhereDomainClaim
  <2> QED BY <2>1, <2>2
<1>6. ASSUME ~Held(p)', NEW d \in Of(p, LiveDomains)' PROVE IsRight(p, d)'
  <2>1. ASSUME NEW w \in Workers PROVE ~(Busy(w)' /\ job'[w].key = p)
    BY <1>6 DEF Held
  <2>2. ASSUME NEW w \in Workers, p \in Ready(queue), Take(w, p) PROVE FALSE
    <3>1. job'[w].pc = "reset" /\ job'[w].key = p
      BY <1>1, <2>2 DEF Take, Idle, ControlOK
    <3> QED BY <2>1, <3>1 DEF Busy
  <2>3. Steady(p)
    BY <1>3, <2>2
  <2>4. ~Crash /\ d \in Of(p, LiveDomains) /\ d \in Domains /\ WantedOf(p, d)' = WantedOf(p, d)
    BY <2>3 DEF Steady
  <2>5. ASSUME NEW w \in Workers, MapSteps(w) PROVE job[w].key # p
    BY <1>1, <2>1, <2>5, MapsEffect DEF MapSteps, Stays, Continues
  <2>6. IsRight(p, d)
    <3>1. CASE ~Held(p)
      BY <1>1, <1>2, <2>3, <2>4, <3>1 DEF DomainSync, Steady
    <3>2. ASSUME NEW v \in Workers, Busy(v), job[v].key = p PROVE IsRight(p, d)
      <4>1. Finish(v)
        BY <1>1, <2>1, <2>4, <3>2, OnlyFinishLetsGo
      <4>2. job[v].pc # "retry"
        BY <1>1, <2>3, <3>2, <4>1, FinishPending DEF Steady, AllCalm
      <4>3. job[v].pc = "done"
        BY <4>1, <4>2 DEF Finish
      <4>4. d \notin Ahead(v)
        BY <4>3 DEF Ahead, AtMap
      <4> QED BY <1>4, <2>4, <3>2, <4>3, <4>4 DEF DomainClaim
    <3> QED BY <3>1, <3>2 DEF Held
  <2> QED BY <1>2, <2>4, <2>5, <2>6, RightStays
<1> QED BY <1>5, <1>6

(* At the start every platform is queued, or about to be.                  *)
LEMMA DomainInvInit == Init => DomainInv
<1> SUFFICES ASSUME Init PROVE NoOrphans /\ CreatedOnce /\ DomainSync
  BY OwnMapsInit DEF DomainInv
<1>1. \A m \in Maps : Live(maps[m]) = Absent
  <2>1. \A m \in Maps : maps[m] = Unwatched(Absent)
    BY DEF Init
  <2> QED BY <2>1 DEF Unwatched, Live
<1>2. NoOrphans
  BY <1>1 DEF NoOrphans
<1>3. CreatedOnce
  BY DEF Init, Idle, CreatedOnce
<1>4. DomainSync
  BY InitPending DEF DomainSync, AllCalm
<1> QED BY <1>2, <1>3, <1>4

(* The invariant is inductive.                                             *)
LEMMA DomainInvStep ==
    ASSUME DomainsAreApart, ConditionInv, ApartInv, DomainInv, [Next]_vars
    PROVE  DomainInv'
<1>1. OwnMapsInv /\ MapsAreSeen
  BY DomainHyps
<1>2. OwnMapsInv'
  BY <1>1, StepsAreThese, SyncKeepsOwnMaps, ElsewhereKeepsOwnMaps DEF MapSteps
<1> QED BY <1>2, OrphansStep, CreatedStep, DomainSyncStep DEF DomainInv

(* At rest every platform is calm, and nobody is at its ConfigMaps.        *)
LEMMA SettledIsRight ==
    ASSUME ConditionInv, DomainInv PROVE SettledDomainMaps
<1>1. TypeOK /\ ViewsOK /\ ControlOK /\ HeldOnce /\ DomainSync
  BY DEF ConditionInv, TypeOK, DomainInv
<1> SUFFICES ASSUME \A q \in Platforms : Settled(q), spent.failures = 0,
                    NEW p \in Platforms, PlatformHere(p), NEW d \in Of(p, LiveDomains)
             PROVE  LET map == Live(maps[d])
                    IN  map = WantedOf(p, d) \/ (map # Absent /\ map.owner[1] # p)
  BY DEF SettledDomainMaps
<1>2. /\ up /\ p \notin queue.dirty \cup queue.delayed
      /\ UpToDate(platforms[p])
      /\ \A t \in Tenants : UpToDate(tenants[t])
      /\ \A e \in Domains : UpToDate(domains[e])
  BY DEF Settled
<1>3. ASSUME NEW view, UpToDate(view) PROVE Events(view) = {}
  <2>1. Len(view.log) = 1
    BY <1>3 DEF UpToDate
  <2>2. 1 .. Len(view.log) - 1 = {}
    BY <2>1
  <2> QED BY <2>2 DEF Events
<1>4. p \notin PendingKeys
  BY <1>2, <1>3, PendingIsThis DEF PendingIs
<1>5. AllCalm(p)
  BY <1>2, <1>3, <1>4 DEF AllCalm, DomainsCalm
<1>6. ASSUME NEW w \in Workers PROVE ~Busy(w)
  BY <1>1 DEF HeldOnce, Settled, ControlOK, Busy
<1>7. IsRight(p, d)
  BY <1>1, <1>5, <1>6 DEF DomainSync, Held
<1> QED BY <1>6, <1>7 DEF IsRight, Busy

(* The inductive invariant: besides that of the platforms' ConfigMaps,     *)
(* that a worker has the domains of a platform nothing will wake ahead of  *)
(* it as wanted, and the ConfigMaps of the others right.                   *)
THEOREM DomainMapsAreSynced ==
    ASSUME DomainsAreApart PROVE Spec => [](ConditionInv /\ ApartInv /\ SyncInv /\ DomainInv)
<1>1. MapsAreApart
  BY DEF DomainsAreApart
<1>2. ConditionInv /\ ApartInv /\ DomainInv /\ [Next]_vars => DomainInv'
  BY DomainInvStep
<1>3. Spec => [](ConditionInv /\ ApartInv /\ SyncInv)
  BY <1>1, MapsAreSynced
<1> QED BY <1>2, <1>3, DomainInvInit, PTL DEF Spec

(* While platforms stay and no call has failed, the ConfigMap of each      *)
(* domain of a platform is right at rest, whatever tenants and domains     *)
(* did: moved between platforms, left and came back, while workers were at *)
(* it, and with any number of crashes.                                     *)
THEOREM SettledDomainMapsAreRight ==
    ASSUME DomainsAreApart PROVE Spec => []SettledDomainMaps
BY DomainMapsAreSynced, SettledIsRight, PTL
=============================================================================
