------------------------- MODULE ConfigurationTypes -------------------------
(***************************************************************************)
(* Types of the configuration domain controller, for all constants.        *)
(***************************************************************************)
EXTENDS ConfigurationProperties, ClientGoProofs

-----------------------------------------------------------------------------
(* Values *)

DomainOrNone == DomainVersions \cup {Absent}
SourceOrNone == SourceSpec \cup {Absent}
OutputOrNone == OutputVersions \cup {Absent}
TargetOrNone == Namespaces \cup {Absent}

(* What the stores and the API server answer are versions, or nothing.     *)
LEMMA ReadTypes ==
    ASSUME ViewsOK
    PROVE  /\ \A p \in Platforms : /\ Live(platforms[p]) \in TargetOrNone
                                   /\ Cached(platforms[p]) \in TargetOrNone
           /\ \A d \in Domains : /\ Live(domains[d]) \in DomainOrNone
                                 /\ Cached(domains[d]) \in DomainOrNone
           /\ \A s \in Sources : /\ Live(sources[s]) \in SourceOrNone
                                 /\ Cached(sources[s]) \in SourceOrNone
           /\ \A o \in Outputs : /\ Live(outputs[o]) \in OutputOrNone
                                 /\ Cached(outputs[o]) \in OutputOrNone
BY ReadsAreVersions DEF ViewsOK, DomainOrNone, SourceOrNone, OutputOrNone, TargetOrNone

(* The versions users may write are versions.                              *)
LEMMA VersionsAreSpecs ==
    /\ \A d \in Domains : DomainVals[d] \subseteq DomainSpec
    /\ \A s \in Sources : SourceVals[s] \subseteq SourceSpec
    /\ Absent \notin DomainVersions \cup SourceSpec \cup OutputVersions \cup Namespaces
    /\ \A d \in Domains : d[2] \in Seq(STRING)
BY ValuesAssumption, NamesAssumption

(* What a sync aggregates is data of an output.                            *)
LEMMA AggregateTypes ==
    ASSUME NEW d, NEW kind, NEW platform \in Platforms, NEW target,
           NEW objects \in [Sources -> SourceOrNone],
           NEW data \in Aggregates(d, kind, platform, target, objects)
    PROVE  data \in OutputData
<1>1. ASSUME NEW s \in Present(objects) PROVE objects[s].data \subseteq UNION Data
  <2>1. objects[s] \in SourceSpec
    BY DEF Present, SourceOrNone
  <2> QED BY <2>1 DEF SourceSpec
<1>2. \A r \in Read(d, kind, platform, target, objects) : r[2] \in Present(objects)
  BY DEF Read
<1>3. ASSUME NEW order
      PROVE  Merged(Read(d, kind, platform, target, objects), objects, order) \subseteq UNION Data
  BY <1>1, <1>2 DEF Merged
<1>4. {<<Role, platform>> : x \in {kind} \cap {"spc"}} \subseteq {Role} \X Platforms
  OBVIOUS
<1>5. PICK order \in Orders :
        data = Merged(Read(d, kind, platform, target, objects), objects, order)
                 \cup {<<Role, platform>> : x \in {kind} \cap {"spc"}}
  BY DEF Aggregates
<1> QED BY <1>3, <1>4, <1>5 DEF OutputData

(* The stores list specs.                                                  *)
LEMMA ListTypes == ViewsOK => CachedSources \in [Sources -> SourceOrNone]
BY ReadTypes DEF CachedSources

(* What a sync builds is an output.                                        *)
LEMMA BuiltTypes ==
    ASSUME NEW j \in Jobs, j.key \in Domains, j.domain # Absent,
           NEW stored \in OutputOrNone, NEW data \in OutputData
    PROVE  Built(j, stored, data) \in OutputVersions
<1>1. /\ j.domain \in DomainVersions /\ j.domain.uid \in 0 .. MaxEdits
      /\ j.domain.spec.platform \in Platforms
  BY DEF Jobs, DomainVersions, DomainSpec
<1>2. j.key[2] \in Seq(STRING)
  BY VersionsAreSpecs
<1>3. CASE stored = Absent
  BY <1>1, <1>2, <1>3 DEF Built, OutputVersions
<1>4. CASE stored # Absent
  BY <1>4 DEF Built, OutputVersions, OutputOrNone
<1> QED BY <1>3, <1>4

\* The last version of a domain is not of a later edit.
VersionsArePast ==
    \A d \in Domains : LET v == Live(domains[d])
                       IN  v # Absent => v.rv <= spent.edits /\ v.uid <= spent.edits

(* So a write to a domain is of another version than the last.             *)
LEMMA EditsAreNew ==
    ASSUME ViewsOK, StatusOK, VersionsArePast, NEW d \in Domains, NEW spec \in DomainVals[d],
           spent.edits < MaxEdits
    PROVE  /\ \A v : v.rv = spent.edits + 1 => v # Live(domains[d]) \/ Live(domains[d]) = Absent
           /\ [rv |-> spent.edits + 1, uid |-> spent.edits + 1, spec |-> spec] \in DomainVersions
           /\ Live(domains[d]) # Absent =>
                /\ Live(domains[d]) \in DomainVersions
                /\ [Live(domains[d]) EXCEPT !.rv = spent.edits + 1, !.spec = spec]
                       \in DomainVersions
<1>1. spent.edits \in Nat /\ MaxEdits \in Nat /\ spent.edits + 1 \in 0 .. MaxEdits
  BY BoundsAssumption DEF StatusOK
<1>2. Live(domains[d]) # Absent => Live(domains[d]) \in DomainVersions
  BY ReadTypes DEF DomainOrNone
<1>3. Live(domains[d]) # Absent => Live(domains[d]).rv \in Nat
  BY <1>2, BoundsAssumption DEF DomainVersions
<1>4. \A v : v.rv = spent.edits + 1 => v # Live(domains[d]) \/ Live(domains[d]) = Absent
  BY <1>1, <1>3 DEF VersionsArePast
<1>5. spec \in DomainSpec
  BY VersionsAreSpecs
<1>6. [rv |-> spent.edits + 1, uid |-> spent.edits + 1, spec |-> spec] \in DomainVersions
  BY <1>1, <1>5 DEF DomainVersions
<1>7. \A v \in DomainVersions :
        [v EXCEPT !.rv = spent.edits + 1, !.spec = spec] \in DomainVersions
  BY <1>1, <1>5 DEF DomainVersions
<1> QED BY <1>2, <1>4, <1>6, <1>7
-----------------------------------------------------------------------------
(* Steps of the views *)

(* Replacing a view by one of the same object.                             *)
LEMMA PlatformStep ==
    ASSUME ViewsOK, UNCHANGED <<domains, sources, outputs>>, NEW p \in Platforms, NEW view,
           view \in ViewOf(TargetOrNone), WellFormed(view), view.cached = 1,
           platforms' = [platforms EXCEPT ![p] = view]
    PROVE  ViewsOK'
BY DEF ViewsOK, TargetOrNone

LEMMA DomainStep ==
    ASSUME ViewsOK, UNCHANGED <<platforms, sources, outputs>>, NEW d \in Domains, NEW view,
           view \in ViewOf(DomainOrNone), WellFormed(view),
           domains' = [domains EXCEPT ![d] = view]
    PROVE  ViewsOK'
BY DEF ViewsOK, DomainOrNone

LEMMA SourceStep ==
    ASSUME ViewsOK, UNCHANGED <<platforms, domains, outputs>>, NEW s \in Sources, NEW view,
           view \in ViewOf(SourceOrNone), WellFormed(view), s[1] = "spc" => UpToDate(view),
           sources' = [sources EXCEPT ![s] = view]
    PROVE  ViewsOK'
BY DEF ViewsOK, SourceOrNone

LEMMA OutputStep ==
    ASSUME ViewsOK, UNCHANGED apiVars, NEW o \in Outputs, NEW view,
           view \in ViewOf(OutputOrNone), WellFormed(view),
           outputs' = [outputs EXCEPT ![o] = view]
    PROVE  ViewsOK'
BY DEF ViewsOK, apiVars, OutputOrNone

(* A write of another version leaves a view well formed, watched or not.   *)
LEMMA WriteView ==
    ASSUME NEW S, NEW view \in ViewOf(S), WellFormed(view),
           NEW v \in S, v # Live(view)
    PROVE  /\ Write(view, v) \in ViewOf(S) /\ WellFormed(Write(view, v))
           /\ Live(Write(view, v)) = v
BY UnwatchedView, WrittenView DEF Write

(* So does a write of an output, which may be of the version that is there. *)
LEMMA WriteOutputView ==
    ASSUME ViewsOK, UNCHANGED apiVars, NEW o \in Outputs, NEW v \in OutputOrNone, WriteOutput(o, v)
    PROVE  /\ ViewsOK' /\ Live(outputs'[o]) = v
           /\ \A p \in Outputs \ {o} : outputs'[p] = outputs[p]
<1>1. /\ outputs[o] \in ViewOf(OutputOrNone) /\ WellFormed(outputs[o]) /\ o \in DOMAIN outputs
  BY DEF ViewsOK, OutputOrNone
<1>2. CASE v = Live(outputs[o])
  <2>1. outputs' = outputs
    BY <1>2 DEF WriteOutput
  <2>2. ViewsOK'
    BY <2>1 DEF ViewsOK, apiVars
  <2>3. Live(outputs'[o]) = v /\ \A p \in Outputs \ {o} : outputs'[p] = outputs[p]
    BY <1>2, <2>1, Zenon
  <2> QED BY <2>2, <2>3
<1>3. CASE v # Live(outputs[o])
  <2>1. /\ Write(outputs[o], v) \in ViewOf(OutputOrNone) /\ WellFormed(Write(outputs[o], v))
        /\ Live(Write(outputs[o], v)) = v
    BY <1>1, <1>3, WriteView
  <2>2. outputs' = [outputs EXCEPT ![o] = Write(outputs[o], v)]
    BY <1>3 DEF WriteOutput
  <2>3. ViewsOK'
    BY <2>1, <2>2, OutputStep
  <2> DEFINE view == Write(outputs[o], v)
  <2> HIDE DEF view
  <2>4. outputs'[o] = view /\ \A p \in Outputs \ {o} : outputs'[p] = outputs[p]
    <3>1. outputs \in [Outputs -> ViewOf(OutputOrNone)]
      BY DEF ViewsOK, OutputOrNone
    <3> QED BY <2>2, <3>1 DEF view
  <2> QED BY <2>1, <2>3, <2>4 DEF view
<1> QED BY <1>2, <1>3

(* What users do to an output is an output.                                *)
LEMMA TamperedTypes ==
    ASSUME ViewsOK, NEW o \in Outputs
    PROVE  Tampered(o) \subseteq OutputOrNone
<1>1. Live(outputs[o]) \in OutputOrNone
  BY ReadTypes
<1>2. {} \in OutputData
  BY DEF OutputData
<1>3. Live(outputs[o]) # Absent => [Live(outputs[o]) EXCEPT !.data = {}] \in OutputVersions
  BY <1>1, <1>2 DEF OutputVersions, OutputOrNone
<1>4. \A p \in Platforms : ForeignObject(p) \in OutputVersions
  BY <1>2 DEF ForeignObject, OutputVersions
<1> QED BY <1>3, <1>4 DEF Tampered, OutputOrNone

(* The users write versions; the last of a domain is of the last edit.     *)
LEMMA EditViews ==
    ASSUME ViewsOK, StatusOK, VersionsArePast, Edit
    PROVE  ViewsOK'
<1>1. ASSUME NEW d \in Domains, NEW v \in DomainOrNone, v # Live(domains[d]), WriteDomain(d, v)
      PROVE  ViewsOK'
  <2>1. domains[d] \in ViewOf(DomainOrNone) /\ WellFormed(domains[d])
    BY DEF ViewsOK, DomainOrNone
  <2>2. Write(domains[d], v) \in ViewOf(DomainOrNone) /\ WellFormed(Write(domains[d], v))
    BY <1>1, <2>1, WriteView
  <2> QED BY <1>1, <2>2, DomainStep DEF WriteDomain
<1>2. ASSUME NEW d \in Domains, NEW spec \in DomainVals[d], CreateDomain(d, spec)
      PROVE  ViewsOK'
  <2> DEFINE v == [rv |-> spent.edits + 1, uid |-> spent.edits + 1, spec |-> spec]
  <2>1. Live(domains[d]) = Absent /\ spent.edits < MaxEdits /\ WriteDomain(d, v)
    BY <1>2 DEF CreateDomain, WriteDomain
  <2>2. v \in DomainVersions
    BY <2>1, EditsAreNew
  <2>3. v # Absent
    BY <2>2, VersionsAreSpecs
  <2> HIDE DEF v
  <2> QED BY <1>1, <2>1, <2>2, <2>3 DEF DomainOrNone
<1>3. ASSUME NEW d \in Domains, NEW spec \in DomainVals[d], EditDomain(d, spec)
      PROVE  ViewsOK'
  <2> DEFINE v == [Live(domains[d]) EXCEPT !.rv = spent.edits + 1, !.spec = spec]
  <2>1. Live(domains[d]) # Absent /\ spent.edits < MaxEdits /\ WriteDomain(d, v)
    BY <1>3 DEF EditDomain, WriteDomain
  <2>2. v \in DomainVersions /\ Live(domains[d]) \in DomainVersions
    BY <2>1, EditsAreNew
  <2>3. v.rv = spent.edits + 1
    BY <2>2 DEF DomainVersions
  <2>4. v # Live(domains[d])
    BY <2>1, <2>3, EditsAreNew
  <2> HIDE DEF v
  <2> QED BY <1>1, <2>1, <2>2, <2>4 DEF DomainOrNone
<1>4. ASSUME NEW d \in Domains, DeleteDomain(d)
      PROVE  ViewsOK'
  BY <1>1, <1>4 DEF DeleteDomain, DomainOrNone
<1>5. ASSUME NEW p \in Platforms, NEW ns \in TargetOrNone, EditPlatform(p, ns)
      PROVE  ViewsOK'
  <2>1. /\ platforms[p] \in ViewOf(TargetOrNone) /\ WellFormed(platforms[p])
        /\ platforms[p].cached = 1 /\ ns # Live(platforms[p])
    BY <1>5 DEF ViewsOK, TargetOrNone, EditPlatform
  <2> DEFINE view == Write(platforms[p], ns)
  <2>2. view \in ViewOf(TargetOrNone) /\ WellFormed(view)
    BY <2>1, WriteView
  <2>3. view.cached = 1
    BY <2>1 DEF Write, Written, Unwatched, ViewOf
  <2>4. platforms' = [platforms EXCEPT ![p] = view] /\ UNCHANGED <<domains, sources, outputs>>
    BY <1>5 DEF EditPlatform
  <2> HIDE DEF view
  <2> QED BY <2>2, <2>3, <2>4, PlatformStep
<1>6. ASSUME NEW s \in Sources, NEW v \in SourceVals[s] \cup {Absent}, EditSource(s, v)
      PROVE  ViewsOK'
  <2>1. /\ sources[s] \in ViewOf(SourceOrNone) /\ WellFormed(sources[s])
        /\ v \in SourceOrNone /\ v # Live(sources[s])
    BY <1>6, VersionsAreSpecs DEF ViewsOK, SourceOrNone, EditSource
  <2> DEFINE view == IF s[1] = "spc" THEN Unwatched(v) ELSE Write(sources[s], v)
  <2>2. /\ view \in ViewOf(SourceOrNone) /\ WellFormed(view)
        /\ s[1] = "spc" => UpToDate(view)
    BY <2>1, WriteView, UnwatchedView DEF UpToDate, Unwatched
  <2>3. sources' = [sources EXCEPT ![s] = view] /\ UNCHANGED <<platforms, domains, outputs>>
    BY <1>6 DEF EditSource
  <2> HIDE DEF view
  <2> QED BY <2>2, <2>3, SourceStep
<1>7. ASSUME NEW o \in Outputs, NEW v \in Tampered(o), EditOutput(o, v)
      PROVE  ViewsOK'
  BY <1>7, TamperedTypes, WriteOutputView DEF EditOutput
<1> QED BY <1>2, <1>3, <1>4, <1>5, <1>6, <1>7 DEF Edit, TargetOrNone

(* The garbage collector deletes an output.                                *)
LEMMA CollectViews ==
    ASSUME ViewsOK, NEW o \in Outputs, Collect(o)
    PROVE  ViewsOK'
BY WriteOutputView DEF Collect, OutputOrNone

(* The steps of the informers.                                             *)
LEMMA ObserveViews == ViewsOK /\ Observe => ViewsOK'
<1> SUFFICES ASSUME ViewsOK, Observe PROVE ViewsOK'
  OBVIOUS
<1>1. ASSUME NEW p \in Platforms, ObservePlatform(p) PROVE ViewsOK'
  <2> DEFINE seen == Observed(platforms[p])
  <2>1. /\ platforms[p] \in ViewOf(TargetOrNone) /\ platforms[p].cached = 1
        /\ seen \in ViewOf(TargetOrNone) /\ WellFormed(seen)
    BY <1>1, ObservedView DEF ViewsOK, ObservePlatform, TargetOrNone
  <2>2. seen.cached = 2
    BY <2>1 DEF Observed, ViewOf
  <2> HIDE DEF seen
  <2>3. /\ Notified(seen) \in ViewOf(TargetOrNone) /\ WellFormed(Notified(seen))
        /\ Notified(seen).cached = 1
    <3>1. CanNotify(seen) /\ Notified(seen).cached = 1
      BY <2>2 DEF CanNotify, Notified
    <3> QED BY <2>1, <3>1, NotifiedView
  <2>4. /\ platforms' = [platforms EXCEPT ![p] = Notified(seen)]
        /\ UNCHANGED <<domains, sources, outputs>>
    BY <1>1 DEF ObservePlatform, seen
  <2> QED BY <2>3, <2>4, PlatformStep
<1>2. ASSUME NEW d \in Domains, ObserveDomain(d) PROVE ViewsOK'
  <2>1. CASE CanObserve(domains[d])
    <3>1. Observed(domains[d]) \in ViewOf(DomainOrNone) /\ WellFormed(Observed(domains[d]))
      BY <2>1, ObservedView DEF ViewsOK, DomainOrNone
    <3> QED BY <1>2, <2>1, <3>1, DomainStep DEF ObserveDomain
  <2>2. CASE ~CanObserve(domains[d])
    <3>1. UNCHANGED <<apiVars, outputs>>
      BY <1>2, <2>2 DEF ObserveDomain, apiVars
    <3> QED BY <3>1 DEF ViewsOK, apiVars
  <2> QED BY <2>1, <2>2
<1>3. ASSUME NEW s \in Sources, ObserveSource(s) PROVE ViewsOK'
  <2>1. /\ Observed(sources[s]) \in ViewOf(SourceOrNone) /\ WellFormed(Observed(sources[s]))
        /\ s[1] = "spc" => UpToDate(Observed(sources[s]))
    BY <1>3, ObservedView DEF ViewsOK, ObserveSource, SourceOrNone
  <2> QED BY <1>3, <2>1, SourceStep DEF ObserveSource
<1>4. ASSUME NEW o \in Outputs, ObserveOutput(o) PROVE ViewsOK'
  <2>1. Observed(outputs[o]) \in ViewOf(OutputOrNone) /\ WellFormed(Observed(outputs[o]))
    BY <1>4, ObservedView DEF ViewsOK, ObserveOutput, OutputOrNone
  <2> QED BY <1>4, <2>1, OutputStep DEF ObserveOutput
<1> QED BY <1>1, <1>2, <1>3, <1>4 DEF Observe

(* The steps of the handlers.                                              *)
LEMMA HandleViews == ViewsOK /\ Handle => ViewsOK'
<1> SUFFICES ASSUME ViewsOK, Handle PROVE ViewsOK'
  OBVIOUS
<1>1. ASSUME NEW d \in Domains, HandleDomain(d) PROVE ViewsOK'
  <2>1. Notified(domains[d]) \in ViewOf(DomainOrNone) /\ WellFormed(Notified(domains[d]))
    BY <1>1, NotifiedView DEF ViewsOK, HandleDomain, DomainOrNone
  <2> QED BY <1>1, <2>1, DomainStep DEF HandleDomain
<1>2. ASSUME NEW s \in Sources, HandleSource(s) PROVE ViewsOK'
  <2>1. /\ Notified(sources[s]) \in ViewOf(SourceOrNone) /\ WellFormed(Notified(sources[s]))
        /\ CanNotify(sources[s])
    BY <1>2, NotifiedView DEF ViewsOK, HandleSource, SourceOrNone
  <2>2. s[1] # "spc"
    <3>1. s[1] = "spc" => UpToDate(sources[s])
      BY DEF ViewsOK
    <3>2. sources[s] \in ViewOf(SourceOrNone) /\ WellFormed(sources[s])
      BY DEF ViewsOK, SourceOrNone
    <3>3. ~UpToDate(sources[s])
      BY <2>1, <3>2, EventsToCome
    <3> QED BY <3>1, <3>3
  <2> QED BY <1>2, <2>1, <2>2, SourceStep DEF HandleSource
<1>3. ASSUME NEW o \in Outputs, HandleOutput(o) PROVE ViewsOK'
  <2>1. Notified(outputs[o]) \in ViewOf(OutputOrNone) /\ WellFormed(Notified(outputs[o]))
    BY <1>3, NotifiedView DEF ViewsOK, HandleOutput, OutputOrNone
  <2> QED BY <1>3, <2>1, OutputStep DEF HandleOutput
<1> QED BY <1>1, <1>2, <1>3 DEF Handle

(* A crash loses the notifications, a restart lists all objects anew.      *)
LEMMA ProcessViews == ViewsOK /\ (Crash \/ Restart) => ViewsOK'
<1> SUFFICES ASSUME ViewsOK, Crash \/ Restart PROVE ViewsOK'
  OBVIOUS
<1>1. \A S : \A v \in S \cup {Absent} :
        /\ Unwatched(v) \in ViewOf(S \cup {Absent}) /\ WellFormed(Unwatched(v))
        /\ Listed(v) \in ViewOf(S \cup {Absent}) /\ WellFormed(Listed(v))
        /\ Unwatched(v).cached = 1 /\ UpToDate(Unwatched(v))
  BY UnwatchedView, ListedView DEF Unwatched, UpToDate
<1>2. CASE Crash
  BY <1>1, <1>2, ReadTypes DEF Crash, ViewsOK, TargetOrNone, DomainOrNone, SourceOrNone, OutputOrNone
<1>3. CASE Restart
  BY <1>1, <1>3, ReadTypes DEF Restart, ListedSource, ViewsOK, TargetOrNone, DomainOrNone,
        SourceOrNone, OutputOrNone
<1> QED BY <1>2, <1>3
-----------------------------------------------------------------------------
(* Steps of the queue and of the workers *)

\* What ControlOK says of a job.
JobOK(j) ==
    /\ j \in Jobs
    /\ j.pc # "idle" => j.key \in Domains
    /\ j.pc \in {"cleanup", "reset"} \cup Unready => j.domain # Absent
    /\ j.pc \in {"cleanup", "reset", "sync"} => j.left # {}

LEMMA IdleIsJob == JobOK(Idle) /\ Idle.pc = "idle"
BY DEF Idle, Jobs, Steps, JobOK, Unready

(* A worker goes from one job to another.                                  *)
LEMMA JobStep ==
    ASSUME ControlOK, UNCHANGED up, queue' \in QueueOver(Domains),
           NEW w \in Workers, NEW j, JobOK(j), job' = [job EXCEPT ![w] = j]
    PROVE  ControlOK'
BY DEF ControlOK, JobOK

(* The outputs a sync wants are of the kinds there are.                    *)
LEMMA WantedTypes ==
    ASSUME NEW v, NEW target
    PROVE  WantedKinds(v, target) \subseteq Kinds
BY DEF WantedKinds

(* The first of some kinds is one of them.                                 *)
LEMMA FirstIsOne ==
    ASSUME NEW kinds \in SUBSET Kinds, kinds # {}
    PROVE  First(kinds) \in kinds
BY KindsAssumption DEF First

(* What follows the cleanup is a job.                                      *)
LEMMA CleanedTypes ==
    ASSUME NEW j \in Jobs, j.key \in Domains, j.domain # Absent
    PROVE  JobOK(Cleaned(j))
<1> DEFINE kinds == WantedKinds(j.domain, j.target)
<1>1. kinds \subseteq Kinds
  BY WantedTypes
<1>2. Cleaned(j) = [j EXCEPT !.left = kinds, !.pc = IF kinds = {} THEN "done" ELSE "reset"]
  BY DEF Cleaned
<1> HIDE DEF kinds
<1> QED BY <1>1, <1>2 DEF JobOK, Jobs, Steps, Unready

(* Every step of a worker, failures included, keeps jobs jobs.             *)
LEMMA WorkerControl ==
    ASSUME ViewsOK, ControlOK, NEW w \in Workers,
           Work(w) \/ Fail(w) \/ \E d \in Ready(queue) : Take(w, d)
    PROVE  ControlOK'
<1> DEFINE d == job[w].key
<1>1. /\ job \in [Workers -> Jobs] /\ job[w] \in Jobs /\ queue \in QueueOver(Domains)
      /\ job[w].pc # "idle" => d \in Domains
      /\ JobOK(job[w])
  BY DEF ControlOK, JobOK
<1>2. ASSUME NEW pc \in {"done", "retry"}, job[w].pc # "idle", UNCHANGED <<up, queue>>,
             job' = [job EXCEPT ![w].pc = pc]
      PROVE  ControlOK'
  <2> DEFINE j == [job[w] EXCEPT !.pc = pc]
  <2>1. JobOK(j) /\ job' = [job EXCEPT ![w] = j]
    BY <1>1, <1>2 DEF JobOK, Jobs, Steps, Unready
  <2> HIDE DEF j
  <2> QED BY <1>1, <1>2, <2>1, JobStep
<1>3. ASSUME NEW k \in Ready(queue), Take(w, k) PROVE ControlOK'
  <2> DEFINE j == [Idle EXCEPT !.pc = "read", !.key = k]
  <2>1. k \in Domains
    BY <1>1 DEF Ready, QueueOver
  <2>2. JobOK(j) /\ job' = [job EXCEPT ![w] = j]
    BY <1>3, <2>1 DEF Take, JobOK, Jobs, Steps, Unready, Idle
  <2>3. queue' \in QueueOver(Domains) /\ UNCHANGED up
    BY <1>1, <1>3, <2>1, QueueTypes DEF Take
  <2> HIDE DEF j
  <2> QED BY <2>2, <2>3, JobStep
<1>4. CASE ReadDomain(w)
  <2> DEFINE v == Cached(domains[d])
             target == Cached(platforms[v.spec.platform])
             j == [job[w] EXCEPT !.domain = v, !.target = target, !.fresh = d \notin behind]
             unwanted == Kinds \ WantedKinds(v, target)
             cleaning == [j EXCEPT !.pc = "cleanup", !.left = unwanted]
  <2>1. job[w].pc = "read" /\ UNCHANGED <<up, queue>> /\ d \in Domains
    BY <1>1, <1>4 DEF ReadDomain
  <2>2. CASE v = Absent
    <3>1. job' = [job EXCEPT ![w].pc = "done"]
      BY <1>4, <2>2 DEF ReadDomain
    <3> QED BY <1>2, <2>1, <3>1
  <2>3. CASE v # Absent
    <3>1. v \in DomainVersions /\ target \in TargetOrNone
      <4>1. v \in DomainVersions
        BY <2>1, <2>3, ReadTypes DEF DomainOrNone
      <4>2. v.spec.platform \in Platforms
        BY <4>1 DEF DomainVersions, DomainSpec
      <4> QED BY <4>1, <4>2, ReadTypes
    <3>2. job' = [job EXCEPT ![w] = IF unwanted = {} THEN Cleaned(j) ELSE cleaning]
      BY <1>4, <2>3 DEF ReadDomain
    <3>3. j \in Jobs /\ j.key \in Domains /\ j.domain # Absent
      BY <1>1, <2>1, <2>3, <3>1 DEF Jobs, TargetOrNone
    <3>4. unwanted \subseteq Kinds
      OBVIOUS
    <3> HIDE DEF j, unwanted
    <3>5. unwanted # {} => JobOK(cleaning)
      BY <3>3, <3>4 DEF JobOK, Jobs, Steps
    <3>6. JobOK(Cleaned(j))
      BY <3>3, CleanedTypes
    <3> HIDE DEF cleaning
    <3> QED BY <1>1, <2>1, <3>2, <3>5, <3>6, JobStep
  <2> QED BY <2>2, <2>3
<1>5. CASE Cleanup(w)
  <2> DEFINE kind == First(job[w].left)
             less == [job[w] EXCEPT !.left = @ \ {kind}]
  <2>1. /\ job[w].pc = "cleanup" /\ UNCHANGED <<up, queue>> /\ d \in Domains
        /\ job[w].domain # Absent
        /\ job' = [job EXCEPT ![w] = IF job[w].left = {kind} THEN Cleaned(job[w]) ELSE less]
    BY <1>1, <1>5 DEF Cleanup, JobOK
  <2> HIDE DEF kind
  <2>2. job[w].left # {} /\ job[w].left # {kind} => JobOK(less)
    BY <1>1, <2>1 DEF JobOK, Jobs
  <2>3. JobOK(Cleaned(job[w]))
    BY <1>1, <2>1, CleanedTypes
  <2>4. job[w].left # {}
    BY <1>1, <2>1 DEF JobOK
  <2> HIDE DEF less
  <2> QED BY <1>1, <2>1, <2>2, <2>3, <2>4, JobStep
<1>6. CASE CleanupFails(w) \/ ResetFails(w)
  <2>1. job[w].pc # "idle" /\ UNCHANGED <<up, queue>> /\ job' = [job EXCEPT ![w].pc = "retry"]
    BY <1>6 DEF CleanupFails, ResetFails
  <2> QED BY <1>2, <2>1
<1>7. CASE ResetStatus(w)
  <2>1. job[w].pc = "reset" /\ UNCHANGED <<up, queue>> /\ job[w].domain # Absent
    BY <1>1, <1>7 DEF ResetStatus, JobOK
  <2>2. CASE job' = [job EXCEPT ![w].pc = "sync"]
    <3> DEFINE j == [job[w] EXCEPT !.pc = "sync"]
    <3>1. JobOK(j) /\ job' = [job EXCEPT ![w] = j]
      BY <1>1, <2>1, <2>2 DEF JobOK, Jobs, Steps
    <3> HIDE DEF j
    <3> QED BY <1>1, <2>1, <3>1, JobStep
  <2> QED BY <1>2, <1>7, <2>1, <2>2 DEF ResetStatus
<1>8. ASSUME NEW kind, kind = First(job[w].left), job[w].pc = "sync", UNCHANGED up, Synced(w, kind)
      PROVE  ControlOK'
  <2> DEFINE pc == IF job[w].left = {kind} THEN "succeed" ELSE "sync"
             j  == [job[w] EXCEPT !.left = @ \ {kind}, !.pc = pc]
  <2>1. job' = [job EXCEPT ![w] = j]
    BY <1>1, <1>8 DEF Synced
  <2>2. job[w].left # {kind} => job[w].left \ {kind} # {}
    BY <1>1, <1>8 DEF JobOK
  <2>3. JobOK(j)
    BY <1>1, <1>8, <2>2 DEF JobOK, Jobs, Steps, Unready
  <2>4. queue' \in QueueOver(Domains)
    BY <1>1, <1>8, QueueTypes DEF Synced
  <2> HIDE DEF j
  <2> QED BY <1>8, <2>1, <2>3, <2>4, JobStep
<1>9. ASSUME job[w].pc = "sync", UNCHANGED <<up, queue>>, job' = [job EXCEPT ![w].pc = "fail"]
      PROVE  ControlOK'
  <2> DEFINE j == [job[w] EXCEPT !.pc = "fail"]
  <2>1. JobOK(j) /\ job' = [job EXCEPT ![w] = j]
    BY <1>1, <1>9 DEF JobOK, Jobs, Steps, Unready
  <2> HIDE DEF j
  <2> QED BY <1>1, <1>9, <2>1, JobStep
<1>10. CASE Sync(w)
  <2>1. job[w].pc = "sync" /\ UNCHANGED up
    BY <1>10 DEF Sync
  <2>2. \/ Synced(w, First(job[w].left))
        \/ job' = [job EXCEPT ![w].pc = "fail"] /\ UNCHANGED queue
    BY <1>10 DEF Sync
  <2> QED BY <1>8, <1>9, <2>1, <2>2
<1>11. CASE SyncFails(w)
  BY <1>9, <1>11 DEF SyncFails
<1>12. ASSUME job[w].pc \in {"succeed", "fail"}, AfterUpdate(w), UNCHANGED <<up, queue>>
       PROVE  ControlOK'
  <2>1. \E pc \in {"done", "retry"} : job' = [job EXCEPT ![w].pc = pc]
    BY <1>1, <1>12 DEF AfterUpdate
  <2> QED BY <1>2, <1>12, <2>1
<1>13. CASE UpdateStatus(w)
  BY <1>12, <1>13 DEF UpdateStatus
<1>14. CASE UpdateFails(w)
  BY <1>12, <1>14 DEF UpdateFails
<1>15. CASE Finish(w)
  <2>1. d \in Domains /\ UNCHANGED up /\ job' = [job EXCEPT ![w] = Idle]
    BY <1>1, <1>15 DEF Finish
  <2>2. queue' \in QueueOver(Domains)
    <3>1. AddRateLimited(queue, d) \in QueueOver(Domains)
      BY <1>1, <2>1, QueueTypes
    <3> QED BY <1>1, <1>15, <2>1, <3>1, QueueTypes DEF Finish
  <2> QED BY <2>1, <2>2, IdleIsJob, JobStep
<1> QED BY <1>3, <1>4, <1>5, <1>6, <1>7, <1>10, <1>11, <1>13, <1>14, <1>15 DEF Work, Fail

\* The steps that are not a worker's.
Others ==
    \/ Edit \/ Observe \/ Handle \/ Crash \/ Restart
    \/ (\E o \in Outputs : Collect(o)) \/ (\E d \in queue.delayed : Retry(d))

(* Handlers add domains to the queue, a crash clears everything.           *)
LEMMA OtherControl ==
    ASSUME ControlOK, Others
    PROVE  ControlOK'
<1>1. queue \in QueueOver(Domains) /\ up \in BOOLEAN
  BY DEF ControlOK
<1>2. ASSUME UNCHANGED <<up, queue, job>> PROVE ControlOK'
  BY <1>2 DEF ControlOK
<1>3. ASSUME queue' \in QueueOver(Domains), UNCHANGED <<up, job>> PROVE ControlOK'
  BY <1>3 DEF ControlOK
<1>4. CASE Edit
  BY <1>2, <1>4 DEF Edit, CreateDomain, EditDomain, DeleteDomain, WriteDomain, EditPlatform,
                    EditSource, EditOutput
<1>5. CASE Observe \/ \E o \in Outputs : Collect(o)
  BY <1>2, <1>5 DEF Observe, ObservePlatform, ObserveDomain, ObserveSource, ObserveOutput, Collect
<1>6. ASSUME NEW keys, Enqueue(keys), UNCHANGED <<up, job>> PROVE ControlOK'
  <2>1. keys \cap Domains \in SUBSET Domains
    OBVIOUS
  <2> QED BY <1>1, <1>3, <1>6, <2>1, QueueTypes DEF Enqueue
<1>7. CASE Handle
  BY <1>6, <1>7 DEF Handle, HandleDomain, HandleSource, HandleOutput
<1>8. ASSUME NEW d \in queue.delayed, Retry(d) PROVE ControlOK'
  <2>1. d \in Domains
    BY <1>1 DEF QueueOver
  <2> QED BY <1>1, <1>3, <1>8, <2>1, QueueTypes DEF Retry
<1>9. CASE Crash
  BY <1>1, <1>9, QueueTypes, IdleIsJob DEF Crash, ControlOK, JobOK
<1>10. CASE Restart
  BY <1>10 DEF Restart, ControlOK
<1> QED BY <1>4, <1>5, <1>7, <1>8, <1>9, <1>10 DEF Others
-----------------------------------------------------------------------------
(* Steps of the outputs and of the status *)

\* What a worker may do to an output: delete it, or write what it built.
Syncing(w, kind, v) ==
    /\ job[w].pc = "sync" /\ kind = First(job[w].left)
    /\ \E data \in Wanted(job[w], kind, CachedSources) :
          /\ ~LeftAlone(job[w], kind, Cached(outputs[<<kind, job[w].key>>]), data)
          /\ ~WriteConflicts(<<kind, job[w].key>>)
          /\ v = Built(job[w], Cached(outputs[<<kind, job[w].key>>]), data)

Deleting(w, kind, v) ==
    job[w].pc = "cleanup" /\ kind = First(job[w].left) /\ v = Absent

(* The outputs a worker writes, and what it writes, are of the types.      *)
LEMMA WorkerWrites ==
    ASSUME ViewsOK, ControlOK, NEW w \in Workers, NEW kind, NEW v,
           Syncing(w, kind, v) \/ Deleting(w, kind, v)
    PROVE  <<kind, job[w].key>> \in Outputs /\ v \in OutputOrNone
<1> DEFINE j == job[w]
           o == <<kind, j.key>>
<1>1. /\ j \in Jobs /\ j.key \in Domains /\ j.left # {} /\ j.domain # Absent /\ j.left \subseteq Kinds
  BY DEF ControlOK, Syncing, Deleting, Jobs, Unready
<1>2. kind \in Kinds
  BY <1>1, FirstIsOne DEF Syncing, Deleting
<1>3. o \in Outputs
  BY <1>1, <1>2 DEF Outputs
<1>4. CASE Deleting(w, kind, v)
  BY <1>3, <1>4 DEF Deleting, OutputOrNone
<1>5. CASE Syncing(w, kind, v)
  <2>1. PICK data \in Wanted(j, kind, CachedSources) : v = Built(j, Cached(outputs[o]), data)
    BY <1>5 DEF Syncing
  <2>2. j.domain.spec.platform \in Platforms
    BY <1>1 DEF Jobs, DomainVersions, DomainSpec
  <2>3. data \in OutputData
    BY <2>1, <2>2, ListTypes, AggregateTypes DEF Wanted
  <2>4. Cached(outputs[o]) \in OutputOrNone
    BY <1>3, ReadTypes
  <2>5. v \in OutputVersions
    BY <1>1, <2>1, <2>3, <2>4, BuiltTypes
  <2> QED BY <1>3, <2>5 DEF OutputOrNone
<1> QED BY <1>4, <1>5

(* A worker writes one of the outputs of its domain, or none.              *)
LEMMA WorkerOutputs ==
    ASSUME ViewsOK, NEW w \in Workers,
           Work(w) \/ Fail(w) \/ \E d \in Ready(queue) : Take(w, d)
    PROVE  /\ UNCHANGED <<apiVars, up>>
           /\ \/ UNCHANGED outputs
              \/ \E kind, v : /\ Syncing(w, kind, v) \/ Deleting(w, kind, v)
                              /\ WriteOutput(<<kind, job[w].key>>, v)
<1>1. UNCHANGED <<apiVars, up>>
  BY DEF Work, Fail, ReadDomain, Cleanup, ResetStatus, Sync, UpdateStatus, Finish, CleanupFails,
         ResetFails, SyncFails, UpdateFails, Take
<1> DEFINE kind == First(job[w].left)
<1>2. CASE Cleanup(w) \/ CleanupFails(w)
  <2>1. UNCHANGED outputs \/ WriteOutput(<<kind, job[w].key>>, Absent)
    BY <1>2 DEF Cleanup, CleanupFails
  <2>2. Deleting(w, kind, Absent)
    BY <1>2 DEF Cleanup, CleanupFails, Deleting
  <2> QED BY <1>1, <2>1, <2>2
<1>3. CASE Sync(w) \/ SyncFails(w)
  <2> DEFINE stored == Cached(outputs[<<kind, job[w].key>>])
  <2>1. \/ UNCHANGED outputs
        \/ \E data \in Wanted(job[w], kind, CachedSources) :
              /\ ~LeftAlone(job[w], kind, stored, data) /\ ~WriteConflicts(<<kind, job[w].key>>)
              /\ WriteOutput(<<kind, job[w].key>>, Built(job[w], stored, data))
    BY <1>3 DEF Sync, SyncFails
  <2>2. job[w].pc = "sync"
    BY <1>3 DEF Sync, SyncFails
  <2>3. \A data \in Wanted(job[w], kind, CachedSources) :
            /\ ~LeftAlone(job[w], kind, stored, data) /\ ~WriteConflicts(<<kind, job[w].key>>)
            => Syncing(w, kind, Built(job[w], stored, data))
    BY <2>2 DEF Syncing
  <2> HIDE DEF stored, kind
  <2> QED BY <1>1, <2>1, <2>3
<1>4. CASE \/ ReadDomain(w) \/ ResetStatus(w) \/ UpdateStatus(w) \/ Finish(w)
           \/ ResetFails(w) \/ UpdateFails(w) \/ \E d \in Ready(queue) : Take(w, d)
  BY <1>1, <1>4 DEF ReadDomain, ResetStatus, UpdateStatus, Finish, ResetFails, UpdateFails, Take
<1> QED BY <1>2, <1>3, <1>4 DEF Work, Fail

LEMMA WorkerViews ==
    ASSUME ViewsOK, ControlOK, NEW w \in Workers,
           Work(w) \/ Fail(w) \/ \E d \in Ready(queue) : Take(w, d)
    PROVE  ViewsOK'
<1>1. UNCHANGED apiVars
  BY WorkerOutputs
<1>2. CASE UNCHANGED outputs
  BY <1>1, <1>2 DEF ViewsOK, apiVars
<1>3. ASSUME NEW kind, NEW v, Syncing(w, kind, v) \/ Deleting(w, kind, v),
             WriteOutput(<<kind, job[w].key>>, v)
      PROVE  ViewsOK'
  BY <1>1, <1>3, WorkerWrites, WriteOutputView
<1> QED BY <1>2, <1>3, WorkerOutputs

(* A bounded action uses its bound up by one.                              *)
LEMMA SpendTypes ==
    ASSUME StatusOK
    PROVE  LET Spent == [edits : 0 .. MaxEdits, failures : 0 .. MaxFailures,
                         crashes : 0 .. MaxCrashes]
           IN  /\ spent.edits < MaxEdits /\ Spend("edits") =>
                    spent' \in Spent /\ spent'.edits = spent.edits + 1
               /\ spent.failures < MaxFailures /\ Spend("failures") =>
                    spent' \in Spent /\ spent'.edits = spent.edits
               /\ spent.crashes < MaxCrashes /\ Spend("crashes") =>
                    spent' \in Spent /\ spent'.edits = spent.edits
BY BoundsAssumption DEF StatusOK, Spend

(* A worker sets the condition of its domain, and no edits are counted.    *)
LEMMA WorkerStatus ==
    ASSUME ControlOK, StatusOK, NEW w \in Workers,
           Work(w) \/ Fail(w) \/ \E d \in Ready(queue) : Take(w, d)
    PROVE  StatusOK' /\ spent'.edits = spent.edits
<1> DEFINE d == job[w].key
<1>1. job[w].pc # "idle" => d \in Domains
  BY DEF ControlOK
<1>2. ASSUME NEW status \in {"Unknown", "False", "True"}, d \in Domains, SetReady(d, status)
      PROVE  /\ ready' \in [Domains -> {"none", "Unknown", "False", "True"}]
             /\ behind' \subseteq Domains
  BY <1>2 DEF StatusOK, SetReady
<1>3. CASE ResetStatus(w)
  BY <1>1, <1>2, <1>3 DEF ResetStatus, StatusOK
<1>4. CASE ResetFails(w)
  BY <1>1, <1>2, <1>4, SpendTypes DEF ResetFails, StatusOK
<1>5. CASE UpdateStatus(w)
  BY <1>1, <1>2, <1>5 DEF UpdateStatus, StatusOK
<1>6. CASE CleanupFails(w) \/ SyncFails(w) \/ UpdateFails(w)
  BY <1>6, SpendTypes DEF CleanupFails, SyncFails, UpdateFails, StatusOK
<1>7. CASE \/ ReadDomain(w) \/ Cleanup(w) \/ Sync(w) \/ Finish(w)
           \/ \E k \in Ready(queue) : Take(w, k)
  BY <1>7 DEF ReadDomain, Cleanup, Sync, Finish, Take, StatusOK
<1> QED BY <1>3, <1>4, <1>5, <1>6, <1>7 DEF Work, Fail

(* A domain that comes or goes has no condition.                           *)
LEMMA OtherStatus ==
    ASSUME StatusOK, Others
    PROVE  StatusOK' /\ spent'.edits = spent.edits + (IF Edit THEN 1 ELSE 0)
<1>0. spent.edits \in Nat
  BY BoundsAssumption DEF StatusOK
<1>1. CASE Edit
  <2>1. spent.edits < MaxEdits /\ Spend("edits") /\ UNCHANGED behind
    BY <1>1 DEF Edit, CreateDomain, EditDomain, DeleteDomain, WriteDomain, EditPlatform,
                EditSource, EditOutput
  <2>2. \/ UNCHANGED ready
        \/ \E d \in Domains : ready' = [ready EXCEPT ![d] = "none"]
    BY <1>1 DEF Edit, CreateDomain, EditDomain, DeleteDomain, WriteDomain, EditPlatform,
                EditSource, EditOutput
  <2> QED BY <1>1, <2>1, <2>2, SpendTypes DEF StatusOK
<1>2. CASE ~Edit
  <2>1. CASE Crash
    BY <1>0, <1>2, <2>1, SpendTypes DEF Crash, StatusOK
  <2>2. CASE Observe
    BY <1>0, <1>2, <2>2 DEF Observe, ObservePlatform, ObserveDomain, ObserveSource, ObserveOutput, StatusOK
  <2>3. CASE Handle \/ Restart \/ (\E o \in Outputs : Collect(o)) \/ (\E d \in queue.delayed : Retry(d))
    BY <1>0, <1>2, <2>3 DEF Handle, HandleDomain, HandleSource, HandleOutput, Restart, Collect, Retry, StatusOK
  <2> QED BY <1>2, <2>1, <2>2, <2>3 DEF Others
<1> QED BY <1>1, <1>2
-----------------------------------------------------------------------------
(* Types *)

\* What an edit of a domain does.
WritingDomain(d, v) ==
    /\ v \in DomainOrNone /\ v # Live(domains[d])
    /\ v # Absent => v.rv = spent.edits + 1
    /\ v # Absent => v.uid = IF Live(domains[d]) = Absent THEN spent.edits + 1
                             ELSE Live(domains[d]).uid
    /\ domains' = [domains EXCEPT ![d] = Write(@, v)]
    /\ UNCHANGED <<platforms, sources, outputs>>
    /\ ready' = IF v # Absent /\ Live(domains[d]) # Absent
                THEN ready ELSE [ready EXCEPT ![d] = "none"]

(* An edit is of a domain, or leaves the domains and their conditions alone.*)
LEMMA EditEffect ==
    ASSUME TypeOK, VersionsArePast, Edit
    PROVE  /\ UNCHANGED <<up, behind, job, queue>>
           /\ \/ UNCHANGED <<domains, ready>>
              \/ \E d \in Domains, v \in DomainOrNone : WritingDomain(d, v)
<1>1. ViewsOK /\ StatusOK
  BY DEF TypeOK
<1>2. UNCHANGED <<up, behind, job, queue>> /\ spent.edits < MaxEdits
  BY DEF Edit, CreateDomain, EditDomain, DeleteDomain, WriteDomain, EditPlatform, EditSource, EditOutput
<1>3. ASSUME NEW d \in Domains, NEW spec \in DomainVals[d], CreateDomain(d, spec)
      PROVE  \E v \in DomainOrNone : WritingDomain(d, v)
  <2> DEFINE v == [rv |-> spent.edits + 1, uid |-> spent.edits + 1, spec |-> spec]
  <2>1. /\ Live(domains[d]) = Absent /\ domains' = [domains EXCEPT ![d] = Write(@, v)]
        /\ UNCHANGED <<platforms, sources, outputs>> /\ ready' = [ready EXCEPT ![d] = "none"]
    BY <1>3 DEF CreateDomain, WriteDomain
  <2>2. v \in DomainVersions /\ v.rv = spent.edits + 1 /\ v.uid = spent.edits + 1
    BY <1>1, <1>2, EditsAreNew
  <2>3. v # Absent
    BY <2>2, VersionsAreSpecs
  <2> HIDE DEF v
  <2>4. WritingDomain(d, v)
    BY <2>1, <2>2, <2>3 DEF WritingDomain, DomainOrNone
  <2> QED BY <2>2, <2>4 DEF DomainOrNone
<1>4. ASSUME NEW d \in Domains, NEW spec \in DomainVals[d], EditDomain(d, spec)
      PROVE  \E v \in DomainOrNone : WritingDomain(d, v)
  <2> DEFINE v == [Live(domains[d]) EXCEPT !.rv = spent.edits + 1, !.spec = spec]
  <2>1. /\ Live(domains[d]) # Absent /\ domains' = [domains EXCEPT ![d] = Write(@, v)]
        /\ UNCHANGED <<platforms, sources, outputs>> /\ UNCHANGED ready
    BY <1>4 DEF EditDomain, WriteDomain
  <2>2. v \in DomainVersions /\ Live(domains[d]) \in DomainVersions
    BY <1>1, <1>2, <2>1, EditsAreNew
  <2>3. v.rv = spent.edits + 1 /\ v.uid = Live(domains[d]).uid
    BY <2>2 DEF DomainVersions
  <2>4. v # Live(domains[d]) /\ v # Absent
    BY <1>1, <1>2, <2>1, <2>2, <2>3, EditsAreNew, VersionsAreSpecs
  <2> HIDE DEF v
  <2>5. WritingDomain(d, v)
    BY <2>1, <2>2, <2>3, <2>4 DEF WritingDomain, DomainOrNone
  <2> QED BY <2>2, <2>5 DEF DomainOrNone
<1>5. ASSUME NEW d \in Domains, DeleteDomain(d)
      PROVE  Absent \in DomainOrNone /\ WritingDomain(d, Absent)
  BY <1>5 DEF DeleteDomain, WriteDomain, WritingDomain, DomainOrNone
<1>6. ASSUME \/ \E p \in Platforms, ns \in Namespaces \cup {Absent} : EditPlatform(p, ns)
             \/ \E s \in Sources : \E v \in SourceVals[s] \cup {Absent} : EditSource(s, v)
             \/ \E o \in Outputs : \E v \in Tampered(o) : EditOutput(o, v)
      PROVE  UNCHANGED <<domains, ready>>
  BY <1>6 DEF EditPlatform, EditSource, EditOutput, apiVars
<1> QED BY <1>2, <1>3, <1>4, <1>5, <1>6 DEF Edit

(* Informers, handlers and the process know of no version but the last.     *)
LEMMA LastVersionsStay ==
    ASSUME ViewsOK, Observe \/ Handle \/ Crash \/ Restart
    PROVE  /\ \A p \in Platforms : Live(platforms'[p]) = Live(platforms[p])
           /\ \A d \in Domains : Live(domains'[d]) = Live(domains[d])
           /\ \A s \in Sources : Live(sources'[s]) = Live(sources[s])
           /\ \A o \in Outputs : Live(outputs'[o]) = Live(outputs[o])
<1>1. /\ platforms \in [Platforms -> ViewOf(TargetOrNone)]
      /\ domains \in [Domains -> ViewOf(DomainOrNone)]
      /\ sources \in [Sources -> ViewOf(SourceOrNone)]
      /\ outputs \in [Outputs -> ViewOf(OutputOrNone)]
      /\ \A p \in Platforms : WellFormed(platforms[p])
      /\ \A d \in Domains : WellFormed(domains[d])
      /\ \A s \in Sources : WellFormed(sources[s])
      /\ \A o \in Outputs : WellFormed(outputs[o])
  BY DEF ViewsOK, TargetOrNone, DomainOrNone, SourceOrNone, OutputOrNone
<1>2. \A S : \A view \in ViewOf(S) : WellFormed(view) =>
        /\ CanObserve(view) => Live(Observed(view)) = Live(view)
        /\ CanNotify(view) => Live(Notified(view)) = Live(view)
  BY ObservedView, NotifiedView
<1>3. \A v : Live(Unwatched(v)) = v /\ Live(Listed(v)) = v
  BY DEF Live, Unwatched, Listed
<1>4. ASSUME NEW p \in Platforms, CanObserve(platforms[p])
      PROVE  Live(Notified(Observed(platforms[p]))) = Live(platforms[p])
  <2>1. /\ Observed(platforms[p]) \in ViewOf(TargetOrNone) /\ WellFormed(Observed(platforms[p]))
        /\ Live(Observed(platforms[p])) = Live(platforms[p])
    BY <1>1, <1>4, ObservedView
  <2>2. CanNotify(Observed(platforms[p]))
    <3>1. platforms[p].cached \in Nat /\ platforms[p].cached >= 1
      BY <1>1 DEF ViewOf, WellFormed
    <3>2. Observed(platforms[p]).cached = platforms[p].cached + 1
      BY <1>1 DEF Observed, ViewOf
    <3> QED BY <3>1, <3>2 DEF CanNotify
  <2> QED BY <1>2, <2>1, <2>2
<1>5. CASE Observe
  BY <1>1, <1>2, <1>4, <1>5
     DEF Observe, ObservePlatform, ObserveDomain, ObserveSource, ObserveOutput, apiVars
<1>6. CASE Handle
  BY <1>1, <1>2, <1>6 DEF Handle, HandleDomain, HandleSource, HandleOutput, apiVars
<1>7. CASE Crash
  BY <1>3, <1>7 DEF Crash
<1>8. CASE Restart
  BY <1>3, <1>8 DEF Restart, ListedSource
<1> QED BY <1>5, <1>6, <1>7, <1>8

LEMMA PastStep ==
    ASSUME TypeOK, VersionsArePast, [Next]_vars
    PROVE  VersionsArePast'
<1>1. ViewsOK /\ ControlOK /\ StatusOK
  BY DEF TypeOK
<1>2. ASSUME spent'.edits = spent.edits,
             \A d \in Domains : Live(domains'[d]) = Live(domains[d])
      PROVE  VersionsArePast'
  BY <1>2 DEF VersionsArePast
<1>3. CASE Edit
  <2>1. spent'.edits = spent.edits + 1 /\ spent.edits \in Nat
    BY <1>1, <1>3, OtherStatus, BoundsAssumption DEF Others, StatusOK
  <2> SUFFICES ASSUME NEW e \in Domains, Live(domains'[e]) # Absent
               PROVE  /\ Live(domains'[e]).rv <= spent.edits + 1
                      /\ Live(domains'[e]).uid <= spent.edits + 1
    BY <2>1 DEF VersionsArePast
  <2>2. ASSUME Live(domains[e]) # Absent
        PROVE  /\ Live(domains[e]).rv \in Nat /\ Live(domains[e]).rv <= spent.edits
               /\ Live(domains[e]).uid \in Nat /\ Live(domains[e]).uid <= spent.edits
    <3>1. Live(domains[e]) \in DomainVersions
      BY <1>1, <2>2, ReadTypes DEF DomainOrNone
    <3> QED BY <2>2, <3>1, BoundsAssumption DEF VersionsArePast, DomainVersions
  <2>3. CASE domains'[e] = domains[e]
    BY <2>1, <2>2, <2>3
  <2>4. ASSUME NEW v, WritingDomain(e, v)
        PROVE  /\ Live(domains'[e]).rv <= spent.edits + 1
               /\ Live(domains'[e]).uid <= spent.edits + 1
    <3>1. domains'[e] = Write(domains[e], v)
      BY <1>1, <2>4 DEF WritingDomain, ViewsOK
    <3>2. Live(Write(domains[e], v)) = v
      BY <1>1, <2>4, WriteView DEF WritingDomain, ViewsOK, DomainOrNone
    <3> QED BY <2>1, <2>2, <2>4, <3>1, <3>2 DEF WritingDomain
  <2>5. ASSUME NEW d \in Domains, NEW v, WritingDomain(d, v), d # e
        PROVE  domains'[e] = domains[e]
    BY <2>5 DEF WritingDomain
  <2> QED BY <1>3, <2>3, <2>4, <2>5, EditEffect
<1>4. CASE (Observe \/ Handle \/ Crash \/ Restart) /\ ~Edit
  <2>1. spent'.edits = spent.edits
    BY <1>1, <1>4, OtherStatus, BoundsAssumption DEF Others, StatusOK
  <2> QED BY <1>1, <1>2, <1>4, <2>1, LastVersionsStay
<1>5. CASE (\E o \in Outputs : Collect(o)) \/ (\E d \in queue.delayed : Retry(d))
  BY <1>2, <1>5 DEF Collect, Retry, apiVars
<1>6. ASSUME NEW w \in Workers, Work(w) \/ Fail(w) \/ \E d \in Ready(queue) : Take(w, d)
      PROVE  VersionsArePast'
  BY <1>1, <1>2, <1>6, WorkerOutputs, WorkerStatus DEF apiVars
<1>7. CASE UNCHANGED vars
  BY <1>2, <1>7 DEF vars, apiVars
<1> QED BY <1>3, <1>4, <1>5, <1>6, <1>7 DEF Next

LEMMA NextTypes ==
    ASSUME TypeOK, VersionsArePast, [Next]_vars
    PROVE  TypeOK'
<1>1. ViewsOK /\ ControlOK /\ StatusOK
  BY DEF TypeOK
<1>2. CASE Others
  <2>1. ViewsOK'
    <3>1. CASE \E d \in queue.delayed : Retry(d)
      <4>1. UNCHANGED <<apiVars, outputs>>
        BY <3>1 DEF Retry
      <4> QED BY <1>1, <4>1 DEF apiVars, ViewsOK
    <3> QED BY <1>1, <1>2, <3>1, EditViews, CollectViews, ObserveViews, HandleViews, ProcessViews
            DEF Others
  <2> QED BY <1>1, <1>2, <2>1, OtherControl, OtherStatus DEF TypeOK
<1>3. ASSUME NEW w \in Workers, Work(w) \/ Fail(w) \/ \E d \in Ready(queue) : Take(w, d)
      PROVE  TypeOK'
  BY <1>1, <1>3, WorkerViews, WorkerControl, WorkerStatus DEF TypeOK
<1>4. CASE UNCHANGED vars
  BY <1>1, <1>4 DEF vars, apiVars, TypeOK, ViewsOK, ControlOK, StatusOK
<1> QED BY <1>2, <1>3, <1>4 DEF Next, Others

LEMMA InitTypes == Init => TypeOK /\ VersionsArePast
<1> SUFFICES ASSUME Init PROVE TypeOK /\ VersionsArePast
  OBVIOUS
<1>1. PICK api \in InitialApi :
        /\ platforms = [p \in Platforms |-> Unwatched(api.platforms[p])]
        /\ domains = [d \in Domains |-> Listed(FirstVersion(api.domains[d]))]
        /\ sources = [s \in Sources |-> ListedSource(s, api.sources[s])]
        /\ outputs = [o \in Outputs |-> Unwatched(Absent)]
  BY DEF Init
<1>2. \A S : \A v \in S \cup {Absent} :
        /\ Unwatched(v) \in ViewOf(S \cup {Absent}) /\ WellFormed(Unwatched(v))
        /\ Listed(v) \in ViewOf(S \cup {Absent}) /\ WellFormed(Listed(v))
        /\ Unwatched(v).cached = 1 /\ UpToDate(Unwatched(v))
        /\ Live(Listed(v)) = v
  BY UnwatchedView, ListedView DEF Unwatched, UpToDate
<1>3. /\ \A p \in Platforms : api.platforms[p] \in Namespaces \cup {Absent}
      /\ \A s \in Sources : api.sources[s] \in SourceSpec \cup {Absent}
      /\ \A d \in Domains : api.domains[d] \in DomainSpec \cup {Absent}
  BY InitialAssumption, VersionsAreSpecs
<1>4. \A d \in Domains : /\ FirstVersion(api.domains[d]) \in DomainVersions \cup {Absent}
                         /\ FirstVersion(api.domains[d]) # Absent =>
                              /\ FirstVersion(api.domains[d]).rv = 0
                              /\ FirstVersion(api.domains[d]).uid = 0
  BY <1>3, BoundsAssumption DEF FirstVersion, DomainVersions
<1>5. ViewsOK
  BY <1>1, <1>2, <1>3, <1>4 DEF ViewsOK, ListedSource
<1>6. ControlOK
  <2>1. EmptyQueue \in QueueOver(Domains)
    BY DEF EmptyQueue, QueueOver
  <2> QED BY <2>1, IdleIsJob DEF Init, ControlOK, JobOK
<1>7. StatusOK
  BY BoundsAssumption DEF Init, StatusOK
<1>8. VersionsArePast
  <2>1. spent.edits = 0
    BY DEF Init
  <2>2. \A d \in Domains : Live(domains[d]) = FirstVersion(api.domains[d])
    BY <1>1, <1>2, <1>4
  <2> QED BY <1>4, <2>1, <2>2 DEF VersionsArePast
<1> QED BY <1>5, <1>6, <1>7, <1>8 DEF TypeOK

(* Every variable of the configuration domain controller stays in its set,  *)
(* whatever the handlers, workers, users, the garbage collector and the      *)
(* crashes do: the store is never ahead of the API server, and a worker past *)
(* its first read has a domain and an output in hand.                        *)
THEOREM TypesAreCorrect == Spec => [](TypeOK /\ VersionsArePast)
<1>1. TypeOK /\ VersionsArePast /\ [Next]_vars => (TypeOK /\ VersionsArePast)'
  BY NextTypes, PastStep
<1> QED BY <1>1, InitTypes, PTL DEF Spec
=============================================================================
