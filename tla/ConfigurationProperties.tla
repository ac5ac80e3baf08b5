---------------------- MODULE ConfigurationProperties ----------------------
(***************************************************************************)
(* What the configuration domain controller promises.                      *)
(***************************************************************************)
EXTENDS ConfigurationDomain

Steps == {"idle", "read", "cleanup", "reset", "sync", "succeed", "fail", "done", "retry"}

\* The steps between the two status writes of a sync.
Unready == {"sync", "succeed", "fail"}

Jobs == [pc : Steps, key : Domains \cup {NoDomain},
         domain : DomainVersions \cup {Absent}, target : Namespaces \cup {Absent},
         fresh : BOOLEAN, left : SUBSET Kinds]

ViewsOK ==
    /\ platforms \in [Platforms -> ViewOf(Namespaces \cup {Absent})]
    /\ domains \in [Domains -> ViewOf(DomainVersions \cup {Absent})]
    /\ sources \in [Sources -> ViewOf(SourceSpec \cup {Absent})]
    /\ outputs \in [Outputs -> ViewOf(OutputVersions \cup {Absent})]
    /\ \A p \in Platforms : WellFormed(platforms[p]) /\ platforms[p].cached = 1
    /\ \A d \in Domains : WellFormed(domains[d])
    /\ \A s \in Sources : WellFormed(sources[s]) /\ (s[1] = "spc" => UpToDate(sources[s]))
    /\ \A o \in Outputs : WellFormed(outputs[o])

ControlOK ==
    /\ up \in BOOLEAN
    /\ queue \in QueueOver(Domains)
    /\ job \in [Workers -> Jobs]
    /\ \A w \in Workers :
            LET j == job[w]
            IN  /\ j.pc # "idle" => j.key \in Domains
                /\ j.pc \in {"cleanup", "reset"} \cup Unready => j.domain # Absent
                /\ j.pc \in {"cleanup", "reset", "sync"} => j.left # {}

StatusOK ==
    /\ ready \in [Domains -> {"none", "Unknown", "False", "True"}]
    /\ behind \subseteq Domains
    /\ spent \in [edits : 0 .. MaxEdits, failures : 0 .. MaxFailures,
                  crashes : 0 .. MaxCrashes]

(* Types: every variable stays in its set; a store is never ahead of the API *)
(* server or behind the handlers, every notification to come is of a change, *)
(* and a worker past its first read has a domain and an output in hand.      *)
TypeOK == ViewsOK /\ ControlOK /\ StatusOK
-----------------------------------------------------------------------------
Busy(w) == job[w].pc # "idle"

\* The controller, the informers and the garbage collector have nothing to do.
Settled(d) ==
    /\ up
    /\ d \notin queue.dirty \cup queue.processing \cup queue.delayed
    /\ \A p \in Platforms : UpToDate(platforms[p])
    /\ \A e \in Domains : UpToDate(domains[e])
    /\ \A s \in Sources : UpToDate(sources[s])
    /\ \A o \in Outputs : UpToDate(outputs[o]) /\ ~Orphan(o)

LiveTarget(v) == Live(platforms[v.spec.platform])

\* The outputs of d that the API server's objects ask for.
Asked(d) ==
    LET v == Live(domains[d])
    IN  IF v = Absent THEN {} ELSE WantedKinds(v, LiveTarget(v))

\* What the API server's objects aggregate to; any of several, if two objects
\* of one layer have a key in common.
Aggregated(d, kind) ==
    LET v == Live(domains[d])
    IN  Aggregates(d, kind, v.spec.platform, LiveTarget(v), LiveSources)

IsAggregated(d, kind) ==
    LET output == Live(outputs[<<kind, d>>])
    IN  /\ output # Absent
        /\ output.owner \in {Live(domains[d]).uid, Foreign}
        /\ output.owner # Foreign => output.data \in Aggregated(d, kind)

(* "If the existing ConfigMap data differs from the aggregation result we    *)
(* should update the ConfigMap resource" (configuration_handler.go:94-95): at*)
(* rest the output of a domain is the aggregation of what the API server has,*)
(* or somebody else's.  The store of the outputs may be any number of writes *)
(* behind: the events of the outputs themselves make up for it.              *)
SettledIsAggregated ==
    \A d \in Domains : Settled(d) =>
        \A kind \in Asked(d) : d \notin Unselectable => IsAggregated(d, kind)

(* At rest there is no output that the domain does not ask for, nor one that *)
(* an earlier domain of its name left (Cleanup, the garbage collector).      *)
SettledIsCleanedUp ==
    \A d \in Domains : Settled(d) =>
        \A kind \in Kinds \ Asked(d) :
            LET output == Live(outputs[<<kind, d>>])
            IN  output = Absent \/ output.owner = Foreign

(* While a worker creates and updates the outputs of a domain, the domain is *)
(* not Ready (resetStatus before the first Sync, updateStatus after the      *)
(* last).  What Cleanup deletes before it, it deletes from a Ready domain.   *)
ReadyIsWithdrawn ==
    \A w \in Workers : job[w].pc \in Unready => ready[job[w].key] # "True"

\* The objects that are labelled with the domain itself.
Own(d) ==
    {s \in Present(LiveSources) :
        LET object == LiveSources[s]
        IN  /\ s[1] = "configMap" /\ s[3] # d[2]
            /\ object.platform = Live(domains[d]).spec.platform
            /\ \/ object.domain = d[2] /\ s[2] = d[1]
               \/ object.domain = d[2] \o d[1]}

(* A domain's own ConfigMaps take precedence over the global ones, whichever *)
(* way the labels of either came and went: at rest the value of a key of an  *)
(* own ConfigMap is one that an own ConfigMap gives it (the order of the     *)
(* lists in getConfigMapsFor).                                               *)
OwnConfigWins ==
    \A d \in Domains : Settled(d) /\ "configMap" \in Asked(d) /\ d \notin Unselectable =>
        LET output == Live(outputs[<<"configMap", d>>])
            own    == UNION {LiveSources[s].data : s \in Own(d)}
        IN  output.owner # Foreign =>
                \A e \in output.data : (\E f \in own : f[1] = e[1]) => e \in own
-----------------------------------------------------------------------------
(* The controller as a reconciler of the aggregated ConfigMaps *)

Coming(view, On(_, _)) ==
    UNION {On(view.log[i], view.log[i + 1]) : i \in 1 .. Len(view.log) - 1}

\* Work that is queued or delayed, that an event under way will queue, or that
\* the event of a ConfigMap will queue once the garbage collector deletes it.
PendingKeys ==
    IF ~up THEN Domains
    ELSE queue.dirty \cup queue.delayed
           \cup (UNION {Coming(domains[d], LAMBDA old, new : OnDomain(d, old, new)) : d \in Domains})
           \cup (UNION {Coming(sources[s], LAMBDA old, new : OnSource(s, old, new)) : s \in Sources})
           \cup (UNION {Coming(outputs[o], LAMBDA old, new : OnOutput(o, old, new)) : o \in Outputs})
           \cup {d \in Domains : Orphan(<<"configMap", d>>)}

AskedMap(d) ==
    IF "configMap" \in Asked(d)
    THEN [owner |-> Live(domains[d]).uid,
          data |-> CHOOSE data \in Aggregated(d, "configMap") : TRUE]
    ELSE Absent

LiveMap(d) ==
    LET output == Live(outputs[<<"configMap", d>>])
    IN  IF output = Absent \/ "configMap" \notin Asked(d) THEN Absent
        ELSE [owner |-> output.owner, data |-> output.data]

Register == INSTANCE Reconciler WITH
    Keys <- Domains,
    wanted <- [d \in Domains |-> AskedMap(d)],
    built <- [d \in Domains |-> LiveMap(d)],
    pending <- PendingKeys,
    syncing <- {job[w].key : w \in {v \in Workers : Busy(v)}}

(* The controller implements the reconciler: a domain whose ConfigMap is not *)
(* the aggregation of what the API server has is always queued, under work,  *)
(* or to be woken by an event under way, whatever edits, failures, crashes,  *)
(* conflicts and stale stores came before (the handlers, syncHandler).       *)
ImplementsReconciler == Register!Spec
-----------------------------------------------------------------------------
(* Fairness: each informer takes the events of its objects in turn, whatever *)
(* the others do; a domain that is synced again and again makes events for   *)
(* ever.  Retry is also the interval after which a domain with secrets is    *)
(* synced again.  The rest is as for the platform controller.                *)
Fairness ==
    /\ WF_vars(Restart)
    /\ \A p \in Platforms : WF_vars(ObservePlatform(p))
    /\ \A d \in Domains : WF_vars(ObserveDomain(d)) /\ WF_vars(HandleDomain(d))
    /\ \A s \in Sources : WF_vars(ObserveSource(s)) /\ WF_vars(HandleSource(s))
    /\ \A o \in Outputs : WF_vars(ObserveOutput(o)) /\ WF_vars(HandleOutput(o))
    /\ WF_vars(\E o \in Outputs : Collect(o))
    /\ \A d \in Domains : WF_vars(Retry(d))
    /\ \A d \in Domains : SF_vars(\E w \in Workers : Take(w, d))
    /\ \A w \in Workers : WF_vars(Work(w))

FairSpec == Spec /\ Fairness

(* Once the edits and failures end, each output a domain asks for becomes the*)
(* aggregation of what the API server and Vault hold, for good, and is       *)
(* deleted otherwise: nobody tells the controller of changes in Vault, the   *)
(* requeue after each sync finds them (syncHandler, AddAfter).  This needs   *)
(* that no Platform comes, or comes back: the sync of a domain without one   *)
(* ends before the requeue, and the events of Platforms wake nobody.         *)
EventuallyAggregated ==
    \A d \in Domains \ Unselectable : \A kind \in Kinds :
        <>[](IF kind \in Asked(d) THEN IsAggregated(d, kind)
             ELSE Live(outputs[<<kind, d>>]) = Absent \/ Live(outputs[<<kind, d>>]).owner = Foreign)
=============================================================================
