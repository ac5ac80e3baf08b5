---------------------------- MODULE StackUpdate ----------------------------
(***************************************************************************)
(* What the provisioner does to the Pulumi stack of a target: it updates   *)
(* the stack to the manifests of a sync or, without any, destroys it.  An  *)
(* update refreshes the state of the stack, then runs a program that       *)
(* registers the resources, each after those it depends on; Pulumi creates,*)
(* imports, updates and replaces what is registered, and deletes the rest. *)
(* Imported resources whose inputs may have drifted are brought up to date *)
(* by a second update, but for buckets, which are so in the next sync.     *)
(*                                                                         *)
(* A resource here is a provisioning object; that it stands for several    *)
(* Pulumi resources is abstracted: the one that the others are there for is*)
(* the one that waits for the dependencies (the address and the network    *)
(* card of a virtual machine do not, the machine does).  Each target has a *)
(* stack, and no two workers are on one stack (OneWorkerPerStack of the    *)
(* provisioning controller), so a target is also the worker that is on its *)
(* stack.                                                                  *)
(***************************************************************************)
EXTENDS Naturals, Sequences, FiniteSets

CONSTANTS
    Targets, Nobody,
    Resources,          \* records [kind, name]
    Order,              \* of the loops over the kinds: a sequence of Resources
    DependsOn,          \* of each resource: a sequence of Resources
    Stateful,           \* importable, and retained if the target says so
    Undelayed,          \* AzurePowerShellScripts: their dependencies go no further
    Drifting,           \* imported with some inputs ignored, which a second update sets
    Buckets,            \* on the MinIO server; imported with some inputs ignored too
    Scripts,            \* LocalScripts, with templates in their environment
    SkipRefresh,        \* PULUMI_SKIP_REFRESH
    Manifests,          \* what a sync may ask for
    MaxEdits, MaxFailures, MaxOutages   \* bounds of the model

\* The resources of a sync; the import setting of the target, and the resources
\* that have one of their own, on or off; is its delete policy
\* RetainStatefulResources?  The scripts whose forceUpdateTag is the second of two.
Manifest == [infra : SUBSET Resources, import : BOOLEAN,
             on : SUBSET Stateful, off : SUBSET Stateful, retain : BOOLEAN,
             tags : SUBSET Scripts]

ASSUME ResourcesAssumption ==
    /\ Resources \subseteq [kind : STRING, name : STRING] /\ IsFiniteSet(Resources)
    /\ Order \in Seq(Resources) /\ Resources = {Order[i] : i \in DOMAIN Order}
    /\ DependsOn \in [Resources -> Seq(Resources)]
    /\ Buckets \subseteq Stateful /\ Drifting \subseteq Stateful
    /\ Stateful \subseteq Resources /\ Scripts \subseteq Resources \ Stateful
    /\ Undelayed \subseteq Resources
    /\ Manifests \subseteq Manifest

DependenciesOf(r) == {DependsOn[r][i] : i \in DOMAIN DependsOn[r]}

\* Nothing in the code looks for a cycle: the program would not end.
ASSUME NoCycleAssumption ==
    \A S \in SUBSET Resources : S # {} => \E r \in S : DependenciesOf(r) \cap S = {}

ASSUME SettingsAssumption ==
    /\ Nobody \notin Targets
    /\ SkipRefresh \in BOOLEAN
    /\ MaxEdits \in Nat /\ MaxFailures \in Nat /\ MaxOutages \in Nat

VARIABLES
    asked,      \* the manifests of the next sync of each target
    cloud,      \* of each resource: "none", "current", or "stale" if its inputs drifted
    state,      \* the resources the stack of each target manages
    kept,       \* those of them that were last applied with RetainOnDelete
    tags,       \* those of its scripts that last ran with the second forceUpdateTag
    env,        \* whose values the environment of a script holds in the informer's store
    given,      \* whose values each target's script was deployed with
    server,     \* is the MinIO server reachable?
    run,        \* what the worker of each target is doing
    spent       \* how much of each bound is used

stacks == <<cloud, state, kept, tags, given>>
vars == <<asked, stacks, env, server, run, spent>>
-----------------------------------------------------------------------------
(* Imports *)

\* forResource: the setting of the resource, else that of the target.
ImportEnabled(m, r) == r \in Stateful /\ (r \in m.on \/ (r \notin m.off /\ m.import))

\* Mutant of AnyEnabled: the settings of the resources are not looked at.
AnyEnabledByTarget(m) == m.import

AnyEnabled(m) == m.import \/ \E r \in m.infra : ImportEnabled(m, r)

\* What is known to be managed is only loaded if something may be imported.
ShouldImport(m, r, managed) == ImportEnabled(m, r) /\ r \notin managed
-----------------------------------------------------------------------------
(* The program of a stack *)

\* The key of a resource among those that are provisioned.
Id(r) == <<r.kind, r.name>>

Loops == [kind |-> "", name |-> ""]

Call(r, dependencies) == [res |-> r, deps |-> dependencies, got |-> {}]

Top(calls) == calls[Len(calls)]
Under(calls) == SubSeq(calls, 1, Len(calls) - 1)

\* Mutant of Passed: a dependency that is provisioned already is not named.
PassedUnnamed(calls, got) == Append(Under(calls), [Top(calls) EXCEPT !.deps = Tail(@)])

\* A dependency is done with: found among the provisioned, or not at all.
Passed(calls, got) == Append(Under(calls), [Top(calls) EXCEPT !.deps = Tail(@), !.got = @ \cup got])

NoGoals == [r \in {} |-> {}]

Nothing == [infra |-> {}, import |-> FALSE, on |-> {}, off |-> {},
            retain |-> FALSE, tags |-> {}]

Idle == [pc |-> "idle", asked |-> Nothing, begun |-> {}, managed |-> {}, calls |-> <<>>,
         done |-> {}, goals |-> NoGoals, imports |-> {}, applied |-> {},
         drift |-> FALSE, second |-> FALSE, changes |-> FALSE, failed |-> FALSE]

\* Each Up runs the program anew.
Started(t, j) ==
    [j EXCEPT !.pc = "up", !.managed = IF AnyEnabled(j.asked) THEN state[t] ELSE {},
              !.calls = <<Call(Loops, Order)>>,
              !.done = {}, !.goals = NoGoals, !.imports = {}, !.applied = {}]

Goes(t, j) == run' = [run EXCEPT ![t] = j]

Returned(j, failed) == [j EXCEPT !.pc = "done", !.failed = failed]

\* Mutant of Changed: the summary of the second update is looked at.
ChangedInSecond(j) == [j EXCEPT !.changes = @ \/ j.second]

\* Only the summary of the first update is looked at.
Changed(j) == [j EXCEPT !.changes = @ \/ ~j.second]
-----------------------------------------------------------------------------
(* A sync of a target *)

Start(t) ==
    /\ run[t].pc = "idle"
    /\ Goes(t, [Idle EXCEPT !.pc = IF asked[t].infra = {} THEN "select" ELSE "check",
                            !.asked = asked[t]])
    /\ UNCHANGED <<asked, stacks, env, server, spent>>

\* checkMinioReachable, if a bucket is asked for.
Check(t) ==
    LET j == run[t]
    IN  /\ j.pc = "check"
        /\ Goes(t, IF j.asked.infra \cap Buckets # {} /\ ~server THEN Returned(j, TRUE)
                   ELSE [j EXCEPT !.pc = "refresh"])
        /\ UNCHANGED <<asked, stacks, env, server, spent>>

\* The refresh drops what is not there; buckets seem not to be while the server
\* is down.
Refresh(t) ==
    LET j == run[t]
        there == {r \in state[t] : cloud[t][r] # "none" /\ (r \in Buckets => server)}
        left == IF SkipRefresh THEN state[t] ELSE there
    IN  /\ j.pc = "refresh"
        /\ state' = [state EXCEPT ![t] = left] /\ kept' = [kept EXCEPT ![t] = @ \cap left]
        /\ tags' = [tags EXCEPT ![t] = @ \cap left]
        /\ Goes(t, [j EXCEPT !.pc = "load", !.begun = left])
        /\ UNCHANGED <<asked, cloud, given, env, server, spent>>

Load(t) ==
    /\ run[t].pc = "load"
    /\ Goes(t, Started(t, run[t]))
    /\ UNCHANGED <<asked, stacks, env, server, spent>>

\* Mutant of Visit: a dependency that is not among the manifests is waited for.
VisitAnything(t) ==
    LET j == run[t]
        r == Head(Top(j.calls).deps)
    IN  /\ j.pc = "up" /\ Top(j.calls).deps # <<>>
        /\ Goes(t, [j EXCEPT !.calls =
                       IF r \notin j.asked.infra \/ Id(r) \in j.done THEN Passed(@, {r})
                       ELSE Append(@, Call(r, DependsOn[r]))])
        /\ UNCHANGED <<asked, stacks, env, server, spent>>

\* The loops of deployFunc, and those of deployResourceWithDeps, come to a
\* resource: it is skipped, is provisioned, or its dependencies come first.
Visit(t) ==
    LET j == run[t]
        r == Head(Top(j.calls).deps)
    IN  /\ j.pc = "up" /\ Top(j.calls).deps # <<>>
        /\ Goes(t, [j EXCEPT !.calls =
                       IF r \notin j.asked.infra THEN Passed(@, {})
                       ELSE IF Id(r) \in j.done THEN Passed(@, {r})
                       ELSE Append(@, Call(r, DependsOn[r]))])
        /\ UNCHANGED <<asked, stacks, env, server, spent>>

\* The environment of a script is rendered into the object of the informer's
\* store: what was rendered before is no template any more.
Rendered(t, s) == IF env[s] = Nobody THEN t ELSE env[s]

\* What Pulumi is told to wait for (DependsOn).
Goal(r, got) == IF r \in Undelayed THEN {} ELSE got

\* deployResource: the resource is registered, Pulumi applies it in its time.
Register(t) ==
    LET j == run[t]
        r == Top(j.calls).res
        import == ShouldImport(j.asked, r, j.managed)
    IN  /\ j.pc = "up" /\ Len(j.calls) > 1 /\ Top(j.calls).deps = <<>>
        /\ Goes(t, [j EXCEPT !.calls = Under(@), !.done = @ \cup {Id(r)},
                             !.goals = [x \in DOMAIN @ \cup {r} |->
                                            IF x = r THEN Goal(r, Top(j.calls).got) ELSE @[x]],
                             !.imports = @ \cup {x \in {r} : import},
                             !.drift = @ \/ (import /\ r \in Drifting)])
        /\ env' = IF r \in Scripts THEN [env EXCEPT ![r] = Rendered(t, r)] ELSE env
        /\ given' = IF r \in Scripts THEN [given EXCEPT ![t][r] = Rendered(t, r)] ELSE given
        /\ UNCHANGED <<asked, cloud, state, kept, tags, server, spent>>
-----------------------------------------------------------------------------
(* Pulumi *)

Applicable(j, r) ==
    /\ j.pc = "up" /\ r \in DOMAIN j.goals \ j.applied
    /\ j.goals[r] \subseteq j.applied

Applied(j, r) == [j EXCEPT !.applied = @ \cup {r}]

Reached(r) == r \in Buckets => server

\* What the stack holds of a resource that is applied: the option RetainOnDelete,
\* from the policy of the target (GetDeletePolicy), and the tag of a script.
Keep(t, r) ==
    /\ kept' = [kept EXCEPT ![t] = IF r \in Stateful /\ run[t].asked.retain
                                   THEN @ \cup {r} ELSE @ \ {r}]
    /\ tags' = [tags EXCEPT ![t] = IF r \in run[t].asked.tags THEN @ \cup {r} ELSE @ \ {r}]

\* The Triggers of a script: another forceUpdateTag than it ran with.
Retagged(t, r) == r \in Scripts \cap state[t] /\ ~(r \in run[t].asked.tags <=> r \in tags[t])

\* Nothing to do: no call to the provider.
ApplySame(t, r) ==
    LET j == run[t]
    IN  /\ Applicable(j, r) /\ r \in state[t] \ j.imports /\ cloud[t][r] # "stale"
        /\ ~Retagged(t, r)
        /\ Keep(t, r) /\ Goes(t, Applied(j, r))
        /\ UNCHANGED <<asked, cloud, state, given, env, server, spent>>

\* An update, the creation of what is not there, the import of what is: what
\* is imported keeps its inputs.
ApplyChange(t, r) ==
    LET j == run[t]
    IN  /\ Applicable(j, r) /\ Reached(r) /\ ~Retagged(t, r)
        /\ IF r \in j.imports THEN r \notin state[t] /\ cloud[t][r] # "none"
           ELSE cloud[t][r] = IF r \in state[t] THEN "stale" ELSE "none"
        /\ cloud' = [cloud EXCEPT ![t][r] = IF r \in j.imports THEN @ ELSE "current"]
        /\ state' = [state EXCEPT ![t] = @ \cup {r}]
        /\ Keep(t, r) /\ Goes(t, Changed(Applied(j, r)))
        /\ UNCHANGED <<asked, given, env, server, spent>>

\* A script with another tag is deleted, to be created again; so is what is
\* managed already and imported under another ID.
Replace(t, r) ==
    LET j == run[t]
    IN  /\ Applicable(j, r) /\ Reached(r)
        /\ Retagged(t, r) \/ r \in j.imports \cap state[t]
        /\ cloud' = [cloud EXCEPT ![t][r] = "none"]
        /\ state' = [state EXCEPT ![t] = @ \ {r}] /\ kept' = [kept EXCEPT ![t] = @ \ {r}]
        /\ tags' = [tags EXCEPT ![t] = @ \ {r}]
        /\ Goes(t, Changed([j EXCEPT !.imports = @ \ {r}]))
        /\ UNCHANGED <<asked, given, env, server, spent>>

\* What is to be created exists, what is to be imported does not, or the server
\* does not answer: the update fails.
ApplyFails(t, r) ==
    LET j == run[t]
    IN  /\ Applicable(j, r)
        /\ \/ r \notin state[t] /\ (r \in j.imports <=> cloud[t][r] = "none")
           \/ ~Reached(r) /\ ~(r \in state[t] \ j.imports /\ cloud[t][r] # "stale")
        /\ Goes(t, Returned(j, TRUE))
        /\ UNCHANGED <<asked, stacks, env, server, spent>>

\* Everything registered is applied: what is not registered goes.
Registered(t) ==
    LET j == run[t]
    IN  /\ j.pc = "up" /\ Len(j.calls) = 1 /\ Top(j.calls).deps = <<>>
        /\ j.applied = DOMAIN j.goals
        /\ Goes(t, [j EXCEPT !.pc = "prune"])
        /\ UNCHANGED <<asked, stacks, env, server, spent>>

\* What no stack manages any more may not have the inputs it is imported with.
Drifted(r) == IF r \in Drifting \cup Buckets THEN "stale" ELSE "current"

\* Retained resources leave the stack only.
Delete(t, r) ==
    LET j == run[t]
    IN  /\ \/ j.pc = "prune" /\ r \in state[t] \ DOMAIN j.goals
           \/ j.pc = "destroy" /\ r \in state[t]
        /\ IF r \in kept[t] THEN cloud' = [cloud EXCEPT ![t][r] =
                                 IF @ = "current" THEN Drifted(r) ELSE @]
           ELSE Reached(r) /\ cloud' = [cloud EXCEPT ![t][r] = "none"]
        /\ state' = [state EXCEPT ![t] = @ \ {r}] /\ kept' = [kept EXCEPT ![t] = @ \ {r}]
        /\ tags' = [tags EXCEPT ![t] = @ \ {r}]
        /\ Goes(t, Changed(j))
        /\ UNCHANGED <<asked, given, env, server, spent>>

DeleteFails(t, r) ==
    LET j == run[t]
    IN  /\ \/ j.pc = "prune" /\ r \in state[t] \ DOMAIN j.goals
           \/ j.pc = "destroy" /\ r \in state[t]
        /\ r \notin kept[t] /\ ~Reached(r)
        /\ Goes(t, Returned(j, TRUE))
        /\ UNCHANGED <<asked, stacks, env, server, spent>>
-----------------------------------------------------------------------------
\* Mutant of Updated: the second update takes the first one's managed resources.
UpdatedNotLoaded(t) ==
    LET j == run[t]
    IN  /\ j.pc = "prune" /\ state[t] \subseteq DOMAIN j.goals
        /\ Goes(t, IF j.drift /\ ~j.second
                   THEN [Started(t, j) EXCEPT !.second = TRUE, !.managed = j.managed]
                   ELSE Returned(j, FALSE))
        /\ UNCHANGED <<asked, stacks, env, server, spent>>

\* Mutant of Updated: no second update.
UpdatedOnce(t) ==
    LET j == run[t]
    IN  /\ j.pc = "prune" /\ state[t] \subseteq DOMAIN j.goals
        /\ Goes(t, Returned(j, FALSE))
        /\ UNCHANGED <<asked, stacks, env, server, spent>>

\* The end of an update; after imports that may have drifted, there is another.
Updated(t) ==
    LET j == run[t]
    IN  /\ j.pc = "prune" /\ state[t] \subseteq DOMAIN j.goals
        /\ Goes(t, IF j.drift /\ ~j.second THEN [j EXCEPT !.pc = "load", !.second = TRUE]
                   ELSE Returned(j, FALSE))
        /\ UNCHANGED <<asked, stacks, env, server, spent>>

\* tryDestroyAndDeleteStack; nothing is done without a stack.
Select(t) ==
    /\ run[t].pc = "select"
    /\ Goes(t, IF state[t] = {} THEN Returned(run[t], FALSE)
               ELSE [run[t] EXCEPT !.pc = "destroy", !.begun = state[t]])
    /\ UNCHANGED <<asked, stacks, env, server, spent>>

\* The empty stack is removed.
Remove(t) ==
    /\ run[t].pc = "destroy" /\ state[t] = {}
    /\ Goes(t, Returned(run[t], FALSE))
    /\ UNCHANGED <<asked, stacks, env, server, spent>>

\* Any call, or a template, fails.
Fail(t) ==
    /\ run[t].pc \in {"refresh", "load", "up", "prune", "select", "destroy"}
    /\ spent.failures < MaxFailures
    /\ spent' = [spent EXCEPT !.failures = @ + 1]
    /\ Goes(t, Returned(run[t], TRUE))
    /\ UNCHANGED <<asked, stacks, env, server>>

Finish(t) ==
    /\ run[t].pc = "done"
    /\ Goes(t, Idle)
    /\ UNCHANGED <<asked, stacks, env, server, spent>>
-----------------------------------------------------------------------------
(* What users and the world do *)

Ask(t, m) ==
    /\ spent.edits < MaxEdits /\ spent' = [spent EXCEPT !.edits = @ + 1]
    /\ m # asked[t] /\ asked' = [asked EXCEPT ![t] = m]
    /\ UNCHANGED <<stacks, env, server, run>>

\* The state of a stack is lost, what it held is still there; of a script there
\* is nothing but its entry in the state.
LoseState(t) ==
    /\ spent.edits < MaxEdits /\ spent' = [spent EXCEPT !.edits = @ + 1]
    /\ run[t].pc = "idle" /\ state[t] # {}
    /\ state' = [state EXCEPT ![t] = {}] /\ kept' = [kept EXCEPT ![t] = {}]
    /\ tags' = [tags EXCEPT ![t] = {}]
    /\ cloud' = [cloud EXCEPT ![t] = [r \in Resources |->
                    IF r \in Scripts THEN "none"
                    ELSE IF @[r] = "current" THEN Drifted(r) ELSE @[r]]]
    /\ UNCHANGED <<asked, given, env, server, run>>

\* Somebody deletes a resource.
DeleteByHand(t, r) ==
    /\ spent.edits < MaxEdits /\ spent' = [spent EXCEPT !.edits = @ + 1]
    /\ r \notin Scripts /\ cloud[t][r] # "none" /\ cloud' = [cloud EXCEPT ![t][r] = "none"]
    /\ UNCHANGED <<asked, state, kept, tags, given, env, server, run>>

Outage ==
    /\ \/ /\ server /\ spent.outages < MaxOutages
          /\ spent' = [spent EXCEPT !.outages = @ + 1]
       \/ ~server /\ UNCHANGED spent
    /\ server' = ~server
    /\ UNCHANGED <<asked, stacks, env, run>>

Init ==
    /\ asked \in [Targets -> Manifests]
    /\ cloud = [t \in Targets |-> [r \in Resources |-> "none"]]
    /\ state = [t \in Targets |-> {}] /\ kept = [t \in Targets |-> {}]
    /\ tags = [t \in Targets |-> {}]
    /\ env = [s \in Scripts |-> Nobody]
    /\ given = [t \in Targets |-> [s \in Scripts |-> Nobody]]
    /\ server = TRUE /\ run = [t \in Targets |-> Idle]
    /\ spent = [edits |-> 0, failures |-> 0, outages |-> 0]

\* The steps of a worker that nothing delays.
Work(t) ==
    \/ Check(t) \/ Refresh(t) \/ Load(t) \/ Visit(t) \/ Register(t) \/ Registered(t)
    \/ Updated(t) \/ Select(t) \/ Remove(t) \/ Finish(t)
    \/ \E r \in Resources :
          \/ ApplySame(t, r) \/ ApplyChange(t, r) \/ Replace(t, r) \/ ApplyFails(t, r)
          \/ Delete(t, r) \/ DeleteFails(t, r)

Environment(t) ==
    \/ \E m \in Manifests : Ask(t, m)
    \/ LoseState(t) \/ \E r \in Resources : DeleteByHand(t, r)

Next == Outage \/ \E t \in Targets : Start(t) \/ Work(t) \/ Fail(t) \/ Environment(t)

Spec == Init /\ [][Next]_vars
=============================================================================
