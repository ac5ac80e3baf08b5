--------------------------- MODULE StackProperties ---------------------------
(***************************************************************************)
(* What the update of a stack promises.                                    *)
(***************************************************************************)
EXTENDS StackUpdate

Steps == {"idle", "check", "refresh", "load", "up", "prune", "select", "destroy", "done"}

Calls == [res : Resources \cup {Loops}, deps : Seq(Resources), got : SUBSET Resources]

Jobs == [pc : Steps, asked : Manifest, begun : SUBSET Resources, managed : SUBSET Resources,
         calls : Seq(Calls), done : SUBSET (STRING \X STRING),
         goals : UNION {[S -> SUBSET Resources] : S \in SUBSET Resources},
         imports : SUBSET Resources, applied : SUBSET Resources,
         drift : BOOLEAN, second : BOOLEAN, changes : BOOLEAN, failed : BOOLEAN]

\* Calls are of resources of the manifests, and only those are registered and
\* applied; what a resource is given was registered before.
CallsOK(j) ==
    /\ \A i \in 2 .. Len(j.calls) : j.calls[i].res \in j.asked.infra
    /\ DOMAIN j.goals \subseteq j.asked.infra
    /\ j.imports \cup j.applied \subseteq DOMAIN j.goals
    /\ \A r \in DOMAIN j.goals : j.goals[r] \subseteq DOMAIN j.goals

StacksOK ==
    /\ asked \in [Targets -> Manifests]
    /\ cloud \in [Targets -> [Resources -> {"none", "stale", "current"}]]
    /\ state \in [Targets -> SUBSET Resources]
    /\ kept \in [Targets -> SUBSET Stateful]
    /\ tags \in [Targets -> SUBSET Scripts]
    /\ \A t \in Targets : kept[t] \cup tags[t] \subseteq state[t]

RunsOK == run \in [Targets -> Jobs] /\ \A t \in Targets : CallsOK(run[t])

(* Types: every variable stays in its set; the calls of a program are of     *)
(* resources of its manifests, and only registered resources are applied.    *)
TypeOK ==
    /\ StacksOK /\ RunsOK
    /\ env \in [Scripts -> Targets \cup {Nobody}]
    /\ given \in [Targets -> [Scripts -> Targets \cup {Nobody}]]
    /\ server \in BOOLEAN
    /\ spent \in [edits : 0 .. MaxEdits, failures : 0 .. MaxFailures, outages : 0 .. MaxOutages]

(* No resource becomes part of a stack before the manifests' resources it    *)
(* depends on, in whatever order the loops come to them and Pulumi applies   *)
(* them (deployResourceWithDeps, deployFunc), but for the scripts that do not*)
(* pass their dependencies on.                                               *)
DependenciesComeFirst ==
    [][\A t \in Targets : \A r \in (state'[t] \ state[t]) \ Undelayed :
            DependenciesOf(r) \cap run[t].asked.infra \subseteq state[t]]_vars

(* "If a dependency is specified, the provisioning of the dependent resource *)
(* is delayed until the dependency is provisioned." (README.md:212)          *)
DependenciesDelay ==
    [][\A t \in Targets : \A r \in state'[t] \ state[t] :
            DependenciesOf(r) \cap run[t].asked.infra \subseteq state[t]]_vars

(* An update deletes nothing that is among its manifests but a script whose  *)
(* forceUpdateTag has changed (README.md:857), and this not in the second of *)
(* two updates: no import replaces what is managed ("Resources a stack       *)
(* already manages are never re-imported", README.md:253), and nothing asked *)
(* for is pruned.                                                            *)
OnlyRetaggedAreReplaced ==
    [][\A t \in Targets : \A r \in run[t].asked.infra :
            cloud[t][r] # "none" /\ cloud'[t][r] = "none" =>
                spent' # spent \/ (Retagged(t, r) /\ ~run[t].second)]_vars

(* What was last applied under RetainStatefulResources is never deleted, not *)
(* by an update, an import or the destruction of the stack, whatever failed  *)
(* or was lost since.  (A policy that changes together with the manifests    *)
(* comes too late for what they do not hold any more.)                       *)
StatefulIsRetained ==
    [][\A t \in Targets : \A r \in kept[t] :
            cloud[t][r] # "none" /\ cloud'[t][r] = "none" => spent' # spent]_vars

Succeeded(t) == run[t].pc = "done" /\ ~run[t].failed

(* What returns no error has done all of it: the stack manages the resources *)
(* of the manifests, those whose names differ in their kind only included,   *)
(* retains what the policy says, the scripts ran with their tags, and inputs *)
(* that drifted are set (README.md:255: "a second update in the same         *)
(* reconcile sets them"), but for those of a bucket that was just imported.  *)
SucceededIsAsked ==
    \A t \in Targets : Succeeded(t) =>
        /\ state[t] = run[t].asked.infra
        /\ \A r \in state[t] : cloud[t][r] = "stale" => r \in Buckets \cap run[t].imports
        /\ \A r \in state[t] \cap Scripts : r \in run[t].asked.tags <=> r \in tags[t]
        /\ kept[t] = {r \in state[t] \cap Stateful : run[t].asked.retain}

(* A stack that has gained or lost resources reports changes, imports        *)
(* included, so that the migrations run: "The first update's summary is the  *)
(* one that reports the imports as changes" (pulumi.go:146).                 *)
ChangesAreReported ==
    \A t \in Targets : Succeeded(t) /\ run[t].begun # state[t] => run[t].changes

(* An environment "can contain placeholders like `{{ .Tenant.Code }}`"       *)
(* (README.md:855): each target's scripts are deployed with its own values.  *)
ScriptsHaveOwnValues ==
    \A t \in Targets : \A s \in Scripts : given[t][s] \in {t, Nobody}

(* Nothing ends in between, once it has begun: the program returns, and every*)
(* resource it has registered is applied, or fails.                          *)
UpdatesEnd == \A t \in Targets : run[t].pc = "check" ~> run[t].pc = "idle"

FairSpec == Spec /\ \A t \in Targets : WF_vars(Work(t))
=============================================================================
