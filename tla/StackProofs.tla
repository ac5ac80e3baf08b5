---------------------------- MODULE StackProofs ----------------------------
(***************************************************************************)
(* Theorems about the update of a stack, for all resources, dependencies   *)
(* without a cycle, manifests, targets and bounds.  The argument is one    *)
(* inductive invariant over the run of a target and its stack: what the    *)
(* program has registered and has still to come to, what Pulumi has applied*)
(* of it, and what the second update finds.                                *)
(***************************************************************************)
EXTENDS StackProperties, SequenceTheorems, TLAPS

RangeOf(s) == {s[i] : i \in DOMAIN s}

Registrations(j) == DOMAIN j.goals

\* What the program has not registered is still to come: in the loops, and for
\* each resource on its way, in the loop over its dependencies.
LoopsInv(j) ==
    /\ j.calls # <<>>
    /\ j.asked.infra \subseteq Registrations(j) \cup RangeOf(j.calls[1].deps)
    /\ \A i \in 1 .. Len(j.calls) : j.calls[i].got \subseteq Registrations(j)
    /\ \A i \in 2 .. Len(j.calls) :
            DependenciesOf(j.calls[i].res) \cap j.asked.infra
                \subseteq j.calls[i].got \cup RangeOf(j.calls[i].deps)

ProgramInv(j) ==
    /\ j.done = {Id(r) : r \in Registrations(j)}
    /\ \A r \in Registrations(j) \ Undelayed :
            DependenciesOf(r) \cap j.asked.infra \subseteq j.goals[r]
    /\ j.imports \subseteq Stateful
    /\ j.imports \cap Drifting # {} => j.drift
    /\ j.second => j.drift
    /\ j.drift => AnyEnabled(j.asked)
    /\ j.pc = "up" => LoopsInv(j)
    /\ j.pc = "prune" => Registrations(j) = j.asked.infra /\ j.applied = Registrations(j)
    /\ j.pc \in {"check", "refresh", "select", "destroy"} => ~j.second
    /\ j.pc \in {"select", "destroy"} => j.asked.infra = {}

\* The scripts among some resources ran with the tags asked for.
TagsMatch(j, S, tagged) == \A r \in S \cap Scripts : r \in j.asked.tags <=> r \in tagged

\* What is applied is in the stack with the options, tags and inputs asked for,
\* unless it is an import that drifted; what is to be imported is not.
AppliedInv(j, stack, retained, tagged, inputs) ==
    /\ j.applied \subseteq stack
    /\ (j.imports \ j.applied) \cap stack = {}
    /\ \A r \in j.applied : /\ r \in retained <=> r \in Stateful /\ j.asked.retain
                            /\ inputs[r] = "stale" => r \in j.imports
    /\ TagsMatch(j, j.applied, tagged)

LoadedInv(j, stack, tagged) ==
    /\ j.pc = "up" /\ AnyEnabled(j.asked) => stack \subseteq j.managed \cup j.applied
    /\ j.second /\ j.pc \in {"load", "up", "prune"} =>
            stack = j.asked.infra /\ TagsMatch(j, stack, tagged)
    /\ j.second /\ j.pc \in {"up", "prune"} => j.imports = {}
    /\ j.second /\ j.pc = "up" => j.managed = stack

EndInv(j, stack, retained, tagged, inputs) ==
    /\ j.pc = "select" => j.begun = {}
    /\ j.pc \in {"load", "up", "prune", "destroy"} \/ (j.pc = "done" /\ ~j.failed) =>
            (~j.changes => stack = j.begun)
    /\ j.pc = "done" /\ ~j.failed =>
            /\ stack = j.asked.infra
            /\ \A r \in stack : inputs[r] = "stale" => r \in Buckets \cap j.imports
            /\ retained = {r \in stack \cap Stateful : j.asked.retain}
            /\ TagsMatch(j, stack, tagged)

RunInv(j, stack, retained, tagged, inputs) ==
    /\ ProgramInv(j)
    /\ j.pc \in {"up", "prune"} => AppliedInv(j, stack, retained, tagged, inputs)
    /\ LoadedInv(j, stack, tagged)
    /\ EndInv(j, stack, retained, tagged, inputs)
    /\ \A r \in Resources : inputs[r] = "stale" => r \in Drifting \cup Buckets

TargetInv(t) == RunInv(run[t], state[t], kept[t], tags[t], cloud[t])

StackInv == TypeOK /\ \A t \in Targets : TargetInv(t)
-----------------------------------------------------------------------------
(* Values *)

(* The key of a resource is its own.                                       *)
LEMMA IdIsInjective == \A r, q \in Resources : Id(r) = Id(q) => r = q
<1>1. \A r \in Resources : r \in [kind : STRING, name : STRING]
  BY ResourcesAssumption
<1>2. \A r \in [kind : STRING, name : STRING] : r = [kind |-> r.kind, name |-> r.name]
  OBVIOUS
<1>3. \A r, q : Id(r) = Id(q) => r.kind = q.kind /\ r.name = q.name
  BY DEF Id
<1> QED BY <1>1, <1>2, <1>3

LEMMA IdIsPair == \A r \in Resources : Id(r) \in STRING \X STRING
BY ResourcesAssumption DEF Id

LEMMA LoopsAreOfResources ==
    /\ Order \in Seq(Resources) /\ RangeOf(Order) = Resources
    /\ \A r \in Resources : /\ DependsOn[r] \in Seq(Resources)
                           /\ DependenciesOf(r) = RangeOf(DependsOn[r])
BY ResourcesAssumption DEF RangeOf, DependenciesOf

LEMMA NothingIsAsked == Nothing \in Manifest /\ Nothing.infra = {}
BY ResourcesAssumption DEF Nothing, Manifest

LEMMA NoGoalsAreGoals ==
    /\ NoGoals \in UNION {[S -> SUBSET Resources] : S \in SUBSET Resources}
    /\ DOMAIN NoGoals = {}
<1>1. NoGoals \in [{} -> SUBSET Resources] /\ DOMAIN NoGoals = {}
  BY DEF NoGoals
<1> QED BY <1>1

LEMMA IdleIsJob == Idle \in Jobs /\ CallsOK(Idle) /\ Idle.pc = "idle" /\ Idle.asked = Nothing
<1>1. /\ Idle.pc = "idle" /\ Idle.asked = Nothing /\ Idle.calls = <<>> /\ Idle.goals = NoGoals
      /\ Idle.imports = {} /\ Idle.applied = {}
  BY DEF Idle
<1>2. <<>> \in Seq(Calls)
  OBVIOUS
<1>3. Idle \in Jobs
  BY <1>2, NothingIsAsked, NoGoalsAreGoals DEF Idle, Jobs, Steps
<1> QED BY <1>1, <1>3, NoGoalsAreGoals DEF CallsOK

(* A stack of calls without its top.                                       *)
LEMMA UnderCalls ==
    ASSUME NEW calls \in Seq(Calls), calls # <<>>
    PROVE  /\ Under(calls) \in Seq(Calls) /\ Len(Under(calls)) = Len(calls) - 1
           /\ \A i \in 1 .. Len(calls) - 1 : Under(calls)[i] = calls[i]
           /\ Top(calls) \in Calls /\ Len(calls) \in Nat /\ Len(calls) >= 1
<1>1. Len(calls) \in Nat /\ Len(calls) >= 1
  BY EmptySeq
<1>2. \A i \in 1 .. Len(calls) : calls[i] \in Calls
  BY <1>1
<1>3. Under(calls) = [i \in 1 .. Len(calls) - 1 |-> calls[i]]
  BY <1>1 DEF Under
<1> DEFINE rest == [i \in 1 .. Len(calls) - 1 |-> calls[i]]
<1>4. rest \in Seq(Calls) /\ Len(rest) = Len(calls) - 1
      /\ \A i \in 1 .. Len(calls) - 1 : rest[i] = calls[i]
  BY <1>1, <1>2
<1>5. Under(calls) = rest
  BY <1>3
<1> HIDE DEF rest
<1>6. Top(calls) \in Calls
  BY <1>1, <1>2 DEF Top
<1> QED BY <1>1, <1>4, <1>5, <1>6

(* The loop at the top goes on to its next dependency.                     *)
LEMMA PassedCalls ==
    ASSUME NEW calls \in Seq(Calls), calls # <<>>, Top(calls).deps # <<>>,
           NEW got \in SUBSET Resources
    PROVE  LET new == Passed(calls, got)
               n   == Len(calls)
           IN  /\ new \in Seq(Calls) /\ Len(new) = n
               /\ \A i \in 1 .. n - 1 : new[i] = calls[i]
               /\ new[n].res = calls[n].res /\ new[n].got = calls[n].got \cup got
               /\ RangeOf(calls[n].deps) = RangeOf(new[n].deps) \cup {Head(calls[n].deps)}
               /\ Head(calls[n].deps) \in Resources
<1> DEFINE n   == Len(calls)
           top == [calls[n] EXCEPT !.deps = Tail(@), !.got = @ \cup got]
<1>1. /\ Under(calls) \in Seq(Calls) /\ Len(Under(calls)) = n - 1 /\ n \in Nat /\ n >= 1
      /\ \A i \in 1 .. n - 1 : Under(calls)[i] = calls[i]
      /\ calls[n] \in Calls /\ calls[n].deps # <<>>
  BY UnderCalls DEF Top
<1>2. calls[n].deps \in Seq(Resources)
  BY <1>1 DEF Calls
<1>3. /\ Tail(calls[n].deps) \in Seq(Resources) /\ Head(calls[n].deps) \in Resources
      /\ RangeOf(calls[n].deps) = RangeOf(Tail(calls[n].deps)) \cup {Head(calls[n].deps)}
  <2> DEFINE d == calls[n].deps
  <2>1. /\ d \in Seq(Resources) /\ d # <<>> /\ Len(d) \in Nat /\ Len(d) >= 1
    BY <1>1, <1>2, EmptySeq
  <2> HIDE DEF d
  <2>2. /\ Tail(d) \in Seq(Resources) /\ Head(d) = d[1] /\ Len(Tail(d)) = Len(d) - 1
        /\ \A i \in 1 .. Len(d) - 1 : Tail(d)[i] = d[i + 1]
    BY <2>1
  <2>3. DOMAIN d = 1 .. Len(d) /\ DOMAIN Tail(d) = 1 .. Len(d) - 1
    BY <2>1, <2>2
  <2>4. ASSUME NEW x \in RangeOf(d) PROVE x \in RangeOf(Tail(d)) \cup {d[1]}
    <3>1. PICK i \in 1 .. Len(d) : x = d[i]
      BY <2>3 DEF RangeOf
    <3>2. CASE i = 1
      BY <3>1, <3>2
    <3>3. CASE i # 1
      <4>1. i - 1 \in 1 .. Len(d) - 1 /\ Tail(d)[i - 1] = d[i]
        BY <2>1, <2>2, <3>3
      <4> QED BY <4>1, <3>1, <2>3 DEF RangeOf
    <3> QED BY <3>2, <3>3
  <2>5. ASSUME NEW x \in RangeOf(Tail(d)) PROVE x \in RangeOf(d)
    <3>1. PICK i \in 1 .. Len(d) - 1 : x = Tail(d)[i]
      BY <2>3 DEF RangeOf
    <3>2. i + 1 \in 1 .. Len(d) /\ d[i + 1] = x
      BY <2>1, <2>2, <3>1
    <3> QED BY <3>2, <2>3 DEF RangeOf
  <2>6. d[1] \in RangeOf(d) /\ d[1] \in Resources
    BY <2>1, <2>3 DEF RangeOf
  <2> QED BY <2>2, <2>4, <2>5, <2>6 DEF d
<1>4. top \in Calls /\ top.res = calls[n].res /\ top.got = calls[n].got \cup got
      /\ top.deps = Tail(calls[n].deps)
  BY <1>1, <1>3 DEF Calls
<1>5. Passed(calls, got) = Append(Under(calls), top)
  BY DEF Passed, Top
<1> HIDE DEF top
<1>6. /\ Passed(calls, got) \in Seq(Calls) /\ Len(Passed(calls, got)) = n
      /\ \A i \in 1 .. n - 1 : Passed(calls, got)[i] = calls[i]
      /\ Passed(calls, got)[n] = top
  BY <1>1, <1>4, <1>5
<1> QED BY <1>3, <1>4, <1>6

(* A call is put on top.                                                   *)
LEMMA ExtendedCalls ==
    ASSUME NEW calls \in Seq(Calls), NEW r \in Resources
    PROVE  LET new == Append(calls, Call(r, DependsOn[r]))
           IN  /\ new \in Seq(Calls) /\ Len(new) = Len(calls) + 1
               /\ \A i \in 1 .. Len(calls) : new[i] = calls[i]
               /\ new[Len(calls) + 1] = Call(r, DependsOn[r])
<1>1. Call(r, DependsOn[r]) \in Calls
  BY LoopsAreOfResources DEF Call, Calls
<1> QED BY <1>1
-----------------------------------------------------------------------------
(* Runs *)

SameProgram(j, k) ==
    /\ k.asked = j.asked /\ k.managed = j.managed /\ k.calls = j.calls /\ k.done = j.done
    /\ k.goals = j.goals /\ k.imports = j.imports /\ k.applied = j.applied
    /\ k.drift = j.drift /\ k.second = j.second

LEMMA SameCalls ==
    ASSUME NEW j, NEW k, SameProgram(j, k), CallsOK(j)
    PROVE  CallsOK(k)
BY DEF SameProgram, CallsOK

LEMMA ReturnedJob ==
    ASSUME NEW j \in Jobs, NEW failed \in BOOLEAN
    PROVE  LET k == Returned(j, failed)
           IN  /\ k \in Jobs /\ SameProgram(j, k) /\ k.pc = "done" /\ k.failed = failed
               /\ k.begun = j.begun /\ k.changes = j.changes
BY DEF Returned, Jobs, Steps, SameProgram

LEMMA GoneJob ==
    ASSUME NEW j \in Jobs, NEW pc \in Steps
    PROVE  LET k == [j EXCEPT !.pc = pc]
           IN  /\ k \in Jobs /\ SameProgram(j, k) /\ k.pc = pc
               /\ k.begun = j.begun /\ k.changes = j.changes
BY DEF Jobs, SameProgram

LEMMA BegunJob ==
    ASSUME NEW j \in Jobs, NEW pc \in Steps, NEW begun \in SUBSET Resources
    PROVE  LET k == [j EXCEPT !.pc = pc, !.begun = begun]
           IN  /\ k \in Jobs /\ SameProgram(j, k) /\ k.pc = pc
               /\ k.begun = begun /\ k.changes = j.changes
BY DEF Jobs, SameProgram

LEMMA ChangedJob ==
    ASSUME NEW j \in Jobs
    PROVE  LET k == Changed(j)
           IN  /\ k \in Jobs /\ SameProgram(j, k) /\ k.pc = j.pc /\ k.failed = j.failed
               /\ k.begun = j.begun /\ k.changes = (j.changes \/ ~j.second)
BY DEF Changed, Jobs, SameProgram

LEMMA AppliedJob ==
    ASSUME NEW j \in Jobs, NEW r \in Resources
    PROVE  LET k == Applied(j, r)
           IN  /\ k \in Jobs /\ k.applied = j.applied \cup {r}
               /\ k.asked = j.asked /\ k.managed = j.managed /\ k.calls = j.calls
               /\ k.done = j.done /\ k.goals = j.goals /\ k.imports = j.imports
               /\ k.drift = j.drift /\ k.second = j.second /\ k.pc = j.pc
               /\ k.begun = j.begun /\ k.changes = j.changes /\ k.failed = j.failed
BY DEF Applied, Jobs

LEMMA StartedJob ==
    ASSUME NEW t \in Targets, NEW j \in Jobs, state[t] \in SUBSET Resources
    PROVE  LET k == Started(t, j)
           IN  /\ k \in Jobs /\ CallsOK(k) /\ k.pc = "up"
               /\ k.asked = j.asked /\ k.begun = j.begun /\ k.drift = j.drift
               /\ k.second = j.second /\ k.changes = j.changes
               /\ k.managed = IF AnyEnabled(j.asked) THEN state[t] ELSE {}
               /\ k.calls = <<Call(Loops, Order)>> /\ Len(k.calls) = 1
               /\ k.calls[1].deps = Order /\ k.calls[1].got = {}
               /\ k.done = {} /\ DOMAIN k.goals = {} /\ k.imports = {} /\ k.applied = {}
<1> DEFINE k == Started(t, j)
           first == Call(Loops, Order)
<1>1. first \in Calls /\ first.deps = Order /\ first.got = {}
  BY LoopsAreOfResources DEF Call, Calls
<1>2. /\ k.pc = "up" /\ k.asked = j.asked /\ k.begun = j.begun /\ k.drift = j.drift
      /\ k.second = j.second /\ k.changes = j.changes
      /\ k.managed = (IF AnyEnabled(j.asked) THEN state[t] ELSE {})
      /\ k.calls = <<first>>
      /\ k.done = {} /\ k.goals = NoGoals /\ k.imports = {} /\ k.applied = {}
  BY DEF Started, Jobs
<1> HIDE DEF first
<1>3. <<first>> \in Seq(Calls) /\ Len(<<first>>) = 1 /\ <<first>>[1] = first
  BY <1>1
<1>4. (IF AnyEnabled(j.asked) THEN state[t] ELSE {}) \in SUBSET Resources
  OBVIOUS
<1>5. k \in Jobs
  BY <1>3, <1>4, NoGoalsAreGoals DEF Started, Jobs, Steps, first
<1>6. CallsOK(k)
  BY <1>2, <1>3, NoGoalsAreGoals DEF CallsOK
<1> HIDE DEF k
<1> QED BY <1>1, <1>2, <1>3, <1>5, <1>6, NoGoalsAreGoals DEF k, first
-----------------------------------------------------------------------------
(* Steps of a run.  Each of the lemmas below says of one action of a target  *)
(* that it keeps the types and the invariant of this target.                 *)

StepOK(t) == RunsOK' /\ StacksOK' /\ TargetInv(t)'

\* The step of t, as the invariant sees it.
LEMMA RunStep ==
    ASSUME StackInv, NEW t \in Targets, NEW j \in Jobs, CallsOK(j), Goes(t, j), StacksOK',
           RunInv(j, state'[t], kept'[t], tags'[t], cloud'[t])
    PROVE  StepOK(t)
<1>1. run \in [Targets -> Jobs] /\ \A u \in Targets : CallsOK(run[u])
  BY DEF StackInv, TypeOK, RunsOK
<1>2. run' = [run EXCEPT ![t] = j] /\ run'[t] = j
  BY <1>1 DEF Goes
<1>3. run' \in [Targets -> Jobs] /\ \A u \in Targets : u # t => run'[u] = run[u]
  BY <1>1, <1>2
<1>4. RunsOK'
  BY <1>1, <1>2, <1>3 DEF RunsOK
<1>5. TargetInv(t)'
  BY <1>2 DEF TargetInv
<1> QED BY <1>4, <1>5 DEF StepOK

LEMMA RunTypes ==
    ASSUME StackInv, NEW t \in Targets
    PROVE  /\ run[t] \in Jobs /\ CallsOK(run[t]) /\ RunInv(run[t], state[t], kept[t], tags[t], cloud[t])
           /\ state[t] \in SUBSET Resources /\ kept[t] \in SUBSET Stateful /\ kept[t] \subseteq state[t]
           /\ tags[t] \in SUBSET Scripts /\ tags[t] \subseteq state[t]
           /\ run[t].asked \in Manifest /\ run[t].asked.infra \in SUBSET Resources
           /\ StacksOK
BY DEF StackInv, TypeOK, RunsOK, StacksOK, TargetInv, Jobs, Manifest

LEMMA StacksStay == StacksOK /\ UNCHANGED <<asked, cloud, state, kept, tags>> => StacksOK'
BY DEF StacksOK

(* A run that stops keeps its invariant, if it fails.                      *)
LEMMA FailedRun ==
    ASSUME StackInv, NEW t \in Targets, Goes(t, Returned(run[t], TRUE)),
           UNCHANGED <<asked, cloud, state, kept, tags>>
    PROVE  StepOK(t)
<1> DEFINE j == run[t]
           k == Returned(j, TRUE)
<1>1. /\ j \in Jobs /\ CallsOK(j) /\ RunInv(j, state[t], kept[t], tags[t], cloud[t]) /\ StacksOK
  BY RunTypes
<1>2. k \in Jobs /\ SameProgram(j, k) /\ k.pc = "done" /\ k.failed
  BY <1>1, ReturnedJob
<1>3. CallsOK(k)
  BY <1>1, <1>2, SameCalls
<1> HIDE DEF k
<1>4. RunInv(k, state[t], kept[t], tags[t], cloud[t])
  <2>1. ProgramInv(k)
    BY <1>1, <1>2 DEF RunInv, ProgramInv, SameProgram, Registrations
  <2> QED BY <2>1, <1>1, <1>2 DEF TagsMatch, RunInv, LoadedInv, EndInv
<1> QED BY <1>1, <1>2, <1>3, <1>4, RunStep, StacksStay DEF k

LEMMA StartStep == ASSUME StackInv, NEW t \in Targets, Start(t) PROVE StepOK(t)
<1> DEFINE m == asked[t]
           k == [Idle EXCEPT !.pc = IF m.infra = {} THEN "select" ELSE "check", !.asked = m]
<1>1. StacksOK /\ m \in Manifest /\ RunInv(run[t], state[t], kept[t], tags[t], cloud[t])
  BY RunTypes, ResourcesAssumption DEF StacksOK
<1>2. /\ k \in Jobs /\ k.pc = (IF m.infra = {} THEN "select" ELSE "check") /\ k.asked = m
      /\ k.calls = <<>> /\ k.goals = NoGoals /\ k.imports = {} /\ k.applied = {} /\ k.done = {}
      /\ ~k.drift /\ ~k.second /\ k.begun = {}
  <2>1. Idle \in Jobs
    BY IdleIsJob
  <2> QED BY <1>1, <2>1 DEF Idle, Jobs, Steps
<1>3. Goes(t, k) /\ UNCHANGED <<asked, cloud, state, kept, tags>>
  BY DEF Start, stacks
<1> HIDE DEF k
<1>4. CallsOK(k)
  BY <1>2, NoGoalsAreGoals DEF CallsOK
<1>5. RunInv(k, state[t], kept[t], tags[t], cloud[t])
  BY <1>1, <1>2, NoGoalsAreGoals
     DEF TagsMatch, RunInv, ProgramInv, Registrations, LoadedInv, EndInv
<1> QED BY <1>1, <1>2, <1>3, <1>4, <1>5, RunStep, StacksStay

LEMMA FinishStep == ASSUME StackInv, NEW t \in Targets, Finish(t) PROVE StepOK(t)
<1>1. StacksOK /\ RunInv(run[t], state[t], kept[t], tags[t], cloud[t])
  BY RunTypes
<1>2. Goes(t, Idle) /\ UNCHANGED <<asked, cloud, state, kept, tags>>
  BY DEF Finish, stacks
<1>3. /\ Idle.done = {} /\ Idle.goals = NoGoals /\ Idle.imports = {} /\ ~Idle.drift
      /\ Idle.pc = "idle" /\ ~Idle.second
  BY DEF Idle
<1>4. RunInv(Idle, state[t], kept[t], tags[t], cloud[t])
  BY <1>1, <1>3, NoGoalsAreGoals DEF TagsMatch, RunInv, ProgramInv, Registrations, LoadedInv, EndInv
<1> QED BY <1>1, <1>2, <1>4, IdleIsJob, RunStep, StacksStay

LEMMA CheckStep == ASSUME StackInv, NEW t \in Targets, Check(t) PROVE StepOK(t)
<1> DEFINE j == run[t]
           k == [j EXCEPT !.pc = "refresh"]
<1>1. /\ j \in Jobs /\ CallsOK(j) /\ RunInv(j, state[t], kept[t], tags[t], cloud[t]) /\ StacksOK
  BY RunTypes
<1>2. j.pc = "check" /\ UNCHANGED <<asked, cloud, state, kept, tags>>
  BY DEF Check, stacks
<1>3. CASE Goes(t, Returned(j, TRUE))
  BY <1>2, <1>3, FailedRun
<1>4. CASE Goes(t, k)
  <2>1. k \in Jobs /\ SameProgram(j, k) /\ k.pc = "refresh"
    BY <1>1, GoneJob DEF Steps
  <2>2. CallsOK(k)
    BY <1>1, <2>1, SameCalls
  <2> HIDE DEF k
  <2>3. RunInv(k, state[t], kept[t], tags[t], cloud[t])
    BY <1>1, <1>2, <2>1 DEF TagsMatch, RunInv, ProgramInv, SameProgram, Registrations, LoadedInv, EndInv
  <2> QED BY <1>1, <1>2, <1>4, <2>1, <2>2, <2>3, RunStep, StacksStay
<1> QED BY <1>3, <1>4 DEF Check

LEMMA RefreshStep == ASSUME StackInv, NEW t \in Targets, Refresh(t) PROVE StepOK(t)
<1> DEFINE j == run[t]
           there == {r \in state[t] : cloud[t][r] # "none" /\ (r \in Buckets => server)}
           left == IF SkipRefresh THEN state[t] ELSE there
           k == [j EXCEPT !.pc = "load", !.begun = left]
<1>1. /\ j \in Jobs /\ CallsOK(j) /\ RunInv(j, state[t], kept[t], tags[t], cloud[t]) /\ StacksOK
      /\ left \in SUBSET Resources
  BY RunTypes DEF StacksOK
<1>2. /\ j.pc = "refresh" /\ Goes(t, k) /\ UNCHANGED <<asked, cloud>>
      /\ state' = [state EXCEPT ![t] = left] /\ kept' = [kept EXCEPT ![t] = @ \cap left]
      /\ tags' = [tags EXCEPT ![t] = @ \cap left]
  BY DEF Refresh
<1> HIDE DEF left
<1>3. k \in Jobs /\ SameProgram(j, k) /\ k.pc = "load" /\ k.begun = left
  <2>1. "load" \in Steps
    BY DEF Steps
  <2> HIDE DEF j
  <2> QED BY <1>1, <2>1 DEF Jobs, SameProgram
<1>4. CallsOK(k)
  BY <1>1, <1>3, SameCalls
<1>5. StacksOK'
  BY <1>1, <1>2 DEF StacksOK
<1>6. state'[t] = left /\ cloud'[t] = cloud[t]
  BY <1>1, <1>2 DEF StacksOK
<1> HIDE DEF k
<1>7. RunInv(k, state'[t], kept'[t], tags'[t], cloud'[t])
  BY <1>1, <1>2, <1>3, <1>6
     DEF TagsMatch, RunInv, ProgramInv, SameProgram, Registrations, LoadedInv, EndInv
<1> QED BY <1>2, <1>3, <1>4, <1>5, <1>7, RunStep

LEMMA LoadStep == ASSUME StackInv, NEW t \in Targets, Load(t) PROVE StepOK(t)
<1> DEFINE j == run[t]
           k == Started(t, j)
<1>1. /\ j \in Jobs /\ RunInv(j, state[t], kept[t], tags[t], cloud[t]) /\ StacksOK
      /\ state[t] \in SUBSET Resources /\ j.asked.infra \in SUBSET Resources
  BY RunTypes
<1>2. /\ j.pc = "load" /\ Goes(t, k) /\ UNCHANGED <<asked, cloud, state, kept, tags>>
  BY DEF Load, stacks
<1>3. /\ k \in Jobs /\ CallsOK(k) /\ k.pc = "up"
      /\ k.asked = j.asked /\ k.begun = j.begun /\ k.drift = j.drift
      /\ k.second = j.second /\ k.changes = j.changes
      /\ k.managed = IF AnyEnabled(j.asked) THEN state[t] ELSE {}
      /\ k.calls = <<Call(Loops, Order)>> /\ Len(k.calls) = 1
      /\ k.calls[1].deps = Order /\ k.calls[1].got = {}
      /\ k.done = {} /\ DOMAIN k.goals = {} /\ k.imports = {} /\ k.applied = {}
  BY <1>1, StartedJob
<1> HIDE DEF k
<1>4. LoopsInv(k)
  <2>1. k.calls # <<>>
    BY <1>3
  <2> QED BY <1>1, <1>3, <2>1, LoopsAreOfResources DEF LoopsInv
<1>5. ProgramInv(k)
  BY <1>1, <1>3, <1>4 DEF RunInv, ProgramInv, Registrations
<1>6. AppliedInv(k, state[t], kept[t], tags[t], cloud[t])
  BY <1>3 DEF TagsMatch, AppliedInv
<1>7. LoadedInv(k, state[t], tags[t])
  BY <1>1, <1>2, <1>3 DEF TagsMatch, RunInv, LoadedInv, ProgramInv
<1>8. EndInv(k, state[t], kept[t], tags[t], cloud[t])
  BY <1>1, <1>2, <1>3 DEF TagsMatch, RunInv, EndInv
<1>9. RunInv(k, state[t], kept[t], tags[t], cloud[t])
  BY <1>1, <1>5, <1>6, <1>7, <1>8 DEF RunInv
<1> QED BY <1>1, <1>2, <1>3, <1>9, RunStep, StacksStay

LEMMA SelectStep == ASSUME StackInv, NEW t \in Targets, Select(t) PROVE StepOK(t)
<1> DEFINE j == run[t]
           k == [j EXCEPT !.pc = "destroy", !.begun = state[t]]
           q == Returned(j, FALSE)
<1>1. /\ j \in Jobs /\ CallsOK(j) /\ RunInv(j, state[t], kept[t], tags[t], cloud[t]) /\ StacksOK
      /\ state[t] \in SUBSET Resources /\ kept[t] \subseteq state[t]
  BY RunTypes
<1>2. j.pc = "select" /\ UNCHANGED <<asked, cloud, state, kept, tags>>
  BY DEF Select, stacks
<1>3. j.asked.infra = {} /\ ~j.second
  BY <1>1, <1>2 DEF RunInv, ProgramInv
<1>4. ASSUME state[t] = {}, Goes(t, q) PROVE StepOK(t)
  <2>1. /\ q \in Jobs /\ SameProgram(j, q) /\ q.pc = "done" /\ ~q.failed
        /\ q.begun = j.begun /\ q.changes = j.changes
    BY <1>1, ReturnedJob
  <2>2. CallsOK(q)
    BY <1>1, <2>1, SameCalls
  <2> HIDE DEF q
  <2>3. j.begun = {}
    BY <1>1, <1>2 DEF TagsMatch, RunInv, EndInv
  <2>4. RunInv(q, state[t], kept[t], tags[t], cloud[t])
    BY <1>1, <1>2, <1>3, <1>4, <2>1, <2>3
       DEF TagsMatch, RunInv, ProgramInv, SameProgram, Registrations, LoadedInv, EndInv
  <2> QED BY <1>1, <1>2, <1>4, <2>1, <2>2, <2>4, RunStep, StacksStay
<1>5. CASE Goes(t, k)
  <2>1. k \in Jobs /\ SameProgram(j, k) /\ k.pc = "destroy" /\ k.begun = state[t]
    <3>1. "destroy" \in Steps /\ state[t] \in SUBSET Resources
      BY <1>1 DEF Steps, StacksOK
    <3> HIDE DEF j
    <3> QED BY <1>1, <3>1 DEF Jobs, SameProgram
  <2>2. CallsOK(k)
    BY <1>1, <2>1, SameCalls
  <2> HIDE DEF k
  <2>3. RunInv(k, state[t], kept[t], tags[t], cloud[t])
    BY <1>1, <1>2, <1>3, <2>1
       DEF TagsMatch, RunInv, ProgramInv, SameProgram, Registrations, LoadedInv, EndInv
  <2> QED BY <1>1, <1>2, <1>5, <2>1, <2>2, <2>3, RunStep, StacksStay
<1> QED BY <1>4, <1>5 DEF Select

LEMMA RemoveStep == ASSUME StackInv, NEW t \in Targets, Remove(t) PROVE StepOK(t)
<1> DEFINE j == run[t]
           k == Returned(j, FALSE)
<1>1. /\ j \in Jobs /\ CallsOK(j) /\ RunInv(j, state[t], kept[t], tags[t], cloud[t]) /\ StacksOK
      /\ kept[t] \subseteq state[t]
  BY RunTypes
<1>2. /\ j.pc = "destroy" /\ state[t] = {} /\ Goes(t, k)
      /\ UNCHANGED <<asked, cloud, state, kept, tags>>
  BY DEF Remove, stacks
<1>3. /\ k \in Jobs /\ SameProgram(j, k) /\ k.pc = "done" /\ ~k.failed
      /\ k.begun = j.begun /\ k.changes = j.changes
  BY <1>1, ReturnedJob
<1>4. CallsOK(k)
  BY <1>1, <1>3, SameCalls
<1> HIDE DEF k
<1>5. RunInv(k, state[t], kept[t], tags[t], cloud[t])
  BY <1>1, <1>2, <1>3 DEF TagsMatch, RunInv, ProgramInv, SameProgram, Registrations, LoadedInv, EndInv
<1> QED BY <1>1, <1>2, <1>3, <1>4, <1>5, RunStep, StacksStay

\* All but the calls.
SameButCalls(j, k) ==
    /\ k.pc = j.pc /\ k.asked = j.asked /\ k.begun = j.begun /\ k.managed = j.managed
    /\ k.done = j.done /\ k.goals = j.goals /\ k.imports = j.imports /\ k.applied = j.applied
    /\ k.drift = j.drift /\ k.second = j.second /\ k.changes = j.changes /\ k.failed = j.failed

LEMMA CalledJob ==
    ASSUME NEW j \in Jobs, NEW calls \in Seq(Calls)
    PROVE  LET k == [j EXCEPT !.calls = calls]
           IN  k \in Jobs /\ SameButCalls(j, k) /\ k.calls = calls
BY DEF Jobs, SameButCalls

(* The loops go on: what they leave is registered, or no manifest.         *)
LEMMA PassedLoops ==
    ASSUME NEW j \in Jobs, CallsOK(j), LoopsInv(j), Top(j.calls).deps # <<>>,
           NEW got \in SUBSET Resources, got \subseteq Registrations(j),
           Head(Top(j.calls).deps) \in j.asked.infra => Head(Top(j.calls).deps) \in got,
           NEW k, SameButCalls(j, k), k.calls = Passed(j.calls, got)
    PROVE  LoopsInv(k) /\ CallsOK(k)
<1> DEFINE calls == j.calls
           new   == k.calls
           n     == Len(calls)
           r     == Head(calls[n].deps)
<1>1. calls \in Seq(Calls) /\ calls # <<>>
  BY DEF Jobs, LoopsInv
<1>2. /\ new \in Seq(Calls) /\ Len(new) = n
      /\ \A i \in 1 .. n - 1 : new[i] = calls[i]
      /\ new[n].res = calls[n].res /\ new[n].got = calls[n].got \cup got
      /\ RangeOf(calls[n].deps) = RangeOf(new[n].deps) \cup {r}
  <2>1. Top(calls).deps # <<>> /\ new = Passed(calls, got)
    OBVIOUS
  <2> HIDE DEF calls, new
  <2>2. /\ Passed(calls, got) \in Seq(Calls) /\ Len(Passed(calls, got)) = n
        /\ \A i \in 1 .. n - 1 : Passed(calls, got)[i] = calls[i]
        /\ Passed(calls, got)[n].res = calls[n].res
        /\ Passed(calls, got)[n].got = calls[n].got \cup got
        /\ RangeOf(calls[n].deps) = RangeOf(Passed(calls, got)[n].deps) \cup {r}
    BY <1>1, <2>1, PassedCalls
  <2> QED BY <2>1, <2>2
<1>3. n \in Nat /\ n >= 1
  BY <1>1, UnderCalls
<1>4. k.asked = j.asked /\ Registrations(k) = Registrations(j) /\ k.goals = j.goals
      /\ k.imports = j.imports /\ k.applied = j.applied
  BY DEF SameButCalls, Registrations
<1>5. /\ j.asked.infra \subseteq Registrations(j) \cup RangeOf(calls[1].deps)
      /\ \A i \in 1 .. n : calls[i].got \subseteq Registrations(j)
      /\ \A i \in 2 .. n : DependenciesOf(calls[i].res) \cap j.asked.infra
                               \subseteq calls[i].got \cup RangeOf(calls[i].deps)
  BY DEF LoopsInv
<1>6. /\ \A i \in 2 .. n : calls[i].res \in j.asked.infra
      /\ DOMAIN j.goals \subseteq j.asked.infra
      /\ j.imports \cup j.applied \subseteq DOMAIN j.goals
      /\ \A q \in DOMAIN j.goals : j.goals[q] \subseteq DOMAIN j.goals
  BY DEF CallsOK
<1>7. r \in j.asked.infra => r \in got
  BY DEF Top
<1> HIDE DEF calls, new, n, r
<1>8. CallsOK(k)
  <2>1. \A i \in 2 .. n : new[i].res \in j.asked.infra
    BY <1>2, <1>3, <1>6
  <2> QED BY <2>1, <1>2, <1>4, <1>6 DEF CallsOK, new
<1>9. LoopsInv(k)
  <2>1. new # <<>>
    BY <1>2, <1>3
  <2>2. j.asked.infra \subseteq Registrations(j) \cup RangeOf(new[1].deps)
    <3>1. CASE n = 1
      BY <3>1, <1>2, <1>5, <1>7
    <3>2. CASE n > 1
      BY <3>2, <1>2, <1>3, <1>5
    <3> QED BY <3>1, <3>2, <1>3
  <2>3. \A i \in 1 .. n : new[i].got \subseteq Registrations(j)
    BY <1>2, <1>3, <1>5
  <2>4. ASSUME NEW i \in 2 .. n
        PROVE  DependenciesOf(new[i].res) \cap j.asked.infra
                   \subseteq new[i].got \cup RangeOf(new[i].deps)
    <3>1. CASE i = n
      BY <3>1, <1>2, <1>5, <1>7
    <3>2. CASE i # n
      BY <3>2, <1>2, <1>3, <1>5
    <3> QED BY <3>1, <3>2
  <2> QED BY <2>1, <2>2, <2>3, <2>4, <1>2, <1>4 DEF LoopsInv, new
<1> QED BY <1>8, <1>9

(* A resource is on its way: its own loop is over its dependencies.        *)
LEMMA ExtendedLoops ==
    ASSUME NEW j \in Jobs, CallsOK(j), LoopsInv(j), NEW r \in Resources, r \in j.asked.infra,
           NEW k, SameButCalls(j, k), k.calls = Append(j.calls, Call(r, DependsOn[r]))
    PROVE  LoopsInv(k) /\ CallsOK(k)
<1> DEFINE calls == j.calls
           new   == k.calls
           n     == Len(calls)
<1>1. calls \in Seq(Calls) /\ calls # <<>>
  BY DEF Jobs, LoopsInv
<1>2. /\ new \in Seq(Calls) /\ Len(new) = n + 1
      /\ \A i \in 1 .. n : new[i] = calls[i]
      /\ new[n + 1] = Call(r, DependsOn[r])
  BY <1>1, ExtendedCalls
<1>3. n \in Nat /\ n >= 1
  BY <1>1, UnderCalls
<1>4. k.asked = j.asked /\ Registrations(k) = Registrations(j) /\ k.goals = j.goals
      /\ k.imports = j.imports /\ k.applied = j.applied
  BY DEF SameButCalls, Registrations
<1>5. /\ j.asked.infra \subseteq Registrations(j) \cup RangeOf(calls[1].deps)
      /\ \A i \in 1 .. n : calls[i].got \subseteq Registrations(j)
      /\ \A i \in 2 .. n : DependenciesOf(calls[i].res) \cap j.asked.infra
                               \subseteq calls[i].got \cup RangeOf(calls[i].deps)
  BY DEF LoopsInv
<1>6. /\ \A i \in 2 .. n : calls[i].res \in j.asked.infra
      /\ DOMAIN j.goals \subseteq j.asked.infra
      /\ j.imports \cup j.applied \subseteq DOMAIN j.goals
      /\ \A q \in DOMAIN j.goals : j.goals[q] \subseteq DOMAIN j.goals
  BY DEF CallsOK
<1>7. /\ new[n + 1].res = r /\ new[n + 1].got = {}
      /\ DependenciesOf(r) = RangeOf(new[n + 1].deps)
  BY <1>2, LoopsAreOfResources DEF Call
<1> HIDE DEF calls, new, n
<1>8. CallsOK(k)
  <2>1. \A i \in 2 .. n + 1 : new[i].res \in j.asked.infra
    BY <1>2, <1>3, <1>6, <1>7
  <2> QED BY <2>1, <1>2, <1>4, <1>6 DEF CallsOK, new
<1>9. LoopsInv(k)
  <2>1. new # <<>> /\ new[1] = calls[1]
    BY <1>2, <1>3
  <2>2. \A i \in 1 .. n + 1 : new[i].got \subseteq Registrations(j)
    BY <1>2, <1>3, <1>5, <1>7
  <2>3. ASSUME NEW i \in 2 .. n + 1
        PROVE  DependenciesOf(new[i].res) \cap j.asked.infra
                   \subseteq new[i].got \cup RangeOf(new[i].deps)
    BY <1>2, <1>3, <1>5, <1>7
  <2> QED BY <2>1, <2>2, <2>3, <1>2, <1>4, <1>5 DEF LoopsInv, new
<1> QED BY <1>8, <1>9

LEMMA VisitStep == ASSUME StackInv, NEW t \in Targets, Visit(t) PROVE StepOK(t)
<1> DEFINE j == run[t]
           r == Head(Top(j.calls).deps)
<1>1. /\ j \in Jobs /\ CallsOK(j) /\ RunInv(j, state[t], kept[t], tags[t], cloud[t]) /\ StacksOK
      /\ j.asked.infra \in SUBSET Resources
  BY RunTypes
<1>2. /\ j.pc = "up" /\ Top(j.calls).deps # <<>> /\ UNCHANGED <<asked, cloud, state, kept, tags>>
  BY DEF Visit, stacks
<1>3. LoopsInv(j) /\ j.calls \in Seq(Calls) /\ j.calls # <<>> /\ ProgramInv(j)
  BY <1>1, <1>2 DEF RunInv, ProgramInv, LoopsInv, Jobs
<1>4. ASSUME NEW k \in Jobs, SameButCalls(j, k), LoopsInv(k), CallsOK(k), Goes(t, k)
      PROVE  StepOK(t)
  <2>1. ProgramInv(k)
    BY <1>3, <1>4 DEF ProgramInv, SameButCalls, Registrations
  <2>2. RunInv(k, state[t], kept[t], tags[t], cloud[t])
    BY <1>1, <1>2, <1>4, <2>1 DEF TagsMatch, RunInv, SameButCalls, AppliedInv, LoadedInv, EndInv
  <2> QED BY <1>1, <1>2, <1>4, <2>2, RunStep, StacksStay
<1>5. ASSUME NEW got \in SUBSET Resources, got \subseteq Registrations(j),
             r \in j.asked.infra => r \in got,
             Goes(t, [j EXCEPT !.calls = Passed(@, got)])
      PROVE  StepOK(t)
  <2> DEFINE k == [j EXCEPT !.calls = Passed(@, got)]
  <2>1. Passed(j.calls, got) \in Seq(Calls)
    BY <1>2, <1>3, PassedCalls
  <2>2. k \in Jobs /\ SameButCalls(j, k) /\ k.calls = Passed(j.calls, got)
    BY <1>1, <2>1, CalledJob
  <2> HIDE DEF k
  <2>3. LoopsInv(k) /\ CallsOK(k)
    BY <1>1, <1>2, <1>3, <1>5, <2>2, PassedLoops
  <2> QED BY <1>4, <1>5, <2>2, <2>3 DEF k
<1>6. CASE r \notin j.asked.infra
  <2>1. Goes(t, [j EXCEPT !.calls = Passed(@, {})])
    BY <1>6 DEF Visit
  <2> QED BY <1>5, <1>6, <2>1
<1>7. CASE r \in j.asked.infra /\ Id(r) \in j.done
  <2>1. Goes(t, [j EXCEPT !.calls = Passed(@, {r})])
    BY <1>7 DEF Visit
  <2>2. PICK q \in Registrations(j) : Id(q) = Id(r)
    BY <1>3, <1>7 DEF ProgramInv
  <2>3. q \in Resources /\ r \in Resources
    BY <1>1, <1>7, <2>2 DEF CallsOK, Registrations
  <2>4. r \in Registrations(j)
    BY <2>2, <2>3, IdIsInjective
  <2> QED BY <1>5, <2>1, <2>3, <2>4
<1>8. CASE r \in j.asked.infra /\ Id(r) \notin j.done
  <2> DEFINE k == [j EXCEPT !.calls = Append(@, Call(r, DependsOn[r]))]
  <2>1. Goes(t, k)
    BY <1>8 DEF Visit
  <2>2. r \in Resources /\ Append(j.calls, Call(r, DependsOn[r])) \in Seq(Calls)
    BY <1>1, <1>3, <1>8, ExtendedCalls
  <2>3. k \in Jobs /\ SameButCalls(j, k) /\ k.calls = Append(j.calls, Call(r, DependsOn[r]))
    BY <1>1, <2>2, CalledJob
  <2> HIDE DEF k
  <2>4. LoopsInv(k) /\ CallsOK(k)
    BY <1>1, <1>3, <1>8, <2>2, <2>3, ExtendedLoops
  <2> QED BY <1>4, <2>1, <2>3, <2>4
<1> QED BY <1>6, <1>7, <1>8

LEMMA RegisterStep == ASSUME StackInv, NEW t \in Targets, Register(t) PROVE StepOK(t)
<1> DEFINE j == run[t]
           n == Len(j.calls)
           top == Top(j.calls)
           r == top.res
           import == ShouldImport(j.asked, r, j.managed)
           goal == Goal(r, top.got)
           new == [x \in DOMAIN j.goals \cup {r} |-> IF x = r THEN goal ELSE j.goals[x]]
           k == [j EXCEPT !.calls = Under(@), !.done = @ \cup {Id(r)},
                          !.goals = [x \in DOMAIN @ \cup {r} |-> IF x = r THEN Goal(r, Top(j.calls).got) ELSE @[x]],
                          !.imports = @ \cup {x \in {r} : import},
                          !.drift = @ \/ (import /\ r \in Drifting)]
<1>1. /\ j \in Jobs /\ CallsOK(j) /\ RunInv(j, state[t], kept[t], tags[t], cloud[t]) /\ StacksOK
      /\ j.asked.infra \in SUBSET Resources
  BY RunTypes
<1>2. /\ j.pc = "up" /\ n > 1 /\ top.deps = <<>> /\ Goes(t, k)
      /\ UNCHANGED <<asked, cloud, state, kept, tags>>
  BY DEF Register
<1>3. LoopsInv(j) /\ ProgramInv(j) /\ LoadedInv(j, state[t], tags[t])
      /\ AppliedInv(j, state[t], kept[t], tags[t], cloud[t]) /\ EndInv(j, state[t], kept[t], tags[t], cloud[t])
  BY <1>1, <1>2 DEF RunInv, ProgramInv
<1>4. /\ j.calls \in Seq(Calls) /\ j.calls # <<>> /\ n \in Nat
      /\ Under(j.calls) \in Seq(Calls) /\ Len(Under(j.calls)) = n - 1
      /\ \A i \in 1 .. n - 1 : Under(j.calls)[i] = j.calls[i]
      /\ top = j.calls[n] /\ top \in Calls
  <2>1. j.calls \in Seq(Calls) /\ j.calls # <<>>
    BY <1>1, <1>3 DEF Jobs, LoopsInv
  <2> QED BY <2>1, UnderCalls DEF Top
<1>5. /\ r \in j.asked.infra /\ r \in Resources /\ top.got \in SUBSET Resources
      /\ top.got \subseteq Registrations(j)
      /\ goal \in SUBSET Resources /\ goal \subseteq Registrations(j)
      /\ r \notin Undelayed => DependenciesOf(r) \cap j.asked.infra \subseteq goal
  <2>1. n \in 2 .. n /\ n \in 1 .. n
    BY <1>2, <1>4
  <2>2. r \in j.asked.infra
    BY <1>1, <1>4, <2>1 DEF CallsOK
  <2>3. top.got \subseteq Registrations(j)
    BY <1>3, <1>4, <2>1 DEF LoopsInv
  <2>4. DependenciesOf(r) \cap j.asked.infra \subseteq top.got \cup RangeOf(top.deps)
    BY <1>3, <1>4, <2>1 DEF LoopsInv
  <2>5. RangeOf(top.deps) = {}
    BY <1>2 DEF RangeOf
  <2>6. top.got \in SUBSET Resources
    BY <1>4 DEF Calls
  <2> QED BY <1>1, <1>4, <2>2, <2>3, <2>4, <2>5, <2>6 DEF Goal
<1>6. j.goals \in [DOMAIN j.goals -> SUBSET Resources] /\ DOMAIN j.goals \in SUBSET Resources
  BY <1>1 DEF Jobs
<1>7. /\ new \in [DOMAIN j.goals \cup {r} -> SUBSET Resources]
      /\ DOMAIN new = DOMAIN j.goals \cup {r} /\ new[r] = goal
      /\ \A x \in DOMAIN j.goals : x # r => new[x] = j.goals[x]
  BY <1>5, <1>6
<1>8. new \in UNION {[S -> SUBSET Resources] : S \in SUBSET Resources}
  BY <1>5, <1>6, <1>7
<1>9. /\ k.pc = "up" /\ k.asked = j.asked /\ k.begun = j.begun /\ k.managed = j.managed
      /\ k.calls = Under(j.calls) /\ k.done = j.done \cup {Id(r)} /\ k.goals = new
      /\ k.imports = j.imports \cup {x \in {r} : import} /\ k.applied = j.applied
      /\ k.drift = (j.drift \/ (import /\ r \in Drifting))
      /\ k.second = j.second /\ k.changes = j.changes
  BY <1>1, <1>2 DEF Jobs
<1>10. k \in Jobs
  <2>1. Id(r) \in STRING \X STRING /\ import \in BOOLEAN
    BY <1>5, IdIsPair DEF ShouldImport, ImportEnabled
  <2>2. (j.done \cup {Id(r)}) \in SUBSET (STRING \X STRING)
    BY <1>1, <2>1 DEF Jobs
  <2>3. (j.imports \cup {x \in {r} : import}) \in SUBSET Resources
    BY <1>1, <1>5 DEF Jobs
  <2>4. k = [j EXCEPT !.calls = Under(j.calls), !.done = j.done \cup {Id(r)}, !.goals = new,
                      !.imports = j.imports \cup {x \in {r} : import},
                      !.drift = j.drift \/ (import /\ r \in Drifting)]
    BY <1>1 DEF Jobs
  <2> HIDE DEF new, import, r, k
  <2> QED BY <1>1, <1>4, <1>8, <2>2, <2>3, <2>4 DEF Jobs
<1> HIDE DEF k, new
<1>11. Registrations(k) = Registrations(j) \cup {r}
  BY <1>7, <1>9 DEF Registrations
<1>12. import => r \in Stateful /\ r \notin j.managed /\ AnyEnabled(j.asked)
  BY <1>5 DEF ShouldImport, ImportEnabled, AnyEnabled
<1>13. CallsOK(k)
  <2>1. ASSUME NEW i \in 2 .. Len(k.calls) PROVE k.calls[i].res \in k.asked.infra
    <3>1. i \in 2 .. Len(j.calls) /\ k.calls[i] = j.calls[i]
      BY <1>2, <1>4, <1>9
    <3> QED BY <1>1, <1>9, <3>1 DEF CallsOK
  <2>2. DOMAIN k.goals \subseteq k.asked.infra
    BY <1>1, <1>5, <1>7, <1>9 DEF CallsOK
  <2>3. k.imports \cup k.applied \subseteq DOMAIN k.goals
    BY <1>1, <1>7, <1>9 DEF CallsOK
  <2>4. \A x \in DOMAIN k.goals : k.goals[x] \subseteq DOMAIN k.goals
    BY <1>1, <1>5, <1>7, <1>9 DEF CallsOK, Registrations
  <2> QED BY <2>1, <2>2, <2>3, <2>4 DEF CallsOK
<1>14. LoopsInv(k)
  <2>1. Under(j.calls) # <<>> /\ Under(j.calls)[1] = j.calls[1]
    BY <1>2, <1>4
  <2>2. k.asked.infra \subseteq Registrations(k) \cup RangeOf(k.calls[1].deps)
    BY <1>3, <1>9, <1>11, <2>1 DEF LoopsInv
  <2>5. ASSUME NEW i \in 1 .. Len(k.calls)
        PROVE  i \in 1 .. Len(j.calls) /\ k.calls[i] = j.calls[i]
    BY <1>2, <1>4, <1>9
  <2>3. \A i \in 1 .. Len(k.calls) : k.calls[i].got \subseteq Registrations(k)
    <3>1. \A i \in 1 .. Len(j.calls) : j.calls[i].got \subseteq Registrations(j)
      BY <1>3 DEF LoopsInv
    <3> QED BY <1>11, <2>5, <3>1
  <2>4. \A i \in 2 .. Len(k.calls) :
            DependenciesOf(k.calls[i].res) \cap k.asked.infra
                \subseteq k.calls[i].got \cup RangeOf(k.calls[i].deps)
    <3> TAKE i \in 2 .. Len(k.calls)
    <3>1. i \in 1 .. Len(k.calls) /\ i >= 2
      BY <1>2, <1>4, <1>9
    <3>2. i \in 2 .. Len(j.calls) /\ k.calls[i] = j.calls[i]
      BY <1>2, <1>4, <2>5, <3>1
    <3>3. DependenciesOf(j.calls[i].res) \cap j.asked.infra
              \subseteq j.calls[i].got \cup RangeOf(j.calls[i].deps)
      BY <1>3, <3>2 DEF LoopsInv
    <3> QED BY <1>9, <3>2, <3>3
  <2> QED BY <1>9, <2>1, <2>2, <2>3, <2>4 DEF LoopsInv
<1>15. ProgramInv(k)
  <2>1. k.done = {Id(x) : x \in Registrations(k)}
    BY <1>3, <1>9, <1>11 DEF ProgramInv
  <2>2. \A x \in Registrations(k) \ Undelayed :
            DependenciesOf(x) \cap k.asked.infra \subseteq k.goals[x]
    BY <1>3, <1>5, <1>7, <1>9, <1>11 DEF ProgramInv, Registrations
  <2>3. k.imports \subseteq Stateful
    BY <1>3, <1>9, <1>12 DEF ProgramInv
  <2>4. k.imports \cap Drifting # {} => k.drift
    BY <1>3, <1>9 DEF ProgramInv
  <2>5. /\ k.drift => AnyEnabled(k.asked)
        /\ k.second => k.drift
    BY <1>3, <1>9, <1>12 DEF ProgramInv
  <2> QED BY <1>9, <1>14, <2>1, <2>2, <2>3, <2>4, <2>5 DEF ProgramInv
<1>16. AppliedInv(k, state[t], kept[t], tags[t], cloud[t])
  <2>1. import /\ r \notin j.applied => r \notin state[t]
    BY <1>2, <1>3, <1>12 DEF TagsMatch, LoadedInv
  <2>2. \A x \in k.applied : /\ x \in kept[t] <=> x \in Stateful /\ k.asked.retain
                             /\ cloud[t][x] = "stale" => x \in k.imports
    BY <1>3, <1>9 DEF TagsMatch, AppliedInv
  <2>3. (k.imports \ k.applied) \cap state[t] = {}
    BY <1>3, <1>9, <2>1 DEF TagsMatch, AppliedInv
  <2> QED BY <1>3, <1>9, <2>2, <2>3 DEF TagsMatch, AppliedInv
<1>17. LoadedInv(k, state[t], tags[t])
  <2>1. j.second => ~import
    BY <1>2, <1>3, <1>5, <1>12 DEF TagsMatch, LoadedInv
  <2> QED BY <1>2, <1>3, <1>9, <2>1 DEF TagsMatch, LoadedInv
<1>18. RunInv(k, state[t], kept[t], tags[t], cloud[t])
  BY <1>1, <1>2, <1>3, <1>9, <1>15, <1>16, <1>17 DEF TagsMatch, RunInv, EndInv
<1> QED BY <1>1, <1>2, <1>10, <1>13, <1>18, RunStep, StacksStay

LEMMA RegisteredStep == ASSUME StackInv, NEW t \in Targets, Registered(t) PROVE StepOK(t)
<1> DEFINE j == run[t]
           k == [j EXCEPT !.pc = "prune"]
<1>1. /\ j \in Jobs /\ CallsOK(j) /\ RunInv(j, state[t], kept[t], tags[t], cloud[t]) /\ StacksOK
  BY RunTypes
<1>2. /\ j.pc = "up" /\ Len(j.calls) = 1 /\ Top(j.calls).deps = <<>>
      /\ j.applied = DOMAIN j.goals /\ Goes(t, k) /\ UNCHANGED <<asked, cloud, state, kept, tags>>
  BY DEF Registered, stacks
<1>3. /\ k \in Jobs /\ SameProgram(j, k) /\ k.pc = "prune"
      /\ k.begun = j.begun /\ k.changes = j.changes
  BY <1>1, GoneJob DEF Steps
<1>4. CallsOK(k)
  BY <1>1, <1>3, SameCalls
<1>5. Registrations(j) = j.asked.infra
  <2>1. LoopsInv(j)
    BY <1>1, <1>2 DEF RunInv, ProgramInv
  <2>2. RangeOf(j.calls[1].deps) = {}
    BY <1>2 DEF Top, RangeOf
  <2> QED BY <1>1, <2>1, <2>2 DEF LoopsInv, CallsOK, Registrations
<1> HIDE DEF k
<1>6. ProgramInv(k)
  BY <1>1, <1>2, <1>3, <1>5 DEF RunInv, ProgramInv, SameProgram, Registrations
<1>7. RunInv(k, state[t], kept[t], tags[t], cloud[t])
  BY <1>1, <1>2, <1>3, <1>6 DEF TagsMatch, RunInv, SameProgram, AppliedInv, LoadedInv, EndInv
<1> QED BY <1>1, <1>2, <1>3, <1>4, <1>7, RunStep, StacksStay
-----------------------------------------------------------------------------
(* Steps of Pulumi *)

(* What may be applied is registered, and a manifest.                      *)
LEMMA ApplicableFacts ==
    ASSUME StackInv, NEW t \in Targets, NEW r, Applicable(run[t], r)
    PROVE  LET j == run[t]
           IN  /\ j \in Jobs /\ CallsOK(j) /\ j.pc = "up" /\ StacksOK
               /\ r \in DOMAIN j.goals /\ r \notin j.applied /\ j.goals[r] \subseteq j.applied
               /\ r \in Resources /\ r \in j.asked.infra /\ state[t] \in SUBSET Resources
               /\ ProgramInv(j) /\ AppliedInv(j, state[t], kept[t], tags[t], cloud[t])
               /\ LoadedInv(j, state[t], tags[t]) /\ EndInv(j, state[t], kept[t], tags[t], cloud[t])
               /\ \A q \in Resources : cloud[t][q] = "stale" => q \in Drifting \cup Buckets
               /\ kept[t] \in SUBSET Stateful /\ kept[t] \subseteq state[t]
<1> DEFINE j == run[t]
<1>1. /\ j \in Jobs /\ CallsOK(j) /\ RunInv(j, state[t], kept[t], tags[t], cloud[t])
      /\ state[t] \in SUBSET Resources /\ kept[t] \in SUBSET Stateful /\ kept[t] \subseteq state[t]
      /\ j.asked.infra \in SUBSET Resources /\ StacksOK
  BY RunTypes
<1>2. /\ j.pc = "up" /\ r \in DOMAIN j.goals /\ r \notin j.applied /\ j.goals[r] \subseteq j.applied
  BY DEF Applicable
<1>3. r \in j.asked.infra /\ r \in Resources
  BY <1>1, <1>2 DEF CallsOK
<1> QED BY <1>1, <1>2, <1>3 DEF RunInv

(* Nothing that is managed is imported.                                    *)
LEMMA ManagedIsNotImported ==
    ASSUME StackInv, NEW t \in Targets, NEW r, Applicable(run[t], r), r \in run[t].imports
    PROVE  r \notin state[t]
BY ApplicableFacts DEF AppliedInv

(* What is replaced is a script with another tag, in the first update.     *)
LEMMA OnlyScriptsAreReplaced ==
    ASSUME StackInv, NEW t \in Targets, NEW r, Replace(t, r)
    PROVE  Retagged(t, r) /\ ~run[t].second
<1>1. Applicable(run[t], r) /\ (Retagged(t, r) \/ r \in run[t].imports \cap state[t])
  BY DEF Replace
<1>2. Retagged(t, r)
  BY <1>1, ManagedIsNotImported
<1>3. LoadedInv(run[t], state[t], tags[t]) /\ run[t].pc = "up"
  BY <1>1, ApplicableFacts
<1> QED BY <1>2, <1>3 DEF LoadedInv, TagsMatch, Retagged

LEMMA KeepFacts ==
    ASSUME StackInv, NEW t \in Targets, NEW r \in Resources, Keep(t, r)
    PROVE  /\ kept' \in [Targets -> SUBSET Stateful]
           /\ \A u \in Targets : u # t => kept'[u] = kept[u] /\ tags'[u] = tags[u]
           /\ \A q : q # r => (q \in kept'[t] <=> q \in kept[t])
           /\ r \in kept'[t] <=> r \in Stateful /\ run[t].asked.retain
           /\ tags' \in [Targets -> SUBSET Scripts]
           /\ \A q : q # r => (q \in tags'[t] <=> q \in tags[t])
           /\ r \in tags'[t] <=> r \in run[t].asked.tags
<1>1. kept \in [Targets -> SUBSET Stateful] /\ tags \in [Targets -> SUBSET Scripts]
      /\ run[t].asked.tags \in SUBSET Scripts
  BY RunTypes DEF StacksOK, Manifest
<1> DEFINE to   == IF r \in Stateful /\ run[t].asked.retain THEN kept[t] \cup {r}
                   ELSE kept[t] \ {r}
           with == IF r \in run[t].asked.tags THEN tags[t] \cup {r} ELSE tags[t] \ {r}
<1>2. kept' = [kept EXCEPT ![t] = to] /\ tags' = [tags EXCEPT ![t] = with]
  BY <1>1 DEF Keep
<1>3. to \in SUBSET Stateful /\ (\A q : q # r => (q \in to <=> q \in kept[t]))
      /\ (r \in to <=> r \in Stateful /\ run[t].asked.retain)
  BY <1>1
<1>4. with \in SUBSET Scripts /\ (\A q : q # r => (q \in with <=> q \in tags[t]))
      /\ (r \in with <=> r \in run[t].asked.tags)
  BY <1>1
<1> HIDE DEF to, with
<1> QED BY <1>1, <1>2, <1>3, <1>4

LEMMA ApplySameStep ==
    ASSUME StackInv, NEW t \in Targets, NEW r \in Resources, ApplySame(t, r) PROVE StepOK(t)
<1> DEFINE j == run[t]
           k == Applied(j, r)
<1>1. /\ Applicable(j, r) /\ r \in state[t] \ j.imports /\ cloud[t][r] # "stale" /\ Keep(t, r)
      /\ Goes(t, k) /\ UNCHANGED <<asked, cloud, state>>
  BY DEF ApplySame
<1>2. /\ j \in Jobs /\ CallsOK(j) /\ j.pc = "up" /\ StacksOK
      /\ r \in DOMAIN j.goals /\ r \notin j.applied
      /\ ProgramInv(j) /\ AppliedInv(j, state[t], kept[t], tags[t], cloud[t])
      /\ LoadedInv(j, state[t], tags[t]) /\ EndInv(j, state[t], kept[t], tags[t], cloud[t])
      /\ \A q \in Resources : cloud[t][q] = "stale" => q \in Drifting \cup Buckets
  BY <1>1, ApplicableFacts
<1>3. /\ kept' \in [Targets -> SUBSET Stateful]
      /\ \A u \in Targets : u # t => kept'[u] = kept[u] /\ tags'[u] = tags[u]
      /\ \A q : q # r => (q \in kept'[t] <=> q \in kept[t])
      /\ r \in kept'[t] <=> r \in Stateful /\ j.asked.retain
      /\ tags' \in [Targets -> SUBSET Scripts]
      /\ \A q : q # r => (q \in tags'[t] <=> q \in tags[t])
      /\ r \in tags'[t] <=> r \in j.asked.tags
  BY <1>1, KeepFacts
<1>4. /\ k \in Jobs /\ k.applied = j.applied \cup {r}
      /\ k.asked = j.asked /\ k.managed = j.managed /\ k.calls = j.calls
      /\ k.done = j.done /\ k.goals = j.goals /\ k.imports = j.imports
      /\ k.drift = j.drift /\ k.second = j.second /\ k.pc = j.pc
      /\ k.begun = j.begun /\ k.changes = j.changes
  BY <1>2, AppliedJob
<1> HIDE DEF k
<1>5. CallsOK(k)
  BY <1>2, <1>4 DEF CallsOK
<1>6. StacksOK'
  <2>1. \A u \in Targets : kept'[u] \cup tags'[u] \subseteq state[u]
    BY <1>1, <1>2, <1>3 DEF StacksOK
  <2> QED BY <2>1, <1>1, <1>2, <1>3 DEF StacksOK
<1>7. ProgramInv(k)
  BY <1>2, <1>4 DEF ProgramInv, LoopsInv, Registrations
<1>8. AppliedInv(k, state[t], kept'[t], tags'[t], cloud[t])
  <2>1. ASSUME NEW q \in k.applied
        PROVE  /\ q \in kept'[t] <=> q \in Stateful /\ k.asked.retain
               /\ cloud[t][q] = "stale" => q \in k.imports
    <3>1. CASE q = r
      BY <3>1, <1>1, <1>3, <1>4
    <3>2. CASE q # r
      BY <3>2, <1>2, <1>3, <1>4 DEF TagsMatch, AppliedInv
    <3> QED BY <3>1, <3>2
  <2>2. TagsMatch(k, k.applied, tags'[t])
    BY <1>2, <1>3, <1>4 DEF AppliedInv, TagsMatch
  <2> QED BY <1>1, <1>2, <1>4, <2>1, <2>2 DEF AppliedInv
<1>9. LoadedInv(k, state[t], tags'[t])
  BY <1>2, <1>3, <1>4 DEF LoadedInv, TagsMatch
<1>10. RunInv(k, state[t], kept'[t], tags'[t], cloud[t])
  BY <1>2, <1>4, <1>7, <1>8, <1>9 DEF RunInv, EndInv
<1> QED BY <1>1, <1>4, <1>5, <1>6, <1>10, RunStep

LEMMA ApplyChangeStep ==
    ASSUME StackInv, NEW t \in Targets, NEW r \in Resources, ApplyChange(t, r) PROVE StepOK(t)
<1> DEFINE j == run[t]
           a == Applied(j, r)
           k == Changed(a)
           inputs == IF r \in j.imports THEN cloud[t][r] ELSE "current"
<1>1. Applicable(j, r) /\ Keep(t, r) /\ UNCHANGED asked
  BY DEF ApplyChange
<1>2. /\ j \in Jobs /\ CallsOK(j) /\ j.pc = "up" /\ StacksOK
      /\ r \in DOMAIN j.goals /\ r \notin j.applied /\ r \in j.asked.infra
      /\ ProgramInv(j) /\ AppliedInv(j, state[t], kept[t], tags[t], cloud[t])
      /\ LoadedInv(j, state[t], tags[t]) /\ EndInv(j, state[t], kept[t], tags[t], cloud[t])
      /\ \A q \in Resources : cloud[t][q] = "stale" => q \in Drifting \cup Buckets
  BY <1>1, ApplicableFacts
<1>4. /\ cloud' = [cloud EXCEPT ![t][r] = IF r \in j.imports THEN @ ELSE "current"]
      /\ state' = [state EXCEPT ![t] = @ \cup {r}]
      /\ Goes(t, k)
  BY DEF ApplyChange
<1>5. /\ kept' \in [Targets -> SUBSET Stateful]
      /\ \A u \in Targets : u # t => kept'[u] = kept[u] /\ tags'[u] = tags[u]
      /\ \A q : q # r => (q \in kept'[t] <=> q \in kept[t])
      /\ r \in kept'[t] <=> r \in Stateful /\ j.asked.retain
      /\ tags' \in [Targets -> SUBSET Scripts]
      /\ \A q : q # r => (q \in tags'[t] <=> q \in tags[t])
      /\ r \in tags'[t] <=> r \in j.asked.tags
  BY <1>1, KeepFacts
<1>6. /\ a \in Jobs /\ a.applied = j.applied \cup {r}
      /\ a.asked = j.asked /\ a.managed = j.managed /\ a.calls = j.calls
      /\ a.done = j.done /\ a.goals = j.goals /\ a.imports = j.imports
      /\ a.drift = j.drift /\ a.second = j.second /\ a.pc = j.pc
      /\ a.begun = j.begun /\ a.changes = j.changes
  BY <1>2, AppliedJob
<1>7. /\ k \in Jobs /\ SameProgram(a, k) /\ k.pc = a.pc
      /\ k.begun = a.begun /\ k.changes = (a.changes \/ ~a.second)
  BY <1>6, ChangedJob
<1> HIDE DEF a
<1>8. /\ k.applied = j.applied \cup {r}
      /\ k.asked = j.asked /\ k.managed = j.managed /\ k.calls = j.calls
      /\ k.done = j.done /\ k.goals = j.goals /\ k.imports = j.imports
      /\ k.drift = j.drift /\ k.second = j.second /\ k.pc = "up"
      /\ k.begun = j.begun /\ k.changes = (j.changes \/ ~j.second)
  BY <1>2, <1>6, <1>7 DEF SameProgram
<1> HIDE DEF k
<1>9. CallsOK(k)
  BY <1>2, <1>8 DEF CallsOK
<1>10. /\ state' \in [Targets -> SUBSET Resources] /\ state'[t] = state[t] \cup {r}
       /\ \A u \in Targets : u # t => state'[u] = state[u]
  BY <1>2, <1>4 DEF StacksOK
<1>11. /\ cloud' \in [Targets -> [Resources -> {"none", "stale", "current"}]]
       /\ cloud'[t][r] = inputs /\ \A q \in Resources : q # r => cloud'[t][q] = cloud[t][q]
  BY <1>2, <1>4 DEF StacksOK
<1>12. StacksOK'
  <2>1. \A u \in Targets : kept'[u] \cup tags'[u] \subseteq state'[u]
    <3> TAKE u \in Targets
    <3>1. CASE u = t
      BY <3>1, <1>2, <1>5, <1>10 DEF StacksOK
    <3>2. CASE u # t
      BY <3>2, <1>2, <1>5, <1>10 DEF StacksOK
    <3> QED BY <3>1, <3>2
  <2> QED BY <2>1, <1>1, <1>2, <1>5, <1>10, <1>11 DEF StacksOK
<1>13. ProgramInv(k)
  BY <1>2, <1>8 DEF ProgramInv, LoopsInv, Registrations
<1>14. AppliedInv(k, state'[t], kept'[t], tags'[t], cloud'[t])
  <2>1. ASSUME NEW q \in k.applied
        PROVE  /\ q \in kept'[t] <=> q \in Stateful /\ k.asked.retain
               /\ cloud'[t][q] = "stale" => q \in k.imports
    <3>1. CASE q = r
      BY <3>1, <1>5, <1>8, <1>11
    <3>2. CASE q # r
      <4>1. q \in j.applied /\ q \in Resources
        BY <3>2, <1>2, <1>8 DEF Jobs
      <4> QED BY <3>2, <4>1, <1>2, <1>5, <1>8, <1>11 DEF TagsMatch, AppliedInv
    <3> QED BY <3>1, <3>2
  <2>2. TagsMatch(k, k.applied, tags'[t])
    BY <1>2, <1>5, <1>8 DEF AppliedInv, TagsMatch
  <2> QED BY <1>2, <1>8, <1>10, <2>1, <2>2 DEF AppliedInv
<1>15. LoadedInv(k, state'[t], tags'[t])
  BY <1>2, <1>5, <1>8, <1>10 DEF LoadedInv, TagsMatch
<1>16. EndInv(k, state'[t], kept'[t], tags'[t], cloud'[t])
  <2>1. ASSUME ~k.changes PROVE state'[t] = k.begun
    <3>1. ~j.changes /\ j.second /\ j.pc = "up"
      BY <1>2, <1>8, <2>1
    <3>2. state[t] = j.asked.infra
      BY <1>2, <3>1 DEF TagsMatch, LoadedInv
    <3>3. state[t] = j.begun
      BY <1>2, <3>1 DEF TagsMatch, EndInv
    <3> QED BY <1>2, <1>8, <1>10, <3>2, <3>3
  <2> QED BY <1>8, <2>1 DEF TagsMatch, EndInv
<1>17. \A q \in Resources : cloud'[t][q] = "stale" => q \in Drifting \cup Buckets
  BY <1>2, <1>11
<1>18. RunInv(k, state'[t], kept'[t], tags'[t], cloud'[t])
  BY <1>8, <1>13, <1>14, <1>15, <1>16, <1>17 DEF RunInv
<1> QED BY <1>4, <1>7, <1>9, <1>12, <1>18, RunStep

LEMMA ReplaceStep ==
    ASSUME StackInv, NEW t \in Targets, NEW r \in Resources, Replace(t, r) PROVE StepOK(t)
<1> DEFINE j == run[t]
           a == [j EXCEPT !.imports = @ \ {r}]
           k == Changed(a)
<1>1. /\ Applicable(j, r) /\ UNCHANGED asked /\ Goes(t, k)
      /\ cloud' = [cloud EXCEPT ![t][r] = "none"] /\ state' = [state EXCEPT ![t] = @ \ {r}]
      /\ kept' = [kept EXCEPT ![t] = @ \ {r}] /\ tags' = [tags EXCEPT ![t] = @ \ {r}]
  BY DEF Replace
<1>2. /\ j \in Jobs /\ CallsOK(j) /\ j.pc = "up" /\ StacksOK
      /\ r \in DOMAIN j.goals /\ r \notin j.applied
      /\ ProgramInv(j) /\ AppliedInv(j, state[t], kept[t], tags[t], cloud[t])
      /\ LoadedInv(j, state[t], tags[t])
      /\ \A q \in Resources : cloud[t][q] = "stale" => q \in Drifting \cup Buckets
  BY <1>1, ApplicableFacts
<1>3. ~j.second
  BY OnlyScriptsAreReplaced
<1>4. /\ a \in Jobs /\ a.imports = j.imports \ {r} /\ a.applied = j.applied
      /\ a.asked = j.asked /\ a.managed = j.managed /\ a.calls = j.calls
      /\ a.done = j.done /\ a.goals = j.goals
      /\ a.drift = j.drift /\ a.second = j.second /\ a.pc = j.pc /\ a.begun = j.begun
  BY <1>2 DEF Jobs
<1>5. /\ k \in Jobs /\ SameProgram(a, k) /\ k.pc = a.pc /\ k.begun = a.begun
      /\ k.changes = (a.changes \/ ~a.second)
  BY <1>4, ChangedJob
<1> HIDE DEF a
<1>6. /\ k.imports = j.imports \ {r} /\ k.applied = j.applied
      /\ k.asked = j.asked /\ k.managed = j.managed /\ k.calls = j.calls
      /\ k.done = j.done /\ k.goals = j.goals
      /\ k.drift = j.drift /\ ~k.second /\ k.pc = "up" /\ k.changes
  BY <1>2, <1>3, <1>4, <1>5 DEF SameProgram
<1> HIDE DEF k
<1>7. CallsOK(k)
  BY <1>2, <1>6 DEF CallsOK
<1>8. /\ state' \in [Targets -> SUBSET Resources] /\ state'[t] = state[t] \ {r}
      /\ kept' \in [Targets -> SUBSET Stateful] /\ kept'[t] = kept[t] \ {r}
      /\ tags' \in [Targets -> SUBSET Scripts] /\ tags'[t] = tags[t] \ {r}
      /\ \A u \in Targets : u # t =>
            state'[u] = state[u] /\ kept'[u] = kept[u] /\ tags'[u] = tags[u]
  BY <1>1, <1>2 DEF StacksOK
<1>9. /\ cloud' \in [Targets -> [Resources -> {"none", "stale", "current"}]]
      /\ cloud'[t][r] = "none" /\ \A q \in Resources : q # r => cloud'[t][q] = cloud[t][q]
  BY <1>1, <1>2 DEF StacksOK
<1>10. StacksOK'
  <2>1. ASSUME NEW u \in Targets PROVE kept'[u] \cup tags'[u] \subseteq state'[u]
    <3>1. CASE u = t
      BY <3>1, <1>2, <1>8 DEF StacksOK
    <3>2. CASE u # t
      BY <3>2, <1>2, <1>8 DEF StacksOK
    <3> QED BY <3>1, <3>2
  <2> QED BY <2>1, <1>1, <1>2, <1>8, <1>9 DEF StacksOK
<1>11. ProgramInv(k)
  BY <1>2, <1>6 DEF ProgramInv, LoopsInv, Registrations
<1>12. AppliedInv(k, state'[t], kept'[t], tags'[t], cloud'[t])
  <2>1. \A q \in k.applied : q \in Resources /\ q # r
    BY <1>2, <1>6 DEF Jobs
  <2> QED BY <2>1, <1>2, <1>6, <1>8, <1>9 DEF AppliedInv, TagsMatch
<1>13. LoadedInv(k, state'[t], tags'[t])
  BY <1>2, <1>6, <1>8 DEF LoadedInv
<1>14. \A q \in Resources : cloud'[t][q] = "stale" => q \in Drifting \cup Buckets
  BY <1>2, <1>9
<1>15. RunInv(k, state'[t], kept'[t], tags'[t], cloud'[t])
  BY <1>6, <1>11, <1>12, <1>13, <1>14 DEF RunInv, EndInv
<1> QED BY <1>1, <1>5, <1>7, <1>10, <1>15, RunStep

LEMMA FailStep ==
    ASSUME StackInv, NEW t \in Targets,
           Fail(t) \/ \E r \in Resources : ApplyFails(t, r) \/ DeleteFails(t, r)
    PROVE  StepOK(t)
BY FailedRun DEF Fail, ApplyFails, DeleteFails, stacks

LEMMA DeleteStep ==
    ASSUME StackInv, NEW t \in Targets, NEW r \in Resources, Delete(t, r) PROVE StepOK(t)
<1> DEFINE j == run[t]
           k == Changed(j)
           left == cloud'[t][r]
<1>1. /\ j \in Jobs /\ CallsOK(j) /\ RunInv(j, state[t], kept[t], tags[t], cloud[t]) /\ StacksOK
  BY RunTypes
<1>2. /\ \/ j.pc = "prune" /\ r \in state[t] \ DOMAIN j.goals
         \/ j.pc = "destroy" /\ r \in state[t]
      /\ state' = [state EXCEPT ![t] = @ \ {r}] /\ kept' = [kept EXCEPT ![t] = @ \ {r}]
      /\ tags' = [tags EXCEPT ![t] = @ \ {r}]
      /\ Goes(t, k) /\ UNCHANGED asked
  BY DEF Delete
<1>3. PICK v \in {"none", "stale", "current"} :
        /\ cloud' = [cloud EXCEPT ![t][r] = v]
        /\ v = "stale" => r \in Drifting \cup Buckets
  <2>1. CASE r \in kept[t]
    <3> DEFINE v == IF cloud[t][r] = "current" THEN Drifted(r) ELSE cloud[t][r]
    <3>1. cloud' = [cloud EXCEPT ![t][r] = v]
      BY <2>1, <1>1 DEF Delete, StacksOK
    <3>2. v \in {"none", "stale", "current"} /\ (v = "stale" => r \in Drifting \cup Buckets)
      BY <1>1 DEF Drifted, StacksOK, RunInv
    <3> HIDE DEF v
    <3> QED BY <3>1, <3>2
  <2>2. CASE r \notin kept[t]
    <3>1. cloud' = [cloud EXCEPT ![t][r] = "none"]
      BY <2>2 DEF Delete
    <3> QED BY <3>1
  <2> QED BY <2>1, <2>2
<1>4. /\ k \in Jobs /\ SameProgram(j, k) /\ k.pc = j.pc /\ k.begun = j.begun
      /\ k.changes = (j.changes \/ ~j.second)
  BY <1>1, ChangedJob
<1>5. CallsOK(k)
  BY <1>1, <1>4, SameCalls
<1>6. ~j.second
  <2>1. CASE j.pc = "destroy"
    BY <2>1, <1>1 DEF RunInv, ProgramInv
  <2>2. CASE j.pc = "prune"
    BY <2>2, <1>1, <1>2 DEF TagsMatch, RunInv, ProgramInv, LoadedInv, Registrations
  <2> QED BY <1>2, <2>1, <2>2
<1>7. /\ state' \in [Targets -> SUBSET Resources] /\ state'[t] = state[t] \ {r}
      /\ kept' \in [Targets -> SUBSET Stateful] /\ kept'[t] = kept[t] \ {r}
      /\ tags' \in [Targets -> SUBSET Scripts] /\ tags'[t] = tags[t] \ {r}
      /\ \A u \in Targets : u # t =>
            state'[u] = state[u] /\ kept'[u] = kept[u] /\ tags'[u] = tags[u]
  BY <1>1, <1>2 DEF StacksOK
<1>8. /\ cloud' \in [Targets -> [Resources -> {"none", "stale", "current"}]]
      /\ cloud'[t][r] = v /\ \A q \in Resources : q # r => cloud'[t][q] = cloud[t][q]
  BY <1>1, <1>3 DEF StacksOK
<1>9. StacksOK'
  <2>1. \A u \in Targets : kept'[u] \cup tags'[u] \subseteq state'[u]
    <3> TAKE u \in Targets
    <3>1. CASE u = t
      BY <3>1, <1>1, <1>7 DEF StacksOK
    <3>2. CASE u # t
      BY <3>2, <1>1, <1>7 DEF StacksOK
    <3> QED BY <3>1, <3>2
  <2> QED BY <2>1, <1>1, <1>2, <1>7, <1>8 DEF StacksOK
<1> HIDE DEF k
<1>10. ProgramInv(k)
  BY <1>1, <1>2, <1>4 DEF RunInv, ProgramInv, SameProgram, Registrations
<1>11. j.pc = "prune" => AppliedInv(k, state'[t], kept'[t], tags'[t], cloud'[t])
  <2> SUFFICES ASSUME j.pc = "prune" PROVE AppliedInv(k, state'[t], kept'[t], tags'[t], cloud'[t])
    OBVIOUS
  <2>1. /\ AppliedInv(j, state[t], kept[t], tags[t], cloud[t]) /\ j.applied = DOMAIN j.goals
        /\ r \notin j.applied /\ j.imports \subseteq j.applied /\ j.applied \subseteq Resources
    BY <1>1, <1>2 DEF RunInv, ProgramInv, CallsOK, Registrations, Jobs
  <2> QED BY <2>1, <1>4, <1>7, <1>8 DEF TagsMatch, AppliedInv, SameProgram
<1>12. LoadedInv(k, state'[t], tags'[t])
  BY <1>2, <1>4, <1>6 DEF TagsMatch, LoadedInv, SameProgram
<1>13. EndInv(k, state'[t], kept'[t], tags'[t], cloud'[t])
  BY <1>2, <1>4, <1>6 DEF TagsMatch, EndInv
<1>14. \A q \in Resources : cloud'[t][q] = "stale" => q \in Drifting \cup Buckets
  <2> TAKE q \in Resources
  <2>1. CASE q = r
    BY <2>1, <1>3, <1>8
  <2>2. CASE q # r
    BY <2>2, <1>1, <1>8 DEF RunInv
  <2> QED BY <2>1, <2>2
<1>15. RunInv(k, state'[t], kept'[t], tags'[t], cloud'[t])
  BY <1>2, <1>4, <1>10, <1>11, <1>12, <1>13, <1>14 DEF RunInv
<1> QED BY <1>2, <1>4, <1>5, <1>9, <1>15, RunStep

LEMMA UpdatedStep == ASSUME StackInv, NEW t \in Targets, Updated(t) PROVE StepOK(t)
<1> DEFINE j == run[t]
           k == [j EXCEPT !.pc = "load", !.second = TRUE]
           q == Returned(j, FALSE)
<1>1. /\ j \in Jobs /\ CallsOK(j) /\ RunInv(j, state[t], kept[t], tags[t], cloud[t]) /\ StacksOK
      /\ state[t] \in SUBSET Resources /\ kept[t] \in SUBSET Stateful /\ kept[t] \subseteq state[t]
  BY RunTypes
<1>2. /\ j.pc = "prune" /\ state[t] \subseteq DOMAIN j.goals
      /\ UNCHANGED <<asked, cloud, state, kept, tags>>
  BY DEF Updated, stacks
<1>3. /\ ProgramInv(j) /\ AppliedInv(j, state[t], kept[t], tags[t], cloud[t])
      /\ LoadedInv(j, state[t], tags[t]) /\ EndInv(j, state[t], kept[t], tags[t], cloud[t])
      /\ \A r \in Resources : cloud[t][r] = "stale" => r \in Drifting \cup Buckets
  BY <1>1, <1>2 DEF RunInv
<1>4. /\ state[t] = j.asked.infra /\ j.applied = state[t]
      /\ TagsMatch(j, state[t], tags[t])
  BY <1>2, <1>3 DEF TagsMatch, ProgramInv, AppliedInv, Registrations
<1>5. ASSUME j.drift, ~j.second, Goes(t, k) PROVE StepOK(t)
  <2>1. /\ k \in Jobs /\ k.pc = "load" /\ k.second /\ k.asked = j.asked /\ k.managed = j.managed
        /\ k.calls = j.calls /\ k.done = j.done /\ k.goals = j.goals /\ k.imports = j.imports
        /\ k.applied = j.applied /\ k.drift = j.drift
        /\ k.begun = j.begun /\ k.changes = j.changes
    BY <1>1 DEF Jobs, Steps
  <2> HIDE DEF k
  <2>2. CallsOK(k)
    BY <1>1, <2>1 DEF CallsOK
  <2>3. ProgramInv(k)
    BY <1>3, <1>5, <2>1 DEF ProgramInv, Registrations
  <2>4. TagsMatch(k, state[t], tags[t])
    BY <1>4, <2>1 DEF TagsMatch
  <2>5. LoadedInv(k, state[t], tags[t])
    BY <1>4, <2>1, <2>4 DEF LoadedInv
  <2>6. RunInv(k, state[t], kept[t], tags[t], cloud[t])
    BY <1>2, <1>3, <2>1, <2>3, <2>5 DEF RunInv, EndInv
  <2> QED BY <1>1, <1>2, <1>5, <2>1, <2>2, <2>6, RunStep, StacksStay
<1>6. ASSUME j.drift => j.second, Goes(t, q) PROVE StepOK(t)
  <2>1. /\ q \in Jobs /\ SameProgram(j, q) /\ q.pc = "done" /\ ~q.failed
        /\ q.begun = j.begun /\ q.changes = j.changes
    BY <1>1, ReturnedJob
  <2>2. CallsOK(q)
    BY <1>1, <2>1, SameCalls
  <2> HIDE DEF q
  <2>3. ASSUME NEW r \in state[t], cloud[t][r] = "stale" PROVE r \in Buckets \cap j.imports
    <3>1. j.imports \cap Drifting = {}
      BY <1>2, <1>3, <1>6 DEF TagsMatch, ProgramInv, LoadedInv
    <3> QED BY <2>3, <3>1, <1>1, <1>3, <1>4 DEF AppliedInv
  <2>4. /\ kept[t] = {r \in state[t] \cap Stateful : j.asked.retain}
        /\ TagsMatch(j, state[t], tags[t])
    BY <1>1, <1>3, <1>4 DEF TagsMatch, AppliedInv
  <2>5. ProgramInv(q)
    BY <1>2, <1>3, <2>1 DEF ProgramInv, SameProgram, Registrations
  <2>6. EndInv(q, state[t], kept[t], tags[t], cloud[t])
    BY <1>2, <1>3, <1>4, <2>1, <2>3, <2>4 DEF TagsMatch, EndInv, SameProgram
  <2>7. RunInv(q, state[t], kept[t], tags[t], cloud[t])
    BY <1>2, <1>3, <2>1, <2>5, <2>6 DEF TagsMatch, RunInv, LoadedInv
  <2> QED BY <1>1, <1>2, <1>6, <2>1, <2>2, <2>7, RunStep, StacksStay
<1> QED BY <1>5, <1>6 DEF Updated
-----------------------------------------------------------------------------
(* Steps of users and the world *)

LEMMA AskStep ==
    ASSUME StackInv, NEW t \in Targets, NEW m \in Manifests, Ask(t, m)
    PROVE  RunsOK' /\ StacksOK' /\ \A u \in Targets : TargetInv(u)'
<1>1. UNCHANGED <<run, cloud, state, kept, tags>> /\ asked' = [asked EXCEPT ![t] = m]
  BY DEF Ask, stacks
<1>2. RunsOK' /\ StacksOK'
  BY <1>1 DEF StackInv, TypeOK, RunsOK, StacksOK
<1>3. \A u \in Targets : TargetInv(u)'
  BY <1>1 DEF StackInv, TargetInv
<1> QED BY <1>2, <1>3

LEMMA LoseStateStep == ASSUME StackInv, NEW t \in Targets, LoseState(t) PROVE StepOK(t)
<1> DEFINE j == run[t]
           lost == [r \in Resources |->
                       IF r \in Scripts THEN "none"
                       ELSE IF cloud[t][r] = "current" THEN Drifted(r) ELSE cloud[t][r]]
<1>1. /\ j \in Jobs /\ CallsOK(j) /\ RunInv(j, state[t], kept[t], tags[t], cloud[t]) /\ StacksOK
      /\ run \in [Targets -> Jobs]
  BY RunTypes DEF StackInv, TypeOK, RunsOK
<1>2. /\ j.pc = "idle" /\ UNCHANGED <<asked, run>>
      /\ state' = [state EXCEPT ![t] = {}] /\ kept' = [kept EXCEPT ![t] = {}]
      /\ tags' = [tags EXCEPT ![t] = {}] /\ cloud' = [cloud EXCEPT ![t] = lost]
  BY DEF LoseState
<1>3. /\ lost \in [Resources -> {"none", "stale", "current"}]
      /\ \A r \in Resources : lost[r] = "stale" => r \in Drifting \cup Buckets
  BY <1>1 DEF StacksOK, RunInv, Drifted
<1> HIDE DEF lost
<1>4. /\ StacksOK'
      /\ state'[t] = {} /\ kept'[t] = {} /\ tags'[t] = {} /\ cloud'[t] = lost
  BY <1>1, <1>2, <1>3 DEF StacksOK
<1>5. RunInv(j, state'[t], kept'[t], tags'[t], cloud'[t])
  BY <1>1, <1>2, <1>3, <1>4 DEF TagsMatch, RunInv, LoadedInv, EndInv
<1>6. RunsOK' /\ TargetInv(t)'
  BY <1>2, <1>5 DEF StackInv, TypeOK, RunsOK, TargetInv
<1> QED BY <1>4, <1>6 DEF StepOK

LEMMA DeleteByHandStep ==
    ASSUME StackInv, NEW t \in Targets, NEW r \in Resources, DeleteByHand(t, r) PROVE StepOK(t)
<1> DEFINE j == run[t]
<1>1. /\ j \in Jobs /\ CallsOK(j) /\ RunInv(j, state[t], kept[t], tags[t], cloud[t]) /\ StacksOK
      /\ state[t] \in SUBSET Resources
  BY RunTypes
<1>2. /\ UNCHANGED <<asked, state, kept, tags, run>> /\ cloud' = [cloud EXCEPT ![t][r] = "none"]
  BY DEF DeleteByHand
<1>3. /\ StacksOK' /\ cloud'[t][r] = "none"
      /\ \A q \in Resources : q # r => cloud'[t][q] = cloud[t][q]
  BY <1>1, <1>2 DEF StacksOK
<1>4. \A q \in Resources : cloud'[t][q] = "stale" => cloud[t][q] = "stale"
  BY <1>3
<1>5. AppliedInv(j, state[t], kept[t], tags[t], cloud[t]) => AppliedInv(j, state[t], kept[t], tags[t], cloud'[t])
  BY <1>1, <1>4 DEF TagsMatch, AppliedInv
<1>6. EndInv(j, state[t], kept[t], tags[t], cloud'[t])
  BY <1>1, <1>4 DEF TagsMatch, RunInv, EndInv
<1>7. RunInv(j, state[t], kept[t], tags[t], cloud'[t])
  BY <1>1, <1>4, <1>5, <1>6 DEF RunInv
<1>8. RunsOK' /\ TargetInv(t)'
  BY <1>2, <1>7 DEF StackInv, TypeOK, RunsOK, TargetInv
<1> QED BY <1>3, <1>8 DEF StepOK
-----------------------------------------------------------------------------
(* All steps *)

OthersStay(t) ==
    \A u \in Targets : u # t =>
        /\ run'[u] = run[u] /\ state'[u] = state[u] /\ kept'[u] = kept[u]
        /\ tags'[u] = tags[u] /\ cloud'[u] = cloud[u]

\* What is not the business of the stacks.
RestOK ==
    /\ env \in [Scripts -> Targets \cup {Nobody}]
    /\ given \in [Targets -> [Scripts -> Targets \cup {Nobody}]]
    /\ server \in BOOLEAN
    /\ spent \in [edits : 0 .. MaxEdits, failures : 0 .. MaxFailures, outages : 0 .. MaxOutages]

TargetStep(t) == Start(t) \/ Work(t) \/ Fail(t) \/ LoseState(t)
                     \/ \E r \in Resources : DeleteByHand(t, r)

LEMMA OneTargetSteps ==
    ASSUME StackInv, NEW t \in Targets, TargetStep(t)
    PROVE  OthersStay(t)
<1>1. /\ run \in [Targets -> Jobs] /\ StacksOK
  BY DEF StackInv, TypeOK, RunsOK
<1>2. \A j : Goes(t, j) => \A u \in Targets : u # t => run'[u] = run[u]
  BY <1>1 DEF Goes
<1>3. CASE Start(t) \/ Check(t) \/ Load(t) \/ Visit(t) \/ Registered(t)
  BY <1>2, <1>3 DEF Start, Check, Load, Visit, Registered, stacks, OthersStay
<1>4. CASE Register(t)
  BY <1>2, <1>4 DEF Register, OthersStay
<1>5. CASE Updated(t) \/ Select(t) \/ Remove(t) \/ Finish(t) \/ Fail(t)
  BY <1>2, <1>5 DEF Updated, Select, Remove, Finish, Fail, stacks, OthersStay
<1>6. CASE Refresh(t)
  BY <1>1, <1>2, <1>6 DEF Refresh, OthersStay, StacksOK
<1>7. ASSUME NEW r \in Resources, ApplySame(t, r) \/ ApplyChange(t, r) \/ Replace(t, r)
      PROVE  OthersStay(t)
  BY <1>1, <1>2, <1>7 DEF ApplySame, ApplyChange, Replace, Keep, OthersStay, StacksOK
<1>8. ASSUME NEW r \in Resources, ApplyFails(t, r) \/ DeleteFails(t, r) PROVE OthersStay(t)
  BY <1>2, <1>8 DEF ApplyFails, DeleteFails, stacks, OthersStay
<1>9. ASSUME NEW r \in Resources, Delete(t, r) PROVE OthersStay(t)
  BY <1>1, <1>2, <1>9 DEF Delete, OthersStay, StacksOK
<1>10. CASE LoseState(t)
  BY <1>1, <1>10 DEF LoseState, OthersStay, StacksOK
<1>11. ASSUME NEW r \in Resources, DeleteByHand(t, r) PROVE OthersStay(t)
  BY <1>1, <1>11 DEF DeleteByHand, OthersStay, StacksOK
<1> QED BY <1>3, <1>4, <1>5, <1>6, <1>7, <1>8, <1>9, <1>10, <1>11 DEF TargetStep, Work

LEMMA OneTargetKeeps ==
    ASSUME StackInv, NEW t \in Targets, TargetStep(t)
    PROVE  StepOK(t)
BY StartStep, CheckStep, RefreshStep, LoadStep, VisitStep, RegisterStep, RegisteredStep,
   UpdatedStep, SelectStep, RemoveStep, FinishStep, ApplySameStep, ApplyChangeStep, ReplaceStep,
   DeleteStep, FailStep, LoseStateStep, DeleteByHandStep
   DEF TargetStep, Work

LEMMA RestSteps == StackInv /\ [Next]_vars => RestOK'
<1> SUFFICES ASSUME StackInv, [Next]_vars PROVE RestOK'
  OBVIOUS
<1>1. RestOK
  BY DEF StackInv, TypeOK, RestOK
<1>2. MaxEdits \in Nat /\ MaxFailures \in Nat /\ MaxOutages \in Nat
  BY SettingsAssumption
<1>3. CASE UNCHANGED <<env, given, server, spent>>
  BY <1>1, <1>3 DEF RestOK
<1>4. CASE Outage
  BY <1>1, <1>2, <1>4 DEF RestOK, Outage, stacks
<1>5. ASSUME NEW t \in Targets, Fail(t) PROVE RestOK'
  BY <1>1, <1>2, <1>5 DEF RestOK, Fail, stacks
<1>6. ASSUME NEW t \in Targets, Environment(t) PROVE RestOK'
  BY <1>1, <1>2, <1>6 DEF RestOK, Environment, Ask, LoseState, DeleteByHand, stacks
<1>7. ASSUME NEW t \in Targets, Register(t) PROVE RestOK'
  <2> DEFINE r == Top(run[t].calls).res
  <2>1. UNCHANGED <<server, spent>>
    BY <1>7 DEF Register
  <2>2. r \in Scripts => Rendered(t, r) \in Targets \cup {Nobody}
    BY <1>1 DEF RestOK, Rendered
  <2>3. /\ env' = IF r \in Scripts THEN [env EXCEPT ![r] = Rendered(t, r)] ELSE env
        /\ given' = IF r \in Scripts THEN [given EXCEPT ![t][r] = Rendered(t, r)] ELSE given
    BY <1>7 DEF Register
  <2> HIDE DEF r
  <2>4. env' \in [Scripts -> Targets \cup {Nobody}]
    BY <1>1, <2>2, <2>3 DEF RestOK
  <2>5. given' \in [Targets -> [Scripts -> Targets \cup {Nobody}]]
    BY <1>1, <2>2, <2>3 DEF RestOK
  <2> QED BY <1>1, <2>1, <2>4, <2>5 DEF RestOK
<1>8. ASSUME NEW t \in Targets, Start(t) \/ Work(t), ~Register(t)
      PROVE  UNCHANGED <<env, given, server, spent>>
  <2>1. CASE Start(t) \/ Check(t) \/ Refresh(t) \/ Load(t) \/ Visit(t)
    BY <2>1 DEF Start, Check, Refresh, Load, Visit, stacks
  <2>2. CASE Registered(t) \/ Updated(t) \/ Select(t) \/ Remove(t) \/ Finish(t)
    BY <2>2 DEF Registered, Updated, Select, Remove, Finish, stacks
  <2>3. ASSUME NEW r \in Resources, \/ ApplySame(t, r) \/ ApplyChange(t, r) \/ Replace(t, r)
                                    \/ ApplyFails(t, r) \/ Delete(t, r) \/ DeleteFails(t, r)
        PROVE  UNCHANGED <<env, given, server, spent>>
    BY <2>3 DEF ApplySame, ApplyChange, Replace, ApplyFails, Delete, DeleteFails, stacks
  <2> QED BY <1>8, <2>1, <2>2, <2>3 DEF Work
<1>9. ASSUME NEW t \in Targets, Start(t) \/ Work(t) PROVE RestOK'
  <2>1. CASE Register(t)
    BY <1>7, <2>1
  <2>2. CASE ~Register(t)
    <3>1. UNCHANGED <<env, given, server, spent>>
      BY <1>8, <1>9, <2>2
    <3> QED BY <1>3, <3>1
  <2> QED BY <2>1, <2>2
<1>10. CASE UNCHANGED vars
  BY <1>1, <1>10 DEF vars, stacks, RestOK
<1> QED BY <1>4, <1>5, <1>6, <1>9, <1>10 DEF Next

LEMMA NextKeeps == StackInv /\ [Next]_vars => StackInv'
<1> SUFFICES ASSUME StackInv, [Next]_vars
             PROVE  RunsOK' /\ StacksOK' /\ \A u \in Targets : TargetInv(u)'
  BY RestSteps DEF StackInv, TypeOK, RestOK
<1>1. CASE UNCHANGED <<asked, cloud, state, kept, tags, run>>
  BY <1>1 DEF StackInv, TypeOK, RunsOK, StacksOK, TargetInv
<1>2. ASSUME NEW t \in Targets, TargetStep(t)
      PROVE  RunsOK' /\ StacksOK' /\ \A u \in Targets : TargetInv(u)'
  <2>1. StepOK(t) /\ OthersStay(t)
    BY <1>2, OneTargetKeeps, OneTargetSteps
  <2>2. ASSUME NEW u \in Targets, u # t PROVE TargetInv(u)'
    BY <2>1, <2>2 DEF StackInv, OthersStay, TargetInv
  <2> QED BY <2>1, <2>2 DEF StepOK
<1>3. ASSUME NEW t \in Targets, NEW m \in Manifests, Ask(t, m)
      PROVE  RunsOK' /\ StacksOK' /\ \A u \in Targets : TargetInv(u)'
  BY <1>3, AskStep
<1>4. CASE Outage
  BY <1>1, <1>4 DEF Outage, stacks
<1> QED BY <1>1, <1>2, <1>3, <1>4 DEF Next, Environment, TargetStep, vars, stacks

LEMMA InitKeeps == Init => StackInv
<1> SUFFICES ASSUME Init PROVE StackInv
  OBVIOUS
<1>1. TypeOK
  <2>1. StacksOK
    BY DEF Init, StacksOK
  <2>2. RunsOK
    BY IdleIsJob DEF Init, RunsOK
  <2>3. spent \in [edits : 0 .. MaxEdits, failures : 0 .. MaxFailures, outages : 0 .. MaxOutages]
    BY SettingsAssumption DEF Init
  <2> QED BY <2>1, <2>2, <2>3 DEF Init, TypeOK
<1>2. ASSUME NEW t \in Targets PROVE TargetInv(t)
  <2>1. /\ Idle.done = {} /\ Idle.goals = NoGoals /\ Idle.imports = {} /\ ~Idle.drift
        /\ Idle.pc = "idle" /\ ~Idle.second
    BY DEF Idle
  <2>2. run[t] = Idle /\ \A r \in Resources : cloud[t][r] = "none"
    BY DEF Init
  <2> QED BY <2>1, <2>2, NoGoalsAreGoals
          DEF TagsMatch, TargetInv, RunInv, ProgramInv, Registrations, LoadedInv, EndInv
<1> QED BY <1>1, <1>2 DEF StackInv

(* The invariant: types, and in each run what is registered, applied and   *)
(* left to do.                                                             *)
THEOREM StackInvariance == Spec => []StackInv
BY InitKeeps, NextKeeps, PTL DEF Spec

(* Every variable stays in its set, for all constants (TypeOK).            *)
THEOREM TypesAreCorrect == Spec => []TypeOK
<1>1. StackInv => TypeOK
  BY DEF StackInv
<1> QED BY <1>1, StackInvariance, PTL

(* An update or destruction that returns no error has done all of it: what *)
(* is asked for is in the stack, with its inputs and its delete policy,    *)
(* and nothing else (updateStack, tryDestroyAndDeleteStack).               *)
THEOREM SuccessIsAsAsked == Spec => []SucceededIsAsked
<1>1. StackInv => SucceededIsAsked
  BY DEF TagsMatch, StackInv, TargetInv, RunInv, EndInv, SucceededIsAsked, Succeeded
<1> QED BY <1>1, StackInvariance, PTL

(* A stack that has gained or lost resources reports changes, in the first *)
(* or the second update (hasChanges).                                      *)
THEOREM EveryChangeIsReported == Spec => []ChangesAreReported
<1>1. StackInv => ChangesAreReported
  BY DEF TagsMatch, StackInv, TargetInv, RunInv, EndInv, ChangesAreReported, Succeeded
<1> QED BY <1>1, StackInvariance, PTL

(* No resource joins a stack before those it depends on, in whatever order *)
(* the loops come to them and Pulumi applies them (deployResourceWithDeps, *)
(* DependsOn), but for the scripts that do not pass their dependencies on  *)
(* (deployAzurePowerShellScript).                                          *)
THEOREM DependenciesAlwaysComeFirst == Spec => DependenciesComeFirst
<1> DEFINE First == \A t \in Targets : \A r \in (state'[t] \ state[t]) \ Undelayed :
                        DependenciesOf(r) \cap run[t].asked.infra \subseteq state[t]
<1>1. ASSUME StackInv, [Next]_vars PROVE [First]_vars
  <2> SUFFICES ASSUME NEW t \in Targets, NEW r \in (state'[t] \ state[t]) \ Undelayed
               PROVE  DependenciesOf(r) \cap run[t].asked.infra \subseteq state[t]
    OBVIOUS
  <2>1. StacksOK
    BY <1>1, RunTypes
  <2>2. ASSUME NEW u \in Targets, NEW q \in Resources, ApplyChange(u, q)
        PROVE  DependenciesOf(r) \cap run[t].asked.infra \subseteq state[t]
    <3>1. u = t /\ q = r
      BY <2>1, <2>2 DEF ApplyChange, StacksOK
    <3>2. Applicable(run[t], r)
      BY <2>2, <3>1 DEF ApplyChange
    <3>3. /\ r \in DOMAIN run[t].goals /\ run[t].goals[r] \subseteq run[t].applied
          /\ ProgramInv(run[t]) /\ AppliedInv(run[t], state[t], kept[t], tags[t], cloud[t])
      BY <1>1, <3>2, ApplicableFacts
    <3>4. DependenciesOf(r) \cap run[t].asked.infra \subseteq run[t].goals[r]
      BY <3>3 DEF ProgramInv, Registrations
    <3>5. run[t].applied \subseteq state[t]
      BY <3>3 DEF TagsMatch, AppliedInv
    <3> QED BY <3>3, <3>4, <3>5
  <2>3. ASSUME NEW u \in Targets,
               \/ Start(u) \/ Check(u) \/ Load(u) \/ Visit(u) \/ Registered(u) \/ Register(u)
               \/ Updated(u) \/ Select(u) \/ Remove(u) \/ Finish(u) \/ Fail(u)
        PROVE  FALSE
    BY <2>3 DEF Start, Check, Load, Visit, Registered, Register, Updated, Select, Remove,
                Finish, Fail, stacks
  <2>4. ASSUME NEW u \in Targets, NEW q \in Resources,
               \/ ApplySame(u, q) \/ ApplyFails(u, q) \/ DeleteFails(u, q)
               \/ DeleteByHand(u, q) \/ \E m \in Manifests : Ask(u, m)
        PROVE  FALSE
    BY <2>4 DEF ApplySame, ApplyFails, DeleteFails, DeleteByHand, Ask, stacks
  <2>5. ASSUME NEW u \in Targets, NEW q \in Resources, Delete(u, q) \/ Replace(u, q)
        PROVE  FALSE
    BY <2>1, <2>5 DEF Delete, Replace, StacksOK
  <2>6. ASSUME NEW u \in Targets, Refresh(u) \/ LoseState(u) PROVE FALSE
    <3>1. CASE Refresh(u)
      BY <2>1, <3>1 DEF Refresh, StacksOK
    <3>2. CASE LoseState(u)
      <4>1. state' = [state EXCEPT ![u] = {}]
        BY <3>2 DEF LoseState
      <4> QED BY <2>1, <4>1 DEF StacksOK
    <3> QED BY <2>6, <3>1, <3>2
  <2>7. ASSUME NEW u \in Targets, NEW m \in Manifests, Ask(u, m) PROVE FALSE
    BY <2>7 DEF Ask, stacks
  <2>8. ASSUME Outage \/ UNCHANGED vars PROVE FALSE
    BY <2>8 DEF Outage, stacks, vars
  <2> QED BY <1>1, <2>2, <2>3, <2>4, <2>5, <2>6, <2>7, <2>8 DEF Next, Work, Environment
<1> QED BY <1>1, StackInvariance, PTL DEF Spec, DependenciesComeFirst

\* What makes a resource vanish: users, the deletion of what is not retained, and
\* another tag.
LEMMA Vanishing ==
    ASSUME StackInv, [Next]_vars, NEW t \in Targets, NEW r \in Resources,
           cloud[t][r] # "none", cloud'[t][r] = "none"
    PROVE  \/ spent' # spent \/ (Delete(t, r) /\ r \notin kept[t])
           \/ Retagged(t, r) /\ ~run[t].second
<1>1. StacksOK /\ spent \in [edits : 0 .. MaxEdits, failures : 0 .. MaxFailures,
                             outages : 0 .. MaxOutages]
  BY DEF StackInv, TypeOK
<1>2. ASSUME NEW u \in Targets, NEW q \in Resources, ApplyChange(u, q) PROVE FALSE
  <2>1. cloud' = [cloud EXCEPT ![u][q] = IF q \in run[u].imports THEN @ ELSE "current"]
    BY <1>2 DEF ApplyChange
  <2> QED BY <1>1, <2>1 DEF StacksOK
<1>9. ASSUME NEW u \in Targets, NEW q \in Resources, Replace(u, q)
      PROVE  Retagged(t, r) /\ ~run[t].second
  <2>1. u = t /\ q = r
    BY <1>1, <1>9 DEF Replace, StacksOK
  <2> QED BY <1>9, <2>1, OnlyScriptsAreReplaced
<1>3. ASSUME NEW u \in Targets,
             \/ Start(u) \/ Check(u) \/ Refresh(u) \/ Load(u) \/ Visit(u) \/ Registered(u)
             \/ Register(u) \/ Updated(u) \/ Select(u) \/ Remove(u) \/ Finish(u) \/ Fail(u)
      PROVE  FALSE
  BY <1>3 DEF Start, Check, Refresh, Load, Visit, Registered, Register, Updated, Select,
              Remove, Finish, Fail, stacks
<1>4. ASSUME NEW u \in Targets, NEW q \in Resources,
             ApplySame(u, q) \/ ApplyFails(u, q) \/ DeleteFails(u, q)
      PROVE  FALSE
  BY <1>4 DEF ApplySame, ApplyFails, DeleteFails, stacks
<1>5. ASSUME NEW u \in Targets, NEW q \in Resources, Delete(u, q)
      PROVE  Delete(t, r) /\ r \notin kept[t]
  <2>1. u = t /\ q = r
    BY <1>1, <1>5 DEF Delete, StacksOK
  <2>2. CASE r \in kept[t]
    <3>1. cloud' = [cloud EXCEPT ![t][r] =
                       IF @ = "current" THEN Drifted(r) ELSE @]
      BY <1>5, <2>1, <2>2 DEF Delete
    <3> QED BY <1>1, <3>1 DEF StacksOK, Drifted
  <2> QED BY <1>5, <2>1, <2>2
<1>6. ASSUME NEW u \in Targets, LoseState(u) \/ (\E q \in Resources : DeleteByHand(u, q))
      PROVE  spent' # spent
  BY <1>1, <1>6, SettingsAssumption DEF LoseState, DeleteByHand
<1>7. ASSUME NEW u \in Targets, NEW m \in Manifests, Ask(u, m) PROVE FALSE
  BY <1>7 DEF Ask, stacks
<1>8. ASSUME Outage \/ UNCHANGED vars PROVE FALSE
  BY <1>8 DEF Outage, stacks, vars
<1> QED BY <1>2, <1>3, <1>4, <1>5, <1>6, <1>7, <1>8, <1>9 DEF Next, Work, Environment

(* An update deletes nothing among its manifests but scripts with another  *)
(* tag, and these in the first update: an import never replaces what is    *)
(* managed, and everything asked for is registered before Pulumi prunes    *)
(* (README.md:253, loadManagedResources, deployFunc, deployLocalScript).   *)
THEOREM OnlyRetaggedAreEverReplaced == Spec => OnlyRetaggedAreReplaced
<1> DEFINE Stays == \A t \in Targets : \A r \in run[t].asked.infra :
                        cloud[t][r] # "none" /\ cloud'[t][r] = "none" =>
                            spent' # spent \/ (Retagged(t, r) /\ ~run[t].second)
<1>1. ASSUME StackInv, [Next]_vars, NEW t \in Targets, NEW r \in run[t].asked.infra,
             cloud[t][r] # "none", cloud'[t][r] = "none"
      PROVE  spent' # spent \/ (Retagged(t, r) /\ ~run[t].second)
  <2>1. /\ r \in Resources /\ run[t] \in Jobs
        /\ RunInv(run[t], state[t], kept[t], tags[t], cloud[t])
    BY <1>1, RunTypes
  <2>2. CASE Delete(t, r)
    BY <1>1, <2>1, <2>2 DEF Delete, RunInv, ProgramInv, Registrations
  <2> QED BY <1>1, <2>1, <2>2, Vanishing
<1>2. StackInv /\ [Next]_vars => [Stays]_vars
  BY <1>1
<1> QED BY <1>2, StackInvariance, PTL DEF Spec, OnlyRetaggedAreReplaced

(* What was last applied under RetainStatefulResources is never deleted    *)
(* (the option RetainOnDelete).                                            *)
THEOREM StatefulIsAlwaysRetained == Spec => StatefulIsRetained
<1> DEFINE Stays == \A t \in Targets : \A r \in kept[t] :
                        cloud[t][r] # "none" /\ cloud'[t][r] = "none" => spent' # spent
<1>1. ASSUME StackInv, [Next]_vars, NEW t \in Targets, NEW r \in kept[t],
             cloud[t][r] # "none", cloud'[t][r] = "none"
      PROVE  spent' # spent
  <2>1. r \in Resources /\ r \notin Scripts
    BY <1>1, RunTypes, ResourcesAssumption
  <2> QED BY <1>1, <2>1, Vanishing DEF Retagged
<1>2. StackInv /\ [Next]_vars => [Stays]_vars
  BY <1>1
<1> QED BY <1>2, StackInvariance, PTL DEF Spec, StatefulIsRetained
=============================================================================
