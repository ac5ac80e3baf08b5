------------------------- MODULE ConfigurationProofs -------------------------
(***************************************************************************)
(* What the configuration domain controller promises, for all constants.   *)
(***************************************************************************)
EXTENDS ConfigurationTypes, SequenceTheorems

-----------------------------------------------------------------------------
(* Keys are held by one worker *)

HeldOnce ==
    /\ \A w \in Workers : Busy(w) => job[w].key \in queue.processing
    /\ \A v, w \in Workers : Busy(v) /\ Busy(w) /\ job[v].key = job[w].key => v = w

\* Worker w goes on with the key it has.
Continues(w) ==
    /\ Busy(w) /\ Busy(w)' /\ job'[w].key = job[w].key
    /\ \A v \in Workers \ {w} : job'[v] = job[v]
    /\ queue'.processing = queue.processing /\ queue'.dirty = queue.dirty
    /\ queue.delayed \subseteq queue'.delayed

LEMMA LeadsBy ==
    ASSUME ControlOK, NEW w \in Workers, Busy(w), NEW j, j.pc # "idle", j.key = job[w].key,
           job' = [job EXCEPT ![w] = j],
           queue' = queue \/ queue' = AddAfter(queue, job[w].key)
    PROVE  Continues(w) /\ job'[w] = j
<1>1. job \in [Workers -> Jobs] /\ queue \in QueueOver(Domains)
  BY DEF ControlOK
<1>2. /\ queue'.processing = queue.processing /\ queue'.dirty = queue.dirty
      /\ queue.delayed \subseteq queue'.delayed
  BY <1>1 DEF AddAfter, QueueOver
<1> QED BY <1>1, <1>2 DEF Continues, Busy

(* Every step of a worker but the first and the last goes on with its key.  *)
LEMMA WorkerContinues ==
    ASSUME ControlOK, NEW w \in Workers, Work(w) \/ Fail(w), ~Finish(w)
    PROVE  Continues(w)
<1>1. job \in [Workers -> Jobs] /\ job[w] \in Jobs
  BY DEF ControlOK
<1>2. ASSUME NEW pc \in Steps \ {"idle"}, Busy(w), UNCHANGED queue, job' = [job EXCEPT ![w].pc = pc]
      PROVE  Continues(w)
  <2> DEFINE j == [job[w] EXCEPT !.pc = pc]
  <2>1. j.pc = pc /\ pc # "idle" /\ j.key = job[w].key /\ job' = [job EXCEPT ![w] = j]
    BY <1>1, <1>2 DEF Jobs
  <2> HIDE DEF j
  <2> QED BY <1>2, <2>1, LeadsBy
<1>3. ASSUME NEW i \in Jobs, i.key = job[w].key
      PROVE  Cleaned(i).key = job[w].key /\ Cleaned(i).pc \in {"done", "reset"}
  BY <1>3 DEF Cleaned, Jobs
<1>4. CASE ReadDomain(w)
  <2> DEFINE v == Cached(domains[job[w].key])
             target == Cached(platforms[v.spec.platform])
             i == [job[w] EXCEPT !.domain = v, !.target = target, !.fresh = job[w].key \notin behind]
             unwanted == Kinds \ WantedKinds(v, target)
             j == IF unwanted = {} THEN Cleaned(i) ELSE [i EXCEPT !.pc = "cleanup", !.left = unwanted]
  <2>1. Busy(w) /\ UNCHANGED queue
    BY <1>4 DEF ReadDomain, Busy
  <2>2. CASE job' = [job EXCEPT ![w].pc = "done"]
    BY <1>2, <2>1, <2>2 DEF Steps
  <2>3. CASE job' = [job EXCEPT ![w] = j]
    <3>1. i.key = job[w].key /\ Cleaned(i).key = i.key /\ Cleaned(i).pc \in {"done", "reset"}
      BY <1>1 DEF Cleaned, Jobs
    <3>2. j.key = job[w].key /\ j.pc # "idle"
      BY <1>1, <3>1 DEF Jobs
    <3> HIDE DEF j
    <3> QED BY <2>1, <2>3, <3>2, LeadsBy
  <2> QED BY <1>4, <2>2, <2>3 DEF ReadDomain
<1>5. CASE Cleanup(w)
  <2> DEFINE kind == First(job[w].left)
             j == IF job[w].left = {kind} THEN Cleaned(job[w]) ELSE [job[w] EXCEPT !.left = @ \ {kind}]
  <2>1. Busy(w) /\ UNCHANGED queue /\ job' = [job EXCEPT ![w] = j]
    BY <1>5 DEF Cleanup, Busy
  <2>2. j.key = job[w].key /\ j.pc # "idle"
    BY <1>1, <1>3, <1>5 DEF Cleanup, Jobs
  <2> HIDE DEF j
  <2> QED BY <2>1, <2>2, LeadsBy
<1>6. CASE \/ ResetStatus(w) \/ CleanupFails(w) \/ ResetFails(w) \/ SyncFails(w)
           \/ UpdateStatus(w) \/ UpdateFails(w)
  <2>1. /\ Busy(w) /\ UNCHANGED queue
        /\ \E pc \in {"retry", "sync", "fail", "done"} : job' = [job EXCEPT ![w].pc = pc]
    BY <1>1, <1>6 DEF ResetStatus, CleanupFails, ResetFails, SyncFails, UpdateStatus, UpdateFails,
                      AfterUpdate, Busy
  <2> QED BY <1>2, <2>1 DEF Steps
<1>7. CASE Sync(w)
  <2> DEFINE kind == First(job[w].left)
             pc == IF job[w].left = {kind} THEN "succeed" ELSE "sync"
             j == [job[w] EXCEPT !.left = @ \ {kind}, !.pc = pc]
  <2>1. Busy(w)
    BY <1>7 DEF Sync, Busy
  <2>2. CASE Synced(w, kind)
    <3>1. job' = [job EXCEPT ![w] = j] /\ j.key = job[w].key /\ j.pc # "idle"
      BY <1>1, <2>2 DEF Synced, Jobs
    <3>2. queue' = queue \/ queue' = AddAfter(queue, job[w].key)
      BY <2>2 DEF Synced
    <3> HIDE DEF j
    <3> QED BY <2>1, <3>1, <3>2, LeadsBy
  <2>3. CASE job' = [job EXCEPT ![w].pc = "fail"] /\ UNCHANGED queue
    BY <1>2, <2>1, <2>3 DEF Steps
  <2> QED BY <1>7, <2>2, <2>3 DEF Sync
<1> QED BY <1>4, <1>5, <1>6, <1>7 DEF Work, Fail

(* What the steps of a sync do to its job.                                 *)
LEMMA PcEffect ==
    ASSUME ControlOK, NEW w \in Workers, NEW pc, job' = [job EXCEPT ![w].pc = pc]
    PROVE  /\ job'[w].pc = pc /\ job'[w].domain = job[w].domain
           /\ job'[w].target = job[w].target /\ job'[w].left = job[w].left
BY DEF ControlOK, Jobs

\* Where the cleanup leads to.
AfterCleanup(j, v, target) ==
    /\ j.domain = v /\ j.target = target /\ j.left = WantedKinds(v, target)
    /\ j.pc = IF WantedKinds(v, target) = {} THEN "done" ELSE "reset"

LEMMA CleanedEffect ==
    ASSUME NEW j \in Jobs
    PROVE  AfterCleanup(Cleaned(j), j.domain, j.target)
<1> DEFINE kinds == WantedKinds(j.domain, j.target)
           pc == IF kinds = {} THEN "done" ELSE "reset"
<1>1. Cleaned(j) = [j EXCEPT !.left = kinds, !.pc = pc]
  BY DEF Cleaned
<1> HIDE DEF kinds, pc
<1>2. /\ Cleaned(j).domain = j.domain /\ Cleaned(j).target = j.target
      /\ Cleaned(j).left = kinds /\ Cleaned(j).pc = pc
  BY <1>1 DEF Jobs
<1> QED BY <1>2 DEF AfterCleanup, kinds, pc

LEMMA ReadEffect ==
    ASSUME ControlOK, NEW w \in Workers, ReadDomain(w)
    PROVE  LET v == Cached(domains[job[w].key])
               target == Cached(platforms[v.spec.platform])
               unwanted == Kinds \ WantedKinds(v, target)
           IN  /\ UNCHANGED <<outputs, ready, queue>> /\ job[w].pc = "read"
               /\ \/ v = Absent /\ job'[w].pc = "done"
                  \/ v # Absent /\ unwanted = {} /\ AfterCleanup(job'[w], v, target)
                  \/ /\ v # Absent /\ job'[w].pc = "cleanup" /\ job'[w].left = unwanted
                     /\ job'[w].domain = v /\ job'[w].target = target
<1> DEFINE v == Cached(domains[job[w].key])
           target == Cached(platforms[v.spec.platform])
           unwanted == Kinds \ WantedKinds(v, target)
           j == [job[w] EXCEPT !.domain = v, !.target = target, !.fresh = job[w].key \notin behind]
           cleaning == [j EXCEPT !.pc = "cleanup", !.left = unwanted]
<1>1. /\ job[w] \in Jobs /\ w \in DOMAIN job
      /\ UNCHANGED <<outputs, ready, queue>> /\ job[w].pc = "read"
      /\ \/ v = Absent /\ job' = [job EXCEPT ![w].pc = "done"]
         \/ v # Absent /\ job' = [job EXCEPT ![w] = IF unwanted = {} THEN Cleaned(j) ELSE cleaning]
  BY DEF ReadDomain, ControlOK
<1> HIDE DEF v, target, unwanted
<1>2. /\ j.domain = v /\ j.target = target /\ cleaning.pc = "cleanup" /\ cleaning.left = unwanted
      /\ cleaning.domain = v /\ cleaning.target = target
  BY <1>1 DEF Jobs
<1>3. AfterCleanup(Cleaned(j), v, target)
  <2> DEFINE kinds == WantedKinds(v, target)
             pc == IF kinds = {} THEN "done" ELSE "reset"
  <2>1. Cleaned(j) = [j EXCEPT !.left = kinds, !.pc = pc]
    BY <1>2 DEF Cleaned
  <2> HIDE DEF kinds, pc
  <2>2. /\ Cleaned(j).domain = v /\ Cleaned(j).target = target
        /\ Cleaned(j).left = kinds /\ Cleaned(j).pc = pc
    BY <1>1, <2>1 DEF Jobs
  <2> QED BY <2>2 DEF AfterCleanup, kinds, pc
<1> HIDE DEF j, cleaning
<1>4. CASE v = Absent /\ job' = [job EXCEPT ![w].pc = "done"]
  <2>1. job'[w].pc = "done"
    BY <1>4, PcEffect
  <2> QED BY <1>1, <1>4, <2>1 DEF v, target, unwanted
<1>5. CASE v # Absent /\ job' = [job EXCEPT ![w] = IF unwanted = {} THEN Cleaned(j) ELSE cleaning]
  <2>1. job'[w] = IF unwanted = {} THEN Cleaned(j) ELSE cleaning
    BY <1>1, <1>5
  <2> QED BY <1>1, <1>2, <1>3, <1>5, <2>1 DEF v, target, unwanted
<1> QED BY <1>1, <1>4, <1>5

LEMMA CleanupEffect ==
    ASSUME ControlOK, NEW w \in Workers, Cleanup(w)
    PROVE  LET kind == First(job[w].left)
           IN  /\ UNCHANGED <<ready, queue>> /\ job[w].pc = "cleanup"
               /\ kind \in job[w].left /\ WriteOutput(<<kind, job[w].key>>, Absent)
               /\ \/ /\ job[w].left = {kind}
                     /\ AfterCleanup(job'[w], job[w].domain, job[w].target)
                  \/ /\ job'[w].pc = "cleanup" /\ job'[w].left = job[w].left \ {kind}
                     /\ job'[w].domain = job[w].domain /\ job'[w].target = job[w].target
<1> DEFINE kind == First(job[w].left)
           less == [job[w] EXCEPT !.left = @ \ {kind}]
<1>1. /\ job[w] \in Jobs /\ w \in DOMAIN job /\ UNCHANGED <<ready, queue>> /\ job[w].pc = "cleanup"
      /\ WriteOutput(<<kind, job[w].key>>, Absent)
      /\ job' = [job EXCEPT ![w] = IF job[w].left = {kind} THEN Cleaned(job[w]) ELSE less]
  BY DEF Cleanup, ControlOK
<1>2. kind \in job[w].left
  <2>1. job[w].left # {} /\ job[w].left \subseteq Kinds
    BY <1>1 DEF ControlOK, Jobs
  <2> QED BY <2>1, FirstIsOne
<1> HIDE DEF kind
<1>3. /\ less.pc = "cleanup" /\ less.left = job[w].left \ {kind}
      /\ less.domain = job[w].domain /\ less.target = job[w].target
  BY <1>1 DEF Jobs
<1> HIDE DEF less
<1>4. job'[w] = IF job[w].left = {kind} THEN Cleaned(job[w]) ELSE less
  BY <1>1
<1> QED BY <1>1, <1>2, <1>3, <1>4, CleanedEffect DEF kind

LEMMA SyncEffect ==
    ASSUME ControlOK, NEW w \in Workers, Sync(w)
    PROVE  LET j == job[w]
               kind == First(j.left)
               o == <<kind, j.key>>
               stored == Cached(outputs[o])
           IN  /\ UNCHANGED ready /\ j.pc = "sync" /\ kind \in j.left
               /\ job'[w].domain = j.domain /\ job'[w].target = j.target
               /\ \/ job'[w].pc = "fail" /\ UNCHANGED <<outputs, queue>>
                  \/ /\ job'[w].left = j.left \ {kind}
                     /\ job'[w].pc = IF j.left = {kind} THEN "succeed" ELSE "sync"
                     /\ kind = "secret" => j.key \in queue'.delayed
                     /\ \E data \in Wanted(j, kind, CachedSources) :
                           \/ LeftAlone(j, kind, stored, data) /\ UNCHANGED outputs
                           \/ /\ ~LeftAlone(j, kind, stored, data) /\ ~WriteConflicts(o)
                              /\ WriteOutput(o, Built(j, stored, data))
<1> DEFINE j == job[w]
           kind == First(j.left)
           o == <<kind, j.key>>
           stored == Cached(outputs[o])
<1>1. /\ j \in Jobs /\ w \in DOMAIN job /\ UNCHANGED ready /\ j.pc = "sync"
      /\ queue \in QueueOver(Domains)
  BY DEF Sync, ControlOK
<1>2. kind \in j.left
  <2>1. j.left # {} /\ j.left \subseteq Kinds
    BY <1>1 DEF ControlOK, Jobs
  <2> QED BY <2>1, FirstIsOne
<1>3. CASE job' = [job EXCEPT ![w].pc = "fail"] /\ UNCHANGED <<outputs, queue>>
  BY <1>1, <1>2, <1>3, PcEffect
<1>4. ASSUME Synced(w, kind)
      PROVE  /\ job'[w].domain = j.domain /\ job'[w].target = j.target
             /\ job'[w].left = j.left \ {kind}
             /\ job'[w].pc = IF j.left = {kind} THEN "succeed" ELSE "sync"
             /\ kind = "secret" => j.key \in queue'.delayed
  <2> HIDE DEF kind
  <2>1. kind = "secret" => j.key \in queue'.delayed
    BY <1>1, <1>4 DEF Synced, AddAfter, QueueOver
  <2> QED BY <1>1, <1>4, <2>1 DEF Synced, Jobs
<1>5. \/ job' = [job EXCEPT ![w].pc = "fail"] /\ UNCHANGED <<outputs, queue>>
      \/ /\ Synced(w, kind)
         /\ \E data \in Wanted(j, kind, CachedSources) :
               \/ LeftAlone(j, kind, stored, data) /\ UNCHANGED outputs
               \/ /\ ~LeftAlone(j, kind, stored, data) /\ ~WriteConflicts(o)
                  /\ WriteOutput(o, Built(j, stored, data))
  BY DEF Sync
<1> HIDE DEF j, kind, o, stored
<1> QED BY <1>1, <1>2, <1>3, <1>4, <1>5 DEF j, kind, o, stored

(* The steps that are not a worker's add to the queue, or lose everything.  *)
LEMMA OtherQueue ==
    ASSUME ControlOK, Others
    PROVE  \/ /\ UNCHANGED job /\ queue'.processing = queue.processing
              /\ \/ UNCHANGED queue \/ (\E keys : queue' = AddAll(queue, keys))
                 \/ (\E d \in queue.delayed : queue' = BackoffOver(queue, d))
           \/ job' = [w \in Workers |-> Idle] /\ queue' = EmptyQueue /\ Crash
<1>1. queue \in QueueOver(Domains)
  BY DEF ControlOK
<1>2. CASE ~Crash
  <2>1. /\ UNCHANGED job
        /\ \/ UNCHANGED queue \/ (\E keys : queue' = AddAll(queue, keys))
           \/ (\E d \in queue.delayed : queue' = BackoffOver(queue, d))
    BY <1>2 DEF Others, Edit, CreateDomain, EditDomain, DeleteDomain, WriteDomain, EditPlatform,
                EditSource, EditOutput, Observe, ObservePlatform, ObserveDomain, ObserveSource,
                ObserveOutput, Handle, HandleDomain, HandleSource, HandleOutput, Enqueue,
                Restart, Collect, Retry
  <2>2. queue'.processing = queue.processing
    BY <1>1, <2>1 DEF AddAll, BackoffOver, QueueOver
  <2> QED BY <2>1, <2>2
<1>3. CASE Crash
  BY <1>3 DEF Crash
<1> QED BY <1>2, <1>3

(* What the first and the last step of a worker do.                        *)
LEMMA TakeEffect ==
    ASSUME ControlOK, NEW w \in Workers, NEW d \in Ready(queue), Take(w, d)
    PROVE  /\ ~Busy(w) /\ Busy(w)' /\ job'[w].key = d /\ job'[w].pc = "read"
           /\ \A v \in Workers \ {w} : job'[v] = job[v]
           /\ d \in Domains /\ d \notin queue.processing
           /\ queue'.processing = queue.processing \cup {d} /\ queue'.dirty = queue.dirty \ {d}
           /\ queue'.delayed = queue.delayed
BY DEF ControlOK, Take, Get, Ready, QueueOver, Idle, Busy

LEMMA FinishEffect ==
    ASSUME ControlOK, NEW w \in Workers, Finish(w)
    PROVE  /\ job[w].pc \in {"done", "retry"} /\ Busy(w) /\ ~Busy(w)' /\ job'[w].pc = "idle"
           /\ \A v \in Workers \ {w} : job'[v] = job[v]
           /\ queue'.processing = queue.processing \ {job[w].key} /\ queue'.dirty = queue.dirty
           /\ queue.delayed \subseteq queue'.delayed
           /\ job[w].pc = "retry" => job[w].key \in queue'.delayed
BY DEF ControlOK, Finish, Done, AddRateLimited, QueueOver, Idle, Busy

LEMMA HoldStep ==
    ASSUME ControlOK, HeldOnce, [Next]_vars
    PROVE  HeldOnce'
<1>1. CASE Others
  <2>1. CASE UNCHANGED job /\ queue'.processing = queue.processing
    BY <2>1 DEF HeldOnce, Busy
  <2>2. CASE job' = [w \in Workers |-> Idle]
    BY <2>2 DEF HeldOnce, Busy, Idle
  <2> QED BY <1>1, <2>1, <2>2, OtherQueue
<1>2. ASSUME NEW w \in Workers, NEW d \in Ready(queue), Take(w, d) PROVE HeldOnce'
  BY <1>2, TakeEffect DEF HeldOnce, Busy
<1>3. ASSUME NEW w \in Workers, Finish(w) PROVE HeldOnce'
  BY <1>3, FinishEffect DEF HeldOnce, Busy
<1>4. ASSUME NEW w \in Workers, Work(w) \/ Fail(w), ~Finish(w) PROVE HeldOnce'
  <2>1. Continues(w)
    BY <1>4, WorkerContinues
  <2> QED BY <2>1 DEF Continues, HeldOnce, Busy
<1>5. CASE UNCHANGED vars
  BY <1>5 DEF vars, HeldOnce, Busy
<1> QED BY <1>1, <1>2, <1>3, <1>4, <1>5 DEF Next, Others
-----------------------------------------------------------------------------
(* The Ready condition *)

ReadyInv == TypeOK /\ VersionsArePast /\ HeldOnce /\ ReadyIsWithdrawn

(* The condition of a domain is set by its worker, after its outputs.      *)
LEMMA ReadyStep ==
    ASSUME TypeOK, VersionsArePast, HeldOnce, ReadyIsWithdrawn, [Next]_vars
    PROVE  ReadyIsWithdrawn'
<1>1. ControlOK /\ StatusOK /\ job \in [Workers -> Jobs]
      /\ ready \in [Domains -> {"none", "Unknown", "False", "True"}]
  BY DEF TypeOK, ControlOK, StatusOK
<1>2. ASSUME \A v \in Workers : job'[v].pc \in Unready =>
                /\ job[v].pc \in Unready /\ job'[v].key = job[v].key
                /\ ready'[job[v].key] \in {ready[job[v].key], "none", "Unknown", "False"}
      PROVE  ReadyIsWithdrawn'
  BY <1>2 DEF ReadyIsWithdrawn
<1>3. CASE Others
  <2>1. \A d \in Domains : ready'[d] \in {ready[d], "none"}
    <3>1. CASE Edit
      <4>1. \/ UNCHANGED ready
            \/ \E d \in Domains : ready' = [ready EXCEPT ![d] = "none"]
        BY <3>1, EditEffect DEF WritingDomain
      <4> QED BY <1>1, <4>1
    <3>2. CASE ~Edit
      BY <1>3, <3>2 DEF Others, Observe, ObservePlatform, ObserveDomain, ObserveSource, ObserveOutput,
         Handle, HandleDomain, HandleSource, HandleOutput, Crash, Restart, Collect, Retry
    <3> QED BY <3>1, <3>2
  <2>2. UNCHANGED job \/ job' = [w \in Workers |-> Idle]
    BY <1>1, <1>3, OtherQueue
  <2>3. \A v \in Workers : job[v].pc \in Unready => job[v].key \in Domains
    BY <1>1 DEF ControlOK, Unready
  <2> QED BY <1>2, <2>1, <2>2, <2>3 DEF Idle, Unready
<1>4. ASSUME NEW w \in Workers, NEW d \in Ready(queue), Take(w, d) PROVE ReadyIsWithdrawn'
  <2>1. UNCHANGED ready
    BY <1>4 DEF Take
  <2> QED BY <1>1, <1>2, <1>4, <2>1, TakeEffect DEF Unready
<1>5. ASSUME NEW w \in Workers, Finish(w) PROVE ReadyIsWithdrawn'
  <2>1. UNCHANGED ready
    BY <1>5 DEF Finish
  <2> QED BY <1>1, <1>2, <1>5, <2>1, FinishEffect DEF Unready
<1>6. ASSUME NEW w \in Workers, Work(w) \/ Fail(w), ~Finish(w) PROVE ReadyIsWithdrawn'
  <2>1. Continues(w)
    BY <1>1, <1>6, WorkerContinues
  <2>2. \A v \in Workers \ {w} : Busy(v) => job[v].key # job[w].key /\ job'[v] = job[v]
    BY <2>1 DEF HeldOnce, Continues
  <2>3. /\ \A d \in Domains \ {job[w].key} : ready'[d] = ready[d]
        /\ job'[w].pc \in Unready => /\ job[w].pc \in Unready => UNCHANGED ready
                                     /\ job[w].pc \notin Unready => ready'[job[w].key] = "Unknown"
    <3>1. CASE ReadDomain(w) \/ Cleanup(w) \/ CleanupFails(w)
      <4>1. UNCHANGED ready
        BY <3>1 DEF ReadDomain, Cleanup, CleanupFails
      <4>2. job'[w].pc \notin Unready
        <5>1. job'[w].pc \in {"done", "cleanup", "reset", "retry"}
          <6>1. CASE ReadDomain(w)
            BY <1>1, <6>1, ReadEffect DEF AfterCleanup
          <6>2. CASE Cleanup(w)
            BY <1>1, <6>2, CleanupEffect DEF AfterCleanup
          <6>3. CASE CleanupFails(w)
            BY <1>1, <6>3, PcEffect DEF CleanupFails
          <6> QED BY <3>1, <6>1, <6>2, <6>3
        <5> QED BY <5>1 DEF Unready
      <4> QED BY <4>1, <4>2
    <3>2. CASE ResetStatus(w) \/ ResetFails(w)
      <4>1. \/ UNCHANGED ready
            \/ job[w].key \in Domains /\ ready' = [ready EXCEPT ![job[w].key] = "Unknown"]
        BY <1>1, <3>2 DEF ResetStatus, ResetFails, SetReady, ControlOK
      <4>2. \/ job'[w].pc = "retry"
            \/ job'[w].pc = "sync" /\ ready' = [ready EXCEPT ![job[w].key] = "Unknown"]
        BY <1>1, <3>2, PcEffect DEF ResetStatus, ResetFails, SetReady
      <4>3. job[w].pc \notin Unready
        BY <3>2 DEF ResetStatus, ResetFails, Unready
      <4>4. ready' = [ready EXCEPT ![job[w].key] = "Unknown"] => job[w].key \in Domains
        BY <1>1, <3>2 DEF ResetStatus, ResetFails, ControlOK
      <4> QED BY <1>1, <4>1, <4>2, <4>3, <4>4 DEF Unready
    <3>3. CASE Sync(w) \/ SyncFails(w)
      BY <3>3 DEF Sync, SyncFails, Unready
    <3>4. CASE UpdateStatus(w) \/ UpdateFails(w)
      <4>1. job'[w].pc \in {"done", "retry"}
        BY <1>1, <3>4 DEF UpdateStatus, UpdateFails, AfterUpdate, Jobs
      <4>2. \A d \in Domains \ {job[w].key} : ready'[d] = ready[d]
        BY <1>1, <3>4 DEF UpdateStatus, UpdateFails, SetReady
      <4> QED BY <4>1, <4>2 DEF Unready
    <3> QED BY <1>6, <3>1, <3>2, <3>3, <3>4 DEF Work, Fail
  <2>4. \A v \in Workers : job[v].pc # "idle" => job[v].key \in Domains
    BY <1>1 DEF ControlOK
  <2> SUFFICES ASSUME NEW v \in Workers, job'[v].pc \in Unready
               PROVE  ready'[job'[v].key] # "True"
    BY DEF ReadyIsWithdrawn
  <2>5. CASE v = w
    BY <2>1, <2>3, <2>5 DEF Continues, ReadyIsWithdrawn
  <2>6. CASE v # w
    <3>1. job'[v] = job[v] /\ Busy(v) /\ job[v].pc \in Unready
      BY <2>1, <2>6 DEF Continues, Busy, Unready
    <3>2. job[v].key \in Domains \ {job[w].key}
      BY <2>2, <2>4, <2>6, <3>1 DEF Busy
    <3> QED BY <2>3, <3>1, <3>2 DEF ReadyIsWithdrawn
  <2> QED BY <2>5, <2>6
<1>7. CASE UNCHANGED vars
  BY <1>2, <1>7 DEF vars
<1> QED BY <1>3, <1>4, <1>5, <1>6, <1>7 DEF Next, Others

LEMMA ReadyInit == Init => ReadyInv
<1>1. Init => HeldOnce /\ ReadyIsWithdrawn
  BY DEF Init, HeldOnce, Busy, Idle, ReadyIsWithdrawn, Unready
<1> QED BY <1>1, InitTypes DEF ReadyInv

LEMMA ReadyNext == ReadyInv /\ [Next]_vars => ReadyInv'
<1> SUFFICES ASSUME ReadyInv, [Next]_vars PROVE ReadyInv'
  OBVIOUS
<1>1. TypeOK /\ VersionsArePast /\ HeldOnce /\ ReadyIsWithdrawn /\ ControlOK
  BY DEF ReadyInv, TypeOK
<1> QED BY <1>1, NextTypes, PastStep, HoldStep, ReadyStep DEF ReadyInv

(* No domain is Ready while its outputs are being replaced, whatever        *)
(* conflicts, lost answers, edits of the domain and other workers do: the    *)
(* worker withdraws the condition before the first output, and nobody else   *)
(* sets it (syncHandler, resetStatus, updateStatus).                         *)
THEOREM ReadyIsAlwaysWithdrawn == Spec => []ReadyIsWithdrawn
<1>1. ReadyInv => ReadyIsWithdrawn
  BY DEF ReadyInv
<1> QED BY <1>1, ReadyInit, ReadyNext, PTL DEF Spec
-----------------------------------------------------------------------------
(* Platforms that stand still, and domains that are at rest *)

PlatformsStand == \A p \in Platforms : UpToDate(platforms[p])

\* Only a new object has another UID.
UidsStay ==
    \A d \in Domains : LET log == domains[d].log
                       IN  \A i \in 1 .. Len(log) - 1 :
                               log[i] # Absent /\ log[i + 1] # Absent => log[i].uid = log[i + 1].uid

\* The versions of d the handlers have still to see are of one object, with one
\* spec.
SameObject(d) ==
    \A v \in Versions(domains[d]) :
        /\ v # Absent
        /\ v.uid = Live(domains[d]).uid /\ v.spec = Live(domains[d]).spec

Calm(d) == up /\ d \notin queue.dirty \cup queue.delayed /\ SameObject(d)

BaseInv == TypeOK /\ VersionsArePast /\ HeldOnce /\ PlatformsStand /\ UidsStay

\* The object is still there, and asks for the same.
SameAsked(d) ==
    /\ Live(domains[d]) # Absent /\ Live(domains[d]) \in DomainVersions
    /\ Live(domains'[d]) # Absent /\ Live(domains'[d]) \in DomainVersions
    /\ Live(domains'[d]).uid = Live(domains[d]).uid
    /\ Live(domains'[d]).spec = Live(domains[d]).spec
    /\ LiveTarget(Live(domains[d]))' = LiveTarget(Live(domains[d]))
    /\ Asked(d)' = Asked(d)

(* Nobody writes the platforms.                                            *)
LEMMA PlatformsStep ==
    ASSUME ~PlatformsMayChange, ViewsOK, PlatformsStand, [Next]_vars
    PROVE  /\ PlatformsStand'
           /\ \A p \in Platforms : Live(platforms'[p]) = Live(platforms[p])
<1>1. \A p \in Platforms : platforms[p] \in ViewOf(TargetOrNone) /\ WellFormed(platforms[p])
  BY DEF ViewsOK, TargetOrNone
<1>2. \A p \in Platforms : ~CanObserve(platforms[p])
  BY <1>1, EventsToCome DEF PlatformsStand
<1>3. UNCHANGED platforms \/ Crash
  <2>1. CASE Edit \/ Observe
    BY <1>2, <2>1 DEF Edit, CreateDomain, EditDomain, DeleteDomain, WriteDomain, EditPlatform,
       EditSource, EditOutput, apiVars, Observe, ObservePlatform, ObserveDomain, ObserveSource,
       ObserveOutput
  <2>2. CASE Handle \/ Restart \/ (\E o \in Outputs : Collect(o)) \/ (\E d \in queue.delayed : Retry(d))
    BY <2>2 DEF Handle, HandleDomain, HandleSource, HandleOutput, Restart, Collect, Retry, apiVars
  <2>3. ASSUME NEW w \in Workers, Work(w) \/ Fail(w) \/ \E d \in Ready(queue) : Take(w, d)
        PROVE  UNCHANGED platforms
    BY <2>3, WorkerOutputs DEF apiVars
  <2> QED BY <2>1, <2>2, <2>3 DEF Next, vars, apiVars
<1>4. CASE UNCHANGED platforms
  BY <1>4 DEF PlatformsStand
<1>5. CASE Crash
  <2>1. \A p \in Platforms : platforms'[p] = Unwatched(Live(platforms[p]))
    BY <1>5 DEF Crash
  <2>2. \A v : UpToDate(Unwatched(v)) /\ Live(Unwatched(v)) = v
    BY DEF UpToDate, Unwatched, Live
  <2> QED BY <2>1, <2>2 DEF PlatformsStand
<1> QED BY <1>3, <1>4, <1>5

(* What happens to the view of a domain.                                   *)
DomainMoves(d) ==
    \/ domains'[d] = domains[d]
    \/ /\ Edit
       /\ \E v \in DomainOrNone : /\ v # Live(domains[d]) /\ domains'[d] = Write(domains[d], v)
                                  /\ v # Absent /\ Live(domains[d]) # Absent =>
                                        v.uid = Live(domains[d]).uid
    \/ CanObserve(domains[d]) /\ domains'[d] = Observed(domains[d])
    \/ /\ CanNotify(domains[d]) /\ domains'[d] = Notified(domains[d])
       /\ Enqueue(OnDomain(d, OldVersion(domains[d]), NewVersion(domains[d])))
    \/ Crash /\ domains'[d] = Unwatched(Live(domains[d]))
    \/ Restart /\ domains'[d] = Listed(Live(domains[d]))

LEMMA DomainEffect ==
    ASSUME TypeOK, VersionsArePast, [Next]_vars, NEW d \in Domains
    PROVE  DomainMoves(d)
<1>1. domains \in [Domains -> ViewOf(DomainOrNone)]
  BY DEF TypeOK, ViewsOK, DomainOrNone
<1>2. CASE Edit
  <2>1. ASSUME NEW e \in Domains, NEW v \in DomainOrNone, WritingDomain(e, v)
        PROVE  DomainMoves(d)
    <3>1. CASE d = e
      BY <1>1, <1>2, <2>1, <3>1 DEF WritingDomain, DomainMoves
    <3>2. CASE d # e
      BY <1>1, <2>1, <3>2 DEF WritingDomain, DomainMoves
    <3> QED BY <3>1, <3>2
  <2>2. CASE UNCHANGED domains
    BY <2>2 DEF DomainMoves
  <2> QED BY <1>2, <2>1, <2>2, EditEffect
<1>3. CASE Observe
  BY <1>1, <1>3 DEF Observe, ObservePlatform, ObserveDomain, ObserveSource, ObserveOutput, apiVars,
                    DomainMoves
<1>4. CASE Handle
  <2>1. ASSUME NEW e \in Domains, HandleDomain(e) PROVE DomainMoves(d)
    <3>1. CASE d = e
      BY <1>1, <2>1, <3>1 DEF HandleDomain, DomainMoves
    <3>2. CASE d # e
      BY <1>1, <2>1, <3>2 DEF HandleDomain, DomainMoves
    <3> QED BY <3>1, <3>2
  <2> QED BY <1>4, <2>1 DEF Handle, HandleSource, HandleOutput, apiVars, DomainMoves
<1>5. CASE Crash \/ Restart
  BY <1>5 DEF Crash, Restart, DomainMoves
<1>6. CASE (\E o \in Outputs : Collect(o)) \/ (\E e \in queue.delayed : Retry(e))
  BY <1>6 DEF Collect, Retry, apiVars, DomainMoves
<1>7. ASSUME NEW w \in Workers, Work(w) \/ Fail(w) \/ \E e \in Ready(queue) : Take(w, e)
      PROVE  DomainMoves(d)
  BY <1>7, WorkerOutputs DEF TypeOK, apiVars, DomainMoves
<1>8. CASE UNCHANGED vars
  BY <1>8 DEF vars, apiVars, DomainMoves
<1> QED BY <1>2, <1>3, <1>4, <1>5, <1>6, <1>7, <1>8 DEF Next

(* A new object takes the place of none.                                   *)
LEMMA UidsStep ==
    ASSUME TypeOK, VersionsArePast, UidsStay, [Next]_vars
    PROVE  UidsStay'
<1> SUFFICES ASSUME NEW d \in Domains, NEW i \in 1 .. Len(domains'[d].log) - 1,
                    domains'[d].log[i] # Absent, domains'[d].log[i + 1] # Absent
             PROVE  domains'[d].log[i].uid = domains'[d].log[i + 1].uid
  BY DEF UidsStay
<1> DEFINE view == domains[d]
           log == view.log
           n == Len(log)
<1>1. /\ view \in ViewOf(DomainOrNone) /\ WellFormed(view) /\ n \in Nat /\ n >= 1
      /\ Live(view) = log[n] /\ Live(view) \in DomainOrNone
  <2>1. view \in ViewOf(DomainOrNone) /\ WellFormed(view)
    BY DEF TypeOK, ViewsOK, DomainOrNone
  <2> QED BY <2>1, ReadsAreVersions DEF ViewOf, WellFormed, Live
<1>2. \A k \in 1 .. n - 1 : log[k] # Absent /\ log[k + 1] # Absent => log[k].uid = log[k + 1].uid
  BY DEF UidsStay
<1>3. ASSUME NEW v, domains'[d] = Unwatched(v) PROVE FALSE
  <2>1. Len(domains'[d].log) = 1
    BY <1>3 DEF Unwatched
  <2> QED BY <2>1
<1>4. ASSUME NEW v, domains'[d] = Listed(v) PROVE FALSE
  <2>1. CASE v = Absent
    BY <1>3, <1>4, <2>1 DEF Listed
  <2>2. CASE v # Absent
    <3>1. domains'[d].log = <<Absent, v>>
      BY <1>4, <2>2 DEF Listed
    <3>2. Len(domains'[d].log) = 2 /\ domains'[d].log[1] = Absent
      BY <3>1
    <3> QED BY <3>2
  <2> QED BY <2>1, <2>2
<1>5. ASSUME NEW v \in DomainOrNone, domains'[d] = Write(view, v),
             v # Absent /\ Live(view) # Absent => v.uid = Live(view).uid
      PROVE  domains'[d].log[i].uid = domains'[d].log[i + 1].uid
  <2>1. domains'[d] = Written(view, v)
    BY <1>3, <1>5 DEF Write
  <2> DEFINE new == domains'[d].log
  <2>2. Len(new) = n + 1 /\ new[n + 1] = v /\ \A k \in 1 .. n : new[k] = log[k]
    BY <1>1, <2>1, WrittenLog
  <2> HIDE DEF log, view, n, new
  <2>3. i \in 1 .. n
    BY <1>1, <2>2 DEF new
  <2>4. new[i] # Absent /\ new[i + 1] # Absent
    BY DEF new
  <2>5. CASE i = n
    BY <1>1, <1>5, <2>2, <2>3, <2>4, <2>5 DEF new
  <2>6. CASE i # n
    <3>1. i \in 1 .. n - 1 /\ i + 1 \in 1 .. n
      BY <1>1, <2>3, <2>6
    <3> QED BY <1>2, <2>2, <2>3, <2>4, <3>1 DEF new
  <2> QED BY <2>5, <2>6
<1>6. ASSUME CanNotify(view), domains'[d] = Notified(view)
      PROVE  domains'[d].log[i].uid = domains'[d].log[i + 1].uid
  <2> DEFINE new == domains'[d].log
  <2>2. Len(new) = n - 1 /\ \A k \in 1 .. n - 1 : new[k] = log[k + 1]
    BY <1>1, <1>6, NotifiedLog
  <2> HIDE DEF log, view, n, new
  <2>3. i \in 1 .. n - 2
    BY <1>1, <2>2 DEF new
  <2>4. new[i] # Absent /\ new[i + 1] # Absent
    BY DEF new
  <2>5. i \in 1 .. n - 1 /\ i + 1 \in 1 .. n - 1
    BY <1>1, <2>3
  <2> QED BY <1>2, <2>2, <2>4, <2>5 DEF new
<1>7. ASSUME domains'[d].log = log
      PROVE  domains'[d].log[i].uid = domains'[d].log[i + 1].uid
  BY <1>2, <1>7
<1>8. domains'[d] = Observed(view) => domains'[d].log = log
  BY <1>1 DEF Observed, ViewOf
<1>9. DomainMoves(d)
  BY DomainEffect
<1> HIDE DEF log, n
<1> QED BY <1>3, <1>4, <1>5, <1>6, <1>7, <1>8, <1>9 DEF DomainMoves, log

(* What a calm domain was before the step: calm too, or just taken from the *)
(* queue.                                                                  *)
LEMMA QueueBefore ==
    ASSUME ControlOK, [Next]_vars, NEW d \in Domains, up', d \notin queue'.dirty \cup queue'.delayed
    PROVE  \/ d \notin queue.dirty \cup queue.delayed
           \/ d \in Ready(queue) /\ \E w \in Workers : Take(w, d)
<1>1. queue \in QueueOver(Domains)
  BY DEF ControlOK
<1>2. CASE Others
  <2>1. \/ UNCHANGED queue \/ (\E keys : queue' = AddAll(queue, keys))
        \/ (\E e \in queue.delayed : queue' = BackoffOver(queue, e))
        \/ Crash
    BY <1>2, OtherQueue
  <2>2. ~Crash
    BY DEF Crash
  <2> QED BY <1>1, <2>1, <2>2 DEF AddAll, BackoffOver, QueueOver
<1>3. ASSUME NEW w \in Workers, NEW e \in Ready(queue), Take(w, e)
      PROVE  \/ d \notin queue.dirty \cup queue.delayed
             \/ d \in Ready(queue) /\ \E v \in Workers : Take(v, d)
  BY <1>3, TakeEffect
<1>4. ASSUME NEW w \in Workers, Finish(w) PROVE d \notin queue.dirty \cup queue.delayed
  BY <1>4, FinishEffect
<1>5. ASSUME NEW w \in Workers, Work(w) \/ Fail(w), ~Finish(w)
      PROVE  d \notin queue.dirty \cup queue.delayed
  BY <1>5, WorkerContinues DEF Continues
<1>6. CASE UNCHANGED vars
  BY <1>6 DEF vars
<1> QED BY <1>2, <1>3, <1>4, <1>5, <1>6 DEF Next, Others

(* The event that says the domain is new, or has another spec, queues it.  *)
LEMMA SameBefore ==
    ASSUME TypeOK, VersionsArePast, UidsStay, [Next]_vars, NEW d \in Domains,
           up', d \notin queue'.dirty, SameObject(d)'
    PROVE  /\ SameObject(d) /\ up
           /\ Live(domains'[d]).uid = Live(domains[d]).uid
           /\ Live(domains'[d]).spec = Live(domains[d]).spec
<1> DEFINE view == domains[d]
           new == domains'[d]
<1>1. /\ view \in ViewOf(DomainOrNone) /\ WellFormed(view) /\ queue \in QueueOver(Domains)
      /\ Live(view) \in DomainOrNone /\ Live(view) \in Versions(view)
  <2>1. view \in ViewOf(DomainOrNone) /\ WellFormed(view) /\ queue \in QueueOver(Domains)
    BY DEF TypeOK, ViewsOK, ControlOK, DomainOrNone
  <2> QED BY <2>1, ReadsAreVersions
<1>2. \A v \in Versions(new) : v # Absent /\ v.uid = Live(new).uid /\ v.spec = Live(new).spec
  BY DEF SameObject
<1>3. SameObject(d) <=> \A v \in Versions(view) :
                           v # Absent /\ v.uid = Live(view).uid /\ v.spec = Live(view).spec
  BY DEF SameObject
<1> DEFINE Claim == SameObject(d) /\ Live(new).uid = Live(view).uid /\ Live(new).spec = Live(view).spec
<1>4. ASSUME Versions(view) \subseteq Versions(new) PROVE Claim
  BY <1>1, <1>2, <1>3, <1>4
<1>5. ~Crash /\ up
  <2>1. ~Crash
    BY DEF Crash
  <2>2. ~Restart
    <3>1. ASSUME Restart PROVE FALSE
      <4>1. new = Listed(Live(view))
        BY <3>1 DEF Restart
      <4>2. Absent \in Versions(Listed(Live(view)))
        <5>1. CASE Live(view) = Absent
          BY <1>1, <5>1, UnwatchedView DEF Listed
        <5>2. CASE Live(view) # Absent
          <6>1. Listed(Live(view)).log = <<Absent, Live(view)>>
            BY <5>2 DEF Listed
          <6> QED BY <6>1 DEF Versions
        <5> QED BY <5>1, <5>2
      <4> QED BY <1>2, <4>1, <4>2
    <3> QED BY <3>1
  <2>3. UNCHANGED up \/ Restart
    <3>1. CASE Others
      BY <2>1, <3>1 DEF Others, Edit, CreateDomain, EditDomain, DeleteDomain, WriteDomain, EditPlatform,
         EditSource, EditOutput, Observe, ObservePlatform, ObserveDomain, ObserveSource,
         ObserveOutput, Handle, HandleDomain, HandleSource, HandleOutput, Collect, Retry
    <3>2. ASSUME NEW w \in Workers, Work(w) \/ Fail(w) \/ \E e \in Ready(queue) : Take(w, e)
          PROVE  UNCHANGED up
      BY <3>2, WorkerOutputs DEF TypeOK
    <3> QED BY <3>1, <3>2 DEF Next, Others, vars
  <2> QED BY <2>1, <2>2, <2>3
<1>6. ASSUME new = view PROVE Claim
  BY <1>4, <1>6
<1>7. ASSUME NEW v \in DomainOrNone, v # Live(view), new = Write(view, v) PROVE Claim
  <2>1. new = Written(view, v)
    BY <1>5, <1>7 DEF Write
  <2> QED BY <1>1, <1>4, <1>7, <2>1, WrittenView
<1>8. ASSUME CanObserve(view), new = Observed(view) PROVE Claim
  BY <1>1, <1>4, <1>8, ObservedView
<1>9. ASSUME CanNotify(view), new = Notified(view),
             Enqueue(OnDomain(d, OldVersion(view), NewVersion(view)))
      PROVE  Claim
  <2> DEFINE log == view.log
             n == Len(log)
             old == OldVersion(view)
             next == NewVersion(view)
  <2>1. /\ Versions(view) = {old} \cup Versions(new) /\ Live(new) = Live(view)
        /\ n \in Nat /\ n >= 2 /\ old = log[1] /\ next = log[2]
    <3>1. n \in Nat \ {0, 1} /\ old = log[1] /\ next = log[2]
      BY <1>1, <1>9, NotifiedLog
    <3>2. Versions(view) = {old} \cup Versions(Notified(view)) /\ Live(Notified(view)) = Live(view)
      BY <1>1, <1>9, NotifiedView
    <3>3. \A k \in Nat \ {0, 1} : k >= 2
      OBVIOUS
    <3> HIDE DEF n, old, next, log, view
    <3> QED BY <1>9, <3>1, <3>2, <3>3
  <2>2. next \in Versions(new)
    <3>1. Len(new.log) = n - 1 /\ new.log[1] = log[2]
      <4>1. n - 1 >= 1 /\ Len(new.log) = n - 1 /\ \A i \in 1 .. n - 1 : new.log[i] = log[i + 1]
        BY <1>1, <1>9, <2>1, NotifiedLog
      <4> HIDE DEF n, log, new
      <4>2. 1 \in 1 .. n - 1 /\ 1 + 1 = 2
        BY <2>1, <4>1
      <4> QED BY <4>1, <4>2
    <3> HIDE DEF n, log, new, next
    <3>2. 1 \in 1 .. Len(new.log)
      BY <2>1, <3>1
    <3> QED BY <2>1, <3>1, <3>2 DEF Versions
  <2>3. next # Absent /\ next.uid = Live(new).uid /\ next.spec = Live(new).spec
    BY <1>2, <2>2
  <2>4. d \notin OnDomain(d, old, next)
    <3>1. OnDomain(d, old, next) \subseteq {d}
      BY DEF OnDomain
    <3>2. queue'.dirty = queue.dirty \cup OnDomain(d, old, next)
      BY <1>1, <1>9, <3>1 DEF Enqueue, AddAll, QueueOver
    <3> QED BY <3>2
  <2>5. old # Absent /\ old.spec = next.spec
    BY <2>3, <2>4 DEF OnDomain
  <2>6. old.uid = next.uid
    <3>1. \A i \in 1 .. n - 1 : log[i] # Absent /\ log[i + 1] # Absent => log[i].uid = log[i + 1].uid
      BY DEF UidsStay
    <3> HIDE DEF n, log
    <3>2. 1 \in 1 .. n - 1 /\ 1 + 1 = 2
      BY <2>1
    <3> QED BY <2>1, <2>3, <2>5, <3>1, <3>2
  <2> HIDE DEF old, next
  <2>7. \A v \in Versions(view) : v # Absent /\ v.uid = Live(view).uid /\ v.spec = Live(view).spec
    BY <1>2, <2>1, <2>3, <2>5, <2>6
  <2> QED BY <1>3, <2>1, <2>7
<1>10. ~Restart
  BY <1>5 DEF Restart
<1>11. DomainMoves(d)
  BY DomainEffect
<1> HIDE DEF Claim
<1>12. Claim
  BY <1>5, <1>6, <1>7, <1>8, <1>9, <1>10, <1>11 DEF DomainMoves
<1> QED BY <1>5, <1>12 DEF Claim

LEMMA CalmBefore ==
    ASSUME ~PlatformsMayChange, BaseInv, [Next]_vars, NEW d \in Domains, Calm(d)'
    PROVE  /\ SameAsked(d) /\ SameObject(d) /\ up
           /\ Calm(d) \/ (d \in Ready(queue) /\ \E w \in Workers : Take(w, d))
<1>1. /\ TypeOK /\ VersionsArePast /\ UidsStay /\ PlatformsStand /\ ViewsOK /\ ControlOK
      /\ up' /\ d \notin queue'.dirty \cup queue'.delayed /\ SameObject(d)'
  BY DEF BaseInv, TypeOK, Calm
<1>2. /\ SameObject(d) /\ up
      /\ Live(domains'[d]).uid = Live(domains[d]).uid
      /\ Live(domains'[d]).spec = Live(domains[d]).spec
  BY <1>1, SameBefore
<1>3. /\ Live(domains[d]) \in Versions(domains[d]) /\ Live(domains[d]) \in DomainOrNone
      /\ Live(domains'[d]) \in Versions(domains'[d]) /\ Live(domains'[d]) \in DomainOrNone
  <2>1. ViewsOK'
    BY <1>1, NextTypes DEF TypeOK
  <2>2. /\ domains[d] \in ViewOf(DomainOrNone) /\ WellFormed(domains[d])
        /\ domains'[d] \in ViewOf(DomainOrNone) /\ WellFormed(domains'[d])
    BY <1>1, <2>1 DEF ViewsOK, DomainOrNone
  <2> QED BY <2>2, ReadsAreVersions
<1>4. /\ Live(domains[d]) # Absent /\ Live(domains[d]) \in DomainVersions
      /\ Live(domains'[d]) # Absent /\ Live(domains'[d]) \in DomainVersions
  BY <1>1, <1>2, <1>3 DEF SameObject, DomainOrNone
<1>5. LiveTarget(Live(domains[d]))' = LiveTarget(Live(domains[d]))
  <2>1. Live(domains[d]).spec.platform \in Platforms
    BY <1>4 DEF DomainVersions, DomainSpec
  <2> QED BY <1>1, <1>2, <2>1, PlatformsStep DEF LiveTarget
<1>6. Asked(d)' = Asked(d)
  BY <1>2, <1>4, <1>5 DEF Asked, WantedKinds
<1> QED BY <1>1, <1>2, <1>4, <1>5, <1>6, QueueBefore DEF SameAsked, Calm
-----------------------------------------------------------------------------
(* Outputs that are not asked for *)

\* A worker aggregates this output.
Writing(w, o) == job[w].key = o[2] /\ job[w].pc = "sync" /\ o[1] = First(job[w].left)

\* An output stays, goes, keeps its owner, is taken, or is written by a worker.
OutputMoves(o) ==
    LET old == Live(outputs[o])
        new == Live(outputs'[o])
    IN  \/ new = old \/ new = Absent \/ new.owner = Foreign
        \/ old # Absent /\ new.owner = old.owner
        \/ \E w \in Workers : Writing(w, o)

LEMMA OutputEffect ==
    ASSUME TypeOK, VersionsArePast, [Next]_vars, NEW o \in Outputs
    PROVE  OutputMoves(o)
<1>1. ViewsOK /\ ControlOK /\ Live(outputs[o]) \in OutputOrNone
  BY ReadTypes DEF TypeOK
<1>2. ASSUME NEW p \in Outputs, NEW v \in OutputOrNone, WriteOutput(p, v), UNCHANGED apiVars
      PROVE  /\ p = o => Live(outputs'[o]) = v
             /\ p # o => Live(outputs'[o]) = Live(outputs[o])
  <2>1. p = o => Live(outputs'[o]) = v
    BY <1>1, <1>2, WriteOutputView, Zenon
  <2>2. p # o => outputs'[o] = outputs[o]
    BY <1>1, <1>2, WriteOutputView
  <2> QED BY <2>1, <2>2, Zenon
<1>3. CASE UNCHANGED outputs
  BY <1>3, Zenon DEF OutputMoves
<1>4. ASSUME NEW p \in Outputs, NEW v \in Tampered(p), EditOutput(p, v)
      PROVE  OutputMoves(o)
  <2>1. v \in OutputOrNone /\ WriteOutput(p, v) /\ UNCHANGED apiVars
    BY <1>1, <1>4, TamperedTypes DEF EditOutput
  <2>2. CASE p = o
    <3>1. Live(outputs'[o]) = v
      BY <1>2, <2>1, <2>2
    <3>2. \/ v = Absent \/ v.owner = Foreign
          \/ Live(outputs[o]) # Absent /\ v = [Live(outputs[o]) EXCEPT !.data = {}]
      BY <1>4, <2>2 DEF Tampered, ForeignObject
    <3>3. Live(outputs[o]) # Absent => [Live(outputs[o]) EXCEPT !.data = {}].owner = Live(outputs[o]).owner
      BY <1>1 DEF OutputOrNone, OutputVersions
    <3> QED BY <3>1, <3>2, <3>3, Zenon DEF OutputMoves
  <2>3. CASE p # o
    BY <1>2, <2>1, <2>3, Zenon DEF OutputMoves
  <2> QED BY <2>2, <2>3
<1>5. ASSUME NEW p \in Outputs, Collect(p) PROVE OutputMoves(o)
  <2>1. Live(outputs'[o]) \in {Absent, Live(outputs[o])}
    BY <1>2, <1>5 DEF Collect, OutputOrNone
  <2> QED BY <2>1, Zenon DEF OutputMoves
<1>6. CASE Observe \/ Handle \/ Crash \/ Restart
  <2>1. Live(outputs'[o]) = Live(outputs[o])
    BY <1>1, <1>6, LastVersionsStay
  <2> QED BY <2>1, Zenon DEF OutputMoves
<1>7. ASSUME NEW w \in Workers, Work(w) \/ Fail(w) \/ \E e \in Ready(queue) : Take(w, e)
      PROVE  OutputMoves(o)
  <2>1. ASSUME NEW kind, NEW v, Syncing(w, kind, v) \/ Deleting(w, kind, v),
               WriteOutput(<<kind, job[w].key>>, v)
        PROVE  OutputMoves(o)
    <3> DEFINE p == <<kind, job[w].key>>
    <3>1. p \in Outputs /\ v \in OutputOrNone /\ UNCHANGED apiVars
      BY <1>1, <1>7, <2>1, WorkerWrites, WorkerOutputs
    <3>2. CASE p # o
      BY <1>2, <2>1, <3>1, <3>2, Zenon DEF OutputMoves
    <3>3. CASE p = o /\ Deleting(w, kind, v)
      BY <1>2, <2>1, <3>1, <3>3, Zenon DEF OutputMoves, Deleting
    <3>4. CASE p = o /\ Syncing(w, kind, v)
      <4>1. Writing(w, o)
        BY <3>4 DEF Writing, Syncing
      <4> QED BY <4>1 DEF OutputMoves
    <3> QED BY <2>1, <3>2, <3>3, <3>4
  <2> QED BY <1>1, <1>3, <1>7, <2>1, WorkerOutputs
<1>8. CASE Edit
  <2>1. UNCHANGED outputs \/ \E p \in Outputs : \E v \in Tampered(p) : EditOutput(p, v)
    BY <1>8 DEF Edit, CreateDomain, EditDomain, DeleteDomain, WriteDomain, EditPlatform, EditSource
  <2> QED BY <1>3, <1>4, <2>1
<1>9. CASE (\E d \in queue.delayed : Retry(d)) \/ UNCHANGED vars
  <2>1. UNCHANGED outputs
    BY <1>9 DEF Retry, vars
  <2> QED BY <1>3, <2>1
<1> QED BY <1>5, <1>6, <1>7, <1>8, <1>9 DEF Next

\* No output of this kind belongs to the object the domain is now.
Clean(d, kind) ==
    LET output == Live(outputs[<<kind, d>>])
    IN  output = Absent \/ output.owner # Live(domains[d]).uid

Unasked(d) == Kinds \ Asked(d)

AllClean(d) == \A kind \in Unasked(d) : Clean(d, kind)

\* The worker read the object the domain is now.
Matches(j, d) ==
    /\ j.domain # Absent /\ j.domain.uid = Live(domains[d]).uid
    /\ j.domain.spec = Live(domains[d]).spec /\ j.target = LiveTarget(Live(domains[d]))

\* What a worker has done, and has still to do, for a domain that is calm.
JobClaim(j, d) ==
    /\ j.pc \in {"cleanup", "reset", "sync"} => Matches(j, d)
    /\ j.pc = "cleanup" => /\ j.left \subseteq Unasked(d)
                           /\ \A kind \in Unasked(d) \ j.left : Clean(d, kind)
    /\ j.pc \in {"reset", "sync"} => j.left \subseteq Asked(d)
    /\ j.pc \in {"reset", "sync", "succeed", "fail", "done"} => AllClean(d)

CleanInv ==
    \A d \in Domains : Calm(d) =>
        /\ \A w \in Workers : Busy(w) /\ job[w].key = d => JobClaim(job[w], d)
        /\ d \notin queue.processing => AllClean(d)

(* Only a worker at an output the domain asks for makes it the domain's.    *)
LEMMA CleanStays ==
    ASSUME BaseInv, [Next]_vars, NEW d \in Domains, SameAsked(d), NEW kind \in Unasked(d),
           Clean(d, kind),
           \A w \in Workers : Busy(w) /\ job[w].key = d => JobClaim(job[w], d)
    PROVE  Clean(d, kind)'
<1> DEFINE o == <<kind, d>>
           old == Live(outputs[o])
           new == Live(outputs'[o])
           uid == Live(domains[d]).uid
<1>1. /\ TypeOK /\ VersionsArePast /\ o \in Outputs /\ uid # Foreign /\ Live(domains'[d]).uid = uid
      /\ kind \notin Asked(d) /\ ControlOK
  BY ValuesAssumption DEF BaseInv, TypeOK, Unasked, Outputs, SameAsked, DomainVersions
<1>2. \A w \in Workers : ~Writing(w, o)
  <2> SUFFICES ASSUME NEW w \in Workers, Writing(w, o) PROVE FALSE
    OBVIOUS
  <2>1. job[w].key = d /\ job[w].pc = "sync" /\ kind = First(job[w].left)
    BY DEF Writing
  <2>2. job[w].left \subseteq Asked(d) /\ job[w].left # {} /\ job[w].left \subseteq Kinds
    BY <1>1, <2>1 DEF JobClaim, Busy, ControlOK, Jobs
  <2> QED BY <1>1, <2>1, <2>2, FirstIsOne
<1>3. \/ new = old \/ new = Absent \/ new.owner = Foreign
      \/ old # Absent /\ new.owner = old.owner
  BY <1>1, <1>2, OutputEffect DEF OutputMoves
<1>4. old = Absent \/ old.owner # uid
  BY DEF Clean
<1>5. new = Absent \/ new.owner # uid
  <2> HIDE DEF old, new, uid
  <2> QED BY <1>1, <1>3, <1>4
<1> QED BY <1>1, <1>5 DEF Clean

\* What does not change for a domain that is calm.
Steady(d) ==
    /\ SameAsked(d) /\ SameObject(d)
    /\ \A kind \in Unasked(d) : Clean(d, kind) => Clean(d, kind)'

(* What a sync has done for a domain that is calm lasts.                   *)
LEMMA ClaimStays ==
    ASSUME NEW d \in Domains, Steady(d)
    PROVE  /\ Unasked(d)' = Unasked(d) /\ (AllClean(d) => AllClean(d)')
           /\ \A w \in Workers : job'[w] = job[w] /\ JobClaim(job[w], d) => JobClaim(job[w], d)'
<1>1. Unasked(d)' = Unasked(d) /\ Asked(d)' = Asked(d)
  BY DEF Steady, SameAsked, Unasked
<1>2. AllClean(d) => AllClean(d)'
  BY <1>1 DEF Steady, AllClean
<1>3. ASSUME NEW w \in Workers, job'[w] = job[w], Matches(job[w], d) PROVE Matches(job[w], d)'
  BY <1>3 DEF Steady, SameAsked, Matches
<1>4. ASSUME NEW w \in Workers, job'[w] = job[w], JobClaim(job[w], d) PROVE JobClaim(job[w], d)'
  BY <1>1, <1>2, <1>3, <1>4 DEF JobClaim, Steady
<1> QED BY <1>1, <1>2, <1>4

(* What the store has of a domain without changes under way asks for what   *)
(* the API server has.                                                      *)
LEMMA ReadMatches ==
    ASSUME BaseInv, NEW d \in Domains, SameObject(d)
    PROVE  LET v == Cached(domains[d])
               target == Cached(platforms[v.spec.platform])
           IN  /\ v # Absent /\ v.uid = Live(domains[d]).uid /\ v.spec = Live(domains[d]).spec
               /\ target = LiveTarget(Live(domains[d]))
<1> DEFINE v == Cached(domains[d])
<1>1. /\ v \in Versions(domains[d]) /\ Live(domains[d]) \in Versions(domains[d])
      /\ Live(domains[d]) \in DomainOrNone
  BY ReadsAreVersions DEF BaseInv, TypeOK, ViewsOK, DomainOrNone
<1>2. v # Absent /\ v.uid = Live(domains[d]).uid /\ v.spec = Live(domains[d]).spec
  BY <1>1 DEF SameObject
<1>3. Live(domains[d]).spec.platform \in Platforms
  BY <1>1 DEF SameObject, DomainOrNone, DomainVersions, DomainSpec
<1>4. \A p \in Platforms : Cached(platforms[p]) = Live(platforms[p])
  BY ReadsAreVersions DEF BaseInv, TypeOK, ViewsOK, PlatformsStand
<1> QED BY <1>2, <1>3, <1>4 DEF LiveTarget

LEMMA WantedIsAsked ==
    ASSUME NEW d \in Domains, Live(domains[d]) # Absent, NEW v, NEW target, v # Absent,
           v.spec = Live(domains[d]).spec, target = LiveTarget(Live(domains[d]))
    PROVE  WantedKinds(v, target) = Asked(d)
BY DEF Asked, WantedKinds

(* A worker that goes on with a calm domain does what is claimed of it.     *)
LEMMA WorkClaim ==
    ASSUME BaseInv, NEW d \in Domains, Steady(d), NEW w \in Workers, job[w].key = d,
           Work(w) \/ Fail(w), ~Finish(w), JobClaim(job[w], d)
    PROVE  JobClaim(job[w], d)'
<1> DEFINE j == job[w]
           i == job'[w]
<1>1. /\ ControlOK /\ ViewsOK /\ TypeOK /\ PlatformsStand /\ j \in Jobs
      /\ Unasked(d)' = Unasked(d) /\ Asked(d)' = Asked(d) /\ (AllClean(d) => AllClean(d)')
  BY ClaimStays DEF BaseInv, TypeOK, ControlOK, Steady, SameAsked
<1>2. ASSUME i.domain = j.domain, i.target = j.target, Matches(j, d) PROVE Matches(job[w], d)'
  BY <1>2 DEF Steady, SameAsked, Matches
<1>3. ASSUME NEW v, NEW target, v # Absent,
             v.spec = Live(domains[d]).spec, target = LiveTarget(Live(domains[d]))
      PROVE  WantedKinds(v, target) = Asked(d)
  BY <1>3, WantedIsAsked DEF Steady, SameAsked
<1>4. CASE ReadDomain(w)
  <2> DEFINE v == Cached(domains[d])
             target == Cached(platforms[v.spec.platform])
             unwanted == Kinds \ WantedKinds(v, target)
  <2>1. \/ v = Absent /\ i.pc = "done"
        \/ v # Absent /\ unwanted = {} /\ AfterCleanup(i, v, target)
        \/ /\ v # Absent /\ i.pc = "cleanup" /\ i.left = unwanted
           /\ i.domain = v /\ i.target = target
    BY <1>1, <1>4, ReadEffect
  <2>2. v # Absent /\ v.uid = Live(domains[d]).uid /\ v.spec = Live(domains[d]).spec
    BY ReadMatches DEF Steady
  <2>3. target = LiveTarget(Live(domains[d]))
    BY ReadMatches DEF Steady
  <2> HIDE DEF v, target
  <2>4. WantedKinds(v, target) = Asked(d) /\ unwanted = Unasked(d)
    BY <1>3, <2>2, <2>3 DEF Unasked
  <2>5. ASSUME i.domain = v, i.target = target PROVE Matches(job[w], d)'
    BY <2>2, <2>3, <2>5 DEF Steady, SameAsked, Matches
  <2>6. CASE unwanted = {} /\ AfterCleanup(i, v, target)
    <3>1. AllClean(d)'
      BY <1>1, <2>4, <2>6 DEF AllClean
    <3>2. i.left = Asked(d) /\ i.pc \in {"done", "reset"} /\ i.domain = v /\ i.target = target
      BY <2>4, <2>6 DEF AfterCleanup
    <3> HIDE DEF unwanted
    <3> QED BY <1>1, <2>5, <3>1, <3>2 DEF JobClaim
  <2>7. CASE i.pc = "cleanup" /\ i.left = unwanted /\ i.domain = v /\ i.target = target
    <3> HIDE DEF unwanted
    <3> QED BY <1>1, <2>4, <2>5, <2>7 DEF JobClaim
  <2> QED BY <2>1, <2>2, <2>6, <2>7
<1>5. CASE Cleanup(w)
  <2> DEFINE kind == First(j.left)
             o == <<kind, d>>
  <2>1. /\ j.pc = "cleanup" /\ kind \in j.left /\ WriteOutput(o, Absent) /\ UNCHANGED apiVars
        /\ \/ j.left = {kind} /\ AfterCleanup(i, j.domain, j.target)
           \/ /\ i.pc = "cleanup" /\ i.left = j.left \ {kind}
              /\ i.domain = j.domain /\ i.target = j.target
    BY <1>1, <1>5, CleanupEffect DEF Cleanup
  <2>2. /\ Matches(j, d) /\ j.left \subseteq Unasked(d)
        /\ \A k \in Unasked(d) \ j.left : Clean(d, k)'
    BY <2>1 DEF JobClaim, Steady
  <2>3. \A k \in Unasked(d) : k = kind => Clean(d, k)'
    <3>1. o \in Outputs
      BY <2>1, <2>2 DEF Unasked, Outputs
    <3>2. Live(outputs'[o]) = Absent
      BY <1>1, <2>1, <3>1, WriteOutputView, Zenon DEF OutputOrNone
    <3> HIDE DEF kind
    <3> QED BY <3>2 DEF Clean
  <2>4. WantedKinds(j.domain, j.target) = Asked(d)
    BY <1>3, <2>2 DEF Matches
  <2> HIDE DEF kind, o
  <2>5. CASE j.left = {kind} /\ AfterCleanup(i, j.domain, j.target)
    <3>1. AllClean(d)'
      BY <1>1, <2>2, <2>3, <2>5 DEF AllClean
    <3>2. /\ i.left = Asked(d) /\ i.pc \in {"done", "reset"}
          /\ i.domain = j.domain /\ i.target = j.target
      BY <2>4, <2>5 DEF AfterCleanup
    <3> QED BY <1>1, <1>2, <2>2, <3>1, <3>2 DEF JobClaim
  <2>6. CASE /\ i.pc = "cleanup" /\ i.left = j.left \ {kind}
             /\ i.domain = j.domain /\ i.target = j.target
    <3>1. i.left \subseteq Unasked(d) /\ \A k \in Unasked(d) \ i.left : Clean(d, k)'
      BY <2>2, <2>3, <2>6
    <3> QED BY <1>1, <1>2, <2>2, <2>6, <3>1 DEF JobClaim
  <2> QED BY <2>1, <2>5, <2>6
<1>6. CASE ResetStatus(w)
  <2>1. /\ j.pc = "reset" /\ i.pc \in {"retry", "sync"} /\ i.left = j.left
        /\ i.domain = j.domain /\ i.target = j.target
    BY <1>1, <1>6, PcEffect DEF ResetStatus
  <2> QED BY <1>1, <1>2, <2>1 DEF JobClaim
<1>7. CASE CleanupFails(w) \/ ResetFails(w) \/ SyncFails(w) \/ UpdateStatus(w) \/ UpdateFails(w)
  <2>1. \/ i.pc = "retry"
        \/ j.pc \in {"sync", "succeed", "fail"} /\ i.pc \in {"fail", "done"}
    BY <1>1, <1>7, PcEffect DEF CleanupFails, ResetFails, SyncFails, UpdateStatus, UpdateFails,
                                AfterUpdate
  <2> QED BY <1>1, <2>1 DEF JobClaim
<1>8. CASE Sync(w)
  <2>1. /\ j.pc = "sync" /\ i.domain = j.domain /\ i.target = j.target
        /\ i.pc = "fail" \/ (i.pc \in {"succeed", "sync"} /\ i.left \subseteq j.left)
    BY <1>1, <1>8, SyncEffect
  <2> QED BY <1>1, <1>2, <2>1 DEF JobClaim
<1> QED BY <1>4, <1>5, <1>6, <1>7, <1>8 DEF Work, Fail

LEMMA CleanStep ==
    ASSUME ~PlatformsMayChange, BaseInv, CleanInv, [Next]_vars
    PROVE  CleanInv'
<1> SUFFICES ASSUME NEW d \in Domains, Calm(d)'
             PROVE  /\ \A w \in Workers : Busy(w)' /\ job'[w].key = d => JobClaim(job[w], d)'
                    /\ d \notin queue'.processing => AllClean(d)'
  BY DEF CleanInv
<1>1. ControlOK /\ HeldOnce /\ queue \in QueueOver(Domains) /\ up' /\ d \notin queue'.delayed
  BY DEF BaseInv, TypeOK, ControlOK, Calm
<1>2. SameAsked(d) /\ SameObject(d)
  BY CalmBefore
<1>3. ASSUME NEW w \in Workers, Take(w, d), d \in Ready(queue)
      PROVE  /\ \A v \in Workers : Busy(v)' /\ job'[v].key = d => JobClaim(job[v], d)'
             /\ d \notin queue'.processing => AllClean(d)'
  <2>1. /\ job'[w].pc = "read" /\ d \notin queue.processing /\ d \in queue'.processing
        /\ \A v \in Workers \ {w} : job'[v] = job[v]
    BY <1>1, <1>3, TakeEffect
  <2>2. \A v \in Workers \ {w} : ~(Busy(v)' /\ job'[v].key = d)
    BY <1>1, <2>1 DEF HeldOnce, Busy
  <2>3. JobClaim(job[w], d)'
    BY <2>1 DEF JobClaim
  <2> QED BY <2>1, <2>2, <2>3
<1>4. ASSUME Calm(d)
      PROVE  /\ \A w \in Workers : Busy(w)' /\ job'[w].key = d => JobClaim(job[w], d)'
             /\ d \notin queue'.processing => AllClean(d)'
  <2>1. /\ \A w \in Workers : Busy(w) /\ job[w].key = d => JobClaim(job[w], d)
        /\ d \notin queue.processing => AllClean(d)
    BY <1>4 DEF CleanInv
  <2>2. Steady(d)
    BY <1>2, <2>1, CleanStays DEF Steady
  <2>3. /\ AllClean(d) => AllClean(d)'
        /\ \A w \in Workers : job'[w] = job[w] /\ JobClaim(job[w], d) => JobClaim(job[w], d)'
    BY <2>2, ClaimStays
  <2>4. CASE UNCHANGED job /\ queue'.processing = queue.processing
    BY <2>1, <2>3, <2>4 DEF Busy
  <2>5. ASSUME NEW w \in Workers, NEW e \in Ready(queue), Take(w, e), e # d
        PROVE  /\ \A v \in Workers : Busy(v)' /\ job'[v].key = d => JobClaim(job[v], d)'
               /\ d \notin queue'.processing => AllClean(d)'
    <3>1. /\ job'[w].key = e /\ (\A v \in Workers \ {w} : job'[v] = job[v])
          /\ queue'.processing = queue.processing \cup {e}
      BY <1>1, <2>5, TakeEffect
    <3> QED BY <2>1, <2>3, <2>5, <3>1 DEF Busy
  <2>6. ASSUME NEW w \in Workers, Finish(w)
        PROVE  /\ \A v \in Workers : Busy(v)' /\ job'[v].key = d => JobClaim(job[v], d)'
               /\ d \notin queue'.processing => AllClean(d)'
    <3>1. /\ job[w].pc \in {"done", "retry"} /\ Busy(w) /\ ~Busy(w)'
          /\ \A v \in Workers \ {w} : job'[v] = job[v]
          /\ queue'.processing = queue.processing \ {job[w].key}
          /\ job[w].pc = "retry" => job[w].key \in queue'.delayed
      BY <1>1, <2>6, FinishEffect
    <3>2. job[w].key = d => AllClean(d)
      BY <1>1, <2>1, <3>1 DEF JobClaim
    <3> QED BY <2>1, <2>3, <3>1, <3>2 DEF Busy
  <2>7. ASSUME NEW w \in Workers, Work(w) \/ Fail(w), ~Finish(w)
        PROVE  /\ \A v \in Workers : Busy(v)' /\ job'[v].key = d => JobClaim(job[v], d)'
               /\ d \notin queue'.processing => AllClean(d)'
    <3>1. Continues(w)
      BY <1>1, <2>7, WorkerContinues
    <3>2. job[w].key = d => JobClaim(job[w], d)'
      BY <2>1, <2>2, <2>7, <3>1, WorkClaim DEF Continues
    <3> QED BY <2>1, <2>3, <3>1, <3>2 DEF Continues, Busy
  <2>8. CASE Others
    <3>1. ~Crash
      BY <1>1 DEF Crash
    <3>2. UNCHANGED job /\ queue'.processing = queue.processing
      BY <1>1, <2>8, <3>1, OtherQueue
    <3> QED BY <2>4, <3>2
  <2>9. CASE UNCHANGED vars
    BY <2>4, <2>9 DEF vars
  <2>10. d \notin Ready(queue)
    BY <1>4 DEF Calm, Ready
  <2> QED BY <2>5, <2>6, <2>7, <2>8, <2>9, <2>10 DEF Next, Others
<1> QED BY <1>3, <1>4, CalmBefore

LEMMA BaseNext ==
    ASSUME ~PlatformsMayChange, BaseInv, [Next]_vars
    PROVE  BaseInv'
<1>1. /\ TypeOK /\ VersionsArePast /\ HeldOnce /\ PlatformsStand /\ UidsStay
      /\ ViewsOK /\ ControlOK
  BY DEF BaseInv, TypeOK
<1> QED BY <1>1, NextTypes, PastStep, HoldStep, PlatformsStep, UidsStep DEF BaseInv

(* At the first start no domain is calm that has an output.                *)
LEMMA BaseInit == Init => BaseInv /\ CleanInv
<1> SUFFICES ASSUME Init PROVE BaseInv /\ CleanInv
  OBVIOUS
<1>1. TypeOK /\ VersionsArePast
  BY InitTypes
<1>2. HeldOnce
  BY DEF Init, HeldOnce, Busy, Idle
<1>3. PICK api \in InitialApi :
        /\ platforms = [p \in Platforms |-> Unwatched(api.platforms[p])]
        /\ domains = [d \in Domains |-> Listed(FirstVersion(api.domains[d]))]
        /\ outputs = [o \in Outputs |-> Unwatched(Absent)]
  BY DEF Init
<1>4. \A v : UpToDate(Unwatched(v)) /\ Live(Unwatched(v)) = v
  BY DEF UpToDate, Unwatched, Live
<1>5. PlatformsStand
  BY <1>3, <1>4 DEF PlatformsStand
<1>6. UidsStay
  <2> SUFFICES ASSUME NEW d \in Domains, NEW i \in 1 .. Len(domains[d].log) - 1,
                      domains[d].log[i] # Absent
               PROVE  FALSE
    BY DEF UidsStay
  <2>1. PICK v : domains[d] = Listed(v)
    BY <1>3
  <2>2. CASE v = Absent
    <3>1. Len(domains[d].log) = 1
      BY <2>1, <2>2 DEF Listed, Unwatched
    <3> QED BY <3>1
  <2>3. CASE v # Absent
    <3>1. Len(domains[d].log) = 2 /\ domains[d].log[1] = Absent
      BY <2>1, <2>3 DEF Listed
    <3> QED BY <3>1
  <2> QED BY <2>2, <2>3
<1>7. \A d \in Domains : \A kind \in Kinds : Clean(d, kind)
  <2>1. \A o \in Outputs : Live(outputs[o]) = Absent
    BY <1>3, <1>4
  <2> QED BY <2>1 DEF Clean, Outputs
<1>8. CleanInv
  <2>1. \A d \in Domains : AllClean(d)
    BY <1>7 DEF AllClean, Unasked
  <2>2. \A w \in Workers : ~Busy(w)
    BY DEF Init, Busy, Idle
  <2> QED BY <2>1, <2>2 DEF CleanInv
<1> QED BY <1>1, <1>2, <1>5, <1>6, <1>8 DEF BaseInv

(* At rest an output is asked for, somebody else's, or an orphan's.         *)
LEMMA CleanIsCleanedUp == BaseInv /\ CleanInv => SettledIsCleanedUp
<1> SUFFICES ASSUME BaseInv, CleanInv, NEW d \in Domains, Settled(d), NEW kind \in Kinds \ Asked(d),
                    Live(outputs[<<kind, d>>]) # Absent, Live(outputs[<<kind, d>>]).owner # Foreign
             PROVE  FALSE
  BY DEF SettledIsCleanedUp
<1>1. /\ domains[d] \in ViewOf(DomainOrNone) /\ WellFormed(domains[d]) /\ UpToDate(domains[d])
      /\ ~Orphan(<<kind, d>>) /\ up /\ d \notin queue.dirty \cup queue.processing \cup queue.delayed
  BY DEF BaseInv, TypeOK, ViewsOK, DomainOrNone, Settled, Outputs
<1>2. Live(domains[d]) # Absent /\ Live(domains[d]).uid = Live(outputs[<<kind, d>>]).owner
  BY <1>1 DEF Orphan
<1>3. Versions(domains[d]) = {Live(domains[d])}
  BY <1>1 DEF Versions, UpToDate, Live
<1>4. Calm(d)
  BY <1>1, <1>2, <1>3 DEF Calm, SameObject
<1>5. Clean(d, kind)
  BY <1>1, <1>4 DEF CleanInv, AllClean, Unasked
<1> QED BY <1>2, <1>5 DEF Clean

(* While no platform changes, at rest there is no output the domain does not *)
(* ask for, nor one of an earlier domain of its name, whatever conflicts,    *)
(* lost answers, crashes, edits and meddling came before: every change of    *)
(* what the domain asks for queues it, and a sync that ended well deleted    *)
(* what the domain as it is now does not ask for (Cleanup, syncHandler).     *)
THEOREM SettledIsAlwaysCleanedUp ==
    ASSUME ~PlatformsMayChange
    PROVE  Spec => []SettledIsCleanedUp
<1>1. BaseInv /\ CleanInv /\ [Next]_vars => (BaseInv /\ CleanInv)'
  BY BaseNext, CleanStep
<1> QED BY <1>1, BaseInit, CleanIsCleanedUp, PTL DEF Spec
-----------------------------------------------------------------------------
(* Labels *)

(* A name without dots is one part.                                        *)
LEMMA NameParts ==
    ASSUME NEW a \in Seq(STRING), Len(a) = 1
    PROVE  <<Head(a)>> = a /\ Tail(a) = <<>> /\ a # <<>>
<1>1. a # <<>>
  BY EmptySeq
<1>2. Tail(a) = <<>>
  <2>1. Tail(a) \in Seq(STRING) /\ Len(Tail(a)) = 0
    BY <1>1, HeadTailProperties
  <2> QED BY <2>1, EmptySeq
<1>3. <<Head(a)>> = a
  <2>1. Head(a) = a[1] /\ <<a[1]>> \in Seq(STRING) /\ Len(<<a[1]>>) = 1
    BY LenProperties
  <2>2. \A i \in 1 .. 1 : <<a[1]>>[i] = a[i]
    OBVIOUS
  <2> QED BY <2>1, <2>2, SeqEqual
<1> QED BY <1>1, <1>2, <1>3

LEMMA JoinedParts ==
    ASSUME NEW a \in Seq(STRING), NEW b \in Seq(STRING), Len(a) = 1, Len(b) = 1
    PROVE  <<Head(a \o b)>> = a /\ Tail(a \o b) = b /\ a \o b # <<>>
<1> DEFINE ab == a \o b
<1>1. ab \in Seq(STRING) /\ Len(ab) = 2 /\ ab[1] = a[1] /\ ab[2] = b[1]
  BY ConcatProperties
<1> HIDE DEF ab
<1>2. ab # <<>> /\ Head(ab) = a[1]
  BY <1>1, EmptySeq
<1>3. Tail(ab) = b
  <2>1. Tail(ab) \in Seq(STRING) /\ Len(Tail(ab)) = 1 /\ \A i \in 1 .. 1 : Tail(ab)[i] = ab[i + 1]
    BY <1>1, <1>2, HeadTailProperties
  <2>2. \A i \in 1 .. 1 : Tail(ab)[i] = b[i]
    BY <1>1, <2>1
  <2> QED BY <2>1, <2>2, SeqEqual
<1>4. <<a[1]>> = a
  BY NameParts
<1> QED BY <1>2, <1>3, <1>4 DEF ab

(* An event of an object that a sync of the domain reads wakes the domain:  *)
(* the lists of a sync and handleKubeResource agree on the labels.          *)
LEMMA ReadIsWoken ==
    ASSUME NEW d \in Domains, NEW namespace, NEW object, NEW targets, NEW refs,
           d \in DOMAIN refs, refs[d] \in DOMAIN targets,
           Layers(d, refs[d], targets[refs[d]], namespace, object) # {}
    PROVE  d \in Wakes(namespace, object, targets, refs)
<1> DEFINE p == refs[d]
           ns == CutNamespace(object, namespace)
           mine == {e \in DOMAIN refs : refs[e] = object.platform}
<1>1. /\ d = <<d[1], d[2]>> /\ d[1] \in Seq(STRING) /\ Len(d[1]) = 1
      /\ d[2] \in Seq(STRING) /\ Len(d[2]) = 1 /\ d[2] # Global
  BY NamesAssumption
<1>2. PICK i \in 1 .. 4 : InLayer(i, d, p, targets[p], namespace, object)
  BY DEF Layers
<1>3. Labelled(object) /\ object.platform = p /\ d \in mine
  BY <1>2 DEF InLayer
<1>4. /\ <<Head(d[2])>> = d[2] /\ Tail(d[2]) = <<>>
      /\ <<Head(d[2] \o d[1])>> = d[2] /\ Tail(d[2] \o d[1]) = d[1] /\ d[1] # <<>>
  BY <1>1, NameParts, JoinedParts
<1>5. Tail(Global) = <<>> /\ <<Head(Global)>> = Global
  BY DEF Global
<1>6. Wakes(namespace, object, targets, refs)
        = IF ns = targets[p] THEN mine
          ELSE IF CutDomain(object) = Global THEN {e \in mine : e[1] = ns}
          ELSE {<<ns, CutDomain(object)>>}
  BY <1>3 DEF Wakes
<1>7. CASE i = 1
  <2>1. ns = targets[p]
    BY <1>2, <1>5, <1>7 DEF InLayer, CutNamespace
  <2> QED BY <1>3, <1>6, <2>1
<1>8. CASE i = 2
  <2>1. CutDomain(object) = Global /\ ns = d[1]
    BY <1>2, <1>5, <1>8 DEF InLayer, CutNamespace, CutDomain
  <2> QED BY <1>3, <1>6, <2>1
<1>9. CASE i = 3
  <2>1. CutDomain(object) = d[2] /\ ns = d[1]
    BY <1>2, <1>4, <1>9 DEF InLayer, CutNamespace, CutDomain
  <2> QED BY <1>1, <1>3, <1>6, <2>1
<1>10. CASE i = 4
  <2>1. object.domain = d[2] \o d[1]
    <3>1. i # 1 /\ i # 2 /\ i # 3
      BY <1>10
    <3> QED BY <1>2, <1>10, <3>1, Zenon DEF InLayer
  <2>2. CutDomain(object) = d[2] /\ ns = d[1]
    BY <1>4, <2>1 DEF CutNamespace, CutDomain
  <2> QED BY <1>1, <1>3, <1>6, <2>2
<1> QED BY <1>7, <1>8, <1>9, <1>10

\* An edit of a source does not take its label to another namespace.
LabelsKeepNamespaces ==
    \A s \in Sources : \A v, w \in SourceVals[s] :
        Labelled(v) /\ Labelled(w) => CutNamespace(v, s[2]) = CutNamespace(w, s[2])

(* So does the event that takes the label away, or to another name.         *)
LEMMA ChangeIsWoken ==
    ASSUME NEW d \in Domains, NEW namespace, NEW old, NEW new, NEW targets, NEW refs,
           Labelled(old) /\ Labelled(new) => CutNamespace(old, namespace) = CutNamespace(new, namespace),
           d \in Wakes(namespace, old, targets, refs) \cup Wakes(namespace, new, targets, refs)
    PROVE  d \in WakesOnUpdate(namespace, old, new, targets, refs)
<1>1. Wakes(namespace, new, targets, refs) \subseteq WakesOnUpdate(namespace, old, new, targets, refs)
  BY DEF WakesOnUpdate
<1>2. ASSUME d \in Wakes(namespace, old, targets, refs), ~TargetChanged(old, new)
      PROVE  d \in Wakes(namespace, new, targets, refs)
  <2>1. /\ Labelled(old) /\ Labelled(new) /\ old.platform = new.platform
        /\ CutDomain(old) = CutDomain(new) /\ CutNamespace(old, namespace) = CutNamespace(new, namespace)
    BY <1>2 DEF Wakes, TargetChanged
  <2> QED BY <1>2, <2>1 DEF Wakes
<1>3. ASSUME d \in Wakes(namespace, old, targets, refs), TargetChanged(old, new)
      PROVE  d \in WakesOnUpdate(namespace, old, new, targets, refs)
  <2>1. Labelled(old)
    BY <1>3 DEF Wakes
  <2> QED BY <1>3, <2>1 DEF WakesOnUpdate
<1> QED BY <1>1, <1>2, <1>3
-----------------------------------------------------------------------------
(* What a sync reads *)

\* A version of a ConfigMap that a sync of d reads.
Reads(d, platform, target, s, v) ==
    /\ v # Absent /\ s[1] = "configMap" /\ s[3] # d[2]
    /\ Layers(d, platform, target, s[2], v) # {}

\* The last of the lists of a sync that return this version.
LastLayer(d, platform, target, s, v) ==
    CHOOSE i \in Layers(d, platform, target, s[2], v) \cup {0} :
        \A l \in Layers(d, platform, target, s[2], v) : l <= i

LEMMA LastLayerIsLast ==
    ASSUME NEW d, NEW platform, NEW target, NEW s, NEW v
    PROVE  LET layers == Layers(d, platform, target, s[2], v)
               last == LastLayer(d, platform, target, s, v)
           IN  /\ layers = {} => last = 0
               /\ last \in layers \cup {0} /\ \A l \in layers : l <= last
<1> DEFINE layers == Layers(d, platform, target, s[2], v)
           last == LastLayer(d, platform, target, s, v)
<1>1. layers \subseteq 1 .. 4
  BY DEF Layers
<1>2. last = CHOOSE i \in layers \cup {0} : \A l \in layers : l <= i
  BY DEF LastLayer
<1> HIDE DEF layers, last
<1>3. \E i \in layers \cup {0} : \A l \in layers : l <= i
  <2>1. CASE 4 \in layers
    BY <1>1, <2>1
  <2>2. CASE 4 \notin layers /\ 3 \in layers
    BY <1>1, <2>2
  <2>3. CASE 4 \notin layers /\ 3 \notin layers /\ 2 \in layers
    BY <1>1, <2>3
  <2>4. CASE layers \subseteq {1}
    BY <1>1, <2>4
  <2> QED BY <1>1, <2>1, <2>2, <2>3, <2>4
<1>4. last \in layers \cup {0} /\ \A l \in layers : l <= last
  BY <1>2, <1>3
<1> QED BY <1>4 DEF layers, last

(* A sync reads the objects in its lists, each with its last list.          *)
LEMMA ReadObjects ==
    ASSUME NEW d, NEW platform, NEW target, NEW objects
    PROVE  /\ \A s \in DOMAIN objects :
                 Reads(d, platform, target, s, objects[s]) =>
                    <<LastLayer(d, platform, target, s, objects[s]), s>>
                       \in Read(d, "configMap", platform, target, objects)
           /\ \A r \in Read(d, "configMap", platform, target, objects) :
                 /\ r[2] \in DOMAIN objects /\ Reads(d, platform, target, r[2], objects[r[2]])
                 /\ r = <<LastLayer(d, platform, target, r[2], objects[r[2]]), r[2]>>
<1> DEFINE Layer(s) == LastLayer(d, platform, target, s, objects[s])
           Lists(s) == Layers(d, platform, target, s[2], objects[s])
<1>1. Read(d, "configMap", platform, target, objects) =
        {r \in {<<Layer(s), s>> :
                   s \in {t \in Present(objects) : t[1] = "configMap" /\ t[3] # d[2]}} : r[1] # 0}
  BY DEF Read, LayerOf, LastLayer
<1>2. \A s : /\ Layer(s) # 0 <=> Lists(s) # {}
  <2> SUFFICES ASSUME NEW s PROVE Layer(s) # 0 <=> Lists(s) # {}
    OBVIOUS
  <2>1. /\ Lists(s) = {} => Layer(s) = 0
        /\ \A l \in Lists(s) : l <= Layer(s)
    BY LastLayerIsLast
  <2>2. Lists(s) \subseteq 1 .. 4
    BY DEF Layers
  <2> HIDE DEF Layer, Lists
  <2> QED BY <2>1, <2>2
<1>3. \A s : Reads(d, platform, target, s, objects[s]) <=>
                /\ objects[s] # Absent /\ s[1] = "configMap" /\ s[3] # d[2] /\ Layer(s) # 0
  BY <1>2 DEF Reads
<1> HIDE DEF Layer, Lists
<1>4. ASSUME NEW s \in DOMAIN objects, Reads(d, platform, target, s, objects[s])
      PROVE  <<Layer(s), s>> \in Read(d, "configMap", platform, target, objects)
  BY <1>1, <1>3, <1>4 DEF Present
<1>5. ASSUME NEW r \in Read(d, "configMap", platform, target, objects)
      PROVE  /\ r[2] \in DOMAIN objects /\ Reads(d, platform, target, r[2], objects[r[2]])
             /\ r = <<Layer(r[2]), r[2]>>
  BY <1>1, <1>3, <1>5 DEF Present
<1> QED BY <1>4, <1>5 DEF Layer

(* What is aggregated depends on the objects that are read.                 *)
LEMMA AggregatesOfRead ==
    ASSUME NEW d, NEW platform, NEW target, NEW f, NEW g, DOMAIN f = DOMAIN g,
           \A s \in DOMAIN f : \/ f[s] = g[s]
                               \/ /\ ~Reads(d, platform, target, s, f[s])
                                  /\ ~Reads(d, platform, target, s, g[s])
    PROVE  Aggregates(d, "configMap", platform, target, f)
              = Aggregates(d, "configMap", platform, target, g)
<1> DEFINE rf == Read(d, "configMap", platform, target, f)
           rg == Read(d, "configMap", platform, target, g)
<1>1. \A r \in rf : r \in rg /\ f[r[2]] = g[r[2]]
  <2> SUFFICES ASSUME NEW r \in rf PROVE r \in rg /\ f[r[2]] = g[r[2]]
    OBVIOUS
  <2>1. /\ r[2] \in DOMAIN f /\ Reads(d, platform, target, r[2], f[r[2]])
        /\ r = <<LastLayer(d, platform, target, r[2], f[r[2]]), r[2]>>
    BY ReadObjects
  <2>2. f[r[2]] = g[r[2]]
    BY <2>1
  <2>3. <<LastLayer(d, platform, target, r[2], g[r[2]]), r[2]>> \in rg
    BY <2>1, <2>2, ReadObjects
  <2> QED BY <2>1, <2>2, <2>3
<1>2. \A r \in rg : r \in rf
  <2> SUFFICES ASSUME NEW r \in rg PROVE r \in rf
    OBVIOUS
  <2>1. /\ r[2] \in DOMAIN g /\ Reads(d, platform, target, r[2], g[r[2]])
        /\ r = <<LastLayer(d, platform, target, r[2], g[r[2]]), r[2]>>
    BY ReadObjects
  <2>2. f[r[2]] = g[r[2]]
    BY <2>1
  <2>3. <<LastLayer(d, platform, target, r[2], f[r[2]]), r[2]>> \in rf
    BY <2>1, <2>2, ReadObjects
  <2> QED BY <2>1, <2>2, <2>3
<1>3. rf = rg
  BY <1>1, <1>2
<1> HIDE DEF rf, rg
<1>4. ASSUME NEW order PROVE Merged(rf, f, order) = Merged(rf, g, order)
  <2> DEFINE Part(o, r) == {e \in o[r[2]].data :
                               \A t \in rf : Later(t, r, order) =>
                                   \A x \in o[t[2]].data : x[1] # e[1]}
  <2>1. \A r \in rf : Part(f, r) = Part(g, r)
    BY <1>1, <1>3
  <2>2. Merged(rf, f, order) = UNION {Part(f, r) : r \in rf}
        /\ Merged(rf, g, order) = UNION {Part(g, r) : r \in rf}
    BY DEF Merged
  <2> HIDE DEF Part
  <2>3. {Part(f, r) : r \in rf} = {Part(g, r) : r \in rf}
    BY <2>1
  <2> QED BY <2>2, <2>3
<1>5. Aggregates(d, "configMap", platform, target, f) =
         {Merged(rf, f, order) \cup {<<Role, platform>> : x \in {"configMap"} \cap {"spc"}} : order \in Orders}
  BY DEF Aggregates, rf
<1>6. Aggregates(d, "configMap", platform, target, g) =
         {Merged(rf, g, order) \cup {<<Role, platform>> : x \in {"configMap"} \cap {"spc"}} : order \in Orders}
  BY <1>3 DEF Aggregates, rg
<1> DEFINE roles == {<<Role, platform>> : x \in {"configMap"} \cap {"spc"}}
<1> HIDE DEF roles
<1>7. {Merged(rf, f, order) \cup roles : order \in Orders} = {Merged(rf, g, order) \cup roles : order \in Orders}
  BY <1>4
<1> QED BY <1>5, <1>6, <1>7 DEF roles
-----------------------------------------------------------------------------
(* What the labels and the platforms of the objects are *)

\* A domain stays in its platform.
DomainsKeepPlatforms ==
    \A d \in Domains : \A v, w \in DomainVals[d] : v.platform = w.platform

MapOf(d) == <<"configMap", d>>

OwnVersions(d) == {v \in DomainVersions : v.spec \in DomainVals[d]}

\* The output of a domain has its labels.
OwnOutputs(d) ==
    {v \in OutputVersions : v.domain = d[2] /\ \E spec \in DomainVals[d] : v.platform = spec.platform}

LabelsInv ==
    /\ \A d \in Domains : domains[d] \in ViewOf(OwnVersions(d) \cup {Absent})
    /\ \A s \in Sources : sources[s] \in ViewOf(SourceVals[s] \cup {Absent})
    /\ \A w \in Workers : job[w].domain # Absent => job[w].domain \in OwnVersions(job[w].key)
    /\ \A d \in Domains : outputs[MapOf(d)] \in ViewOf(OwnOutputs(d) \cup {Absent})

\* What may become of a view: nothing, a write of one of the values, a version
\* in the store, a notification, a crash or a restart.
Moves(view, new, Vals, Handled) ==
    \/ new = view
    \/ \E v \in Vals : v # Live(view) /\ new = Write(view, v)
    \/ CanObserve(view) /\ new = Observed(view)
    \/ CanNotify(view) /\ new = Notified(view) /\ Handled
    \/ (Crash \/ Restart) /\ new \in {Unwatched(Live(view)), Listed(Live(view))}

LEMMA MovesKeep ==
    ASSUME NEW S, Absent \in S, NEW view \in ViewOf(S), WellFormed(view), NEW new, NEW Handled,
           Moves(view, new, S, Handled)
    PROVE  new \in ViewOf(S)
<1>1. Live(view) \in S
  BY ReadsAreVersions
<1>2. \A v \in S : Unwatched(v) \in ViewOf(S) /\ Listed(v) \in ViewOf(S)
  BY UnwatchedView, ListedView
<1> QED BY <1>1, <1>2, WriteView, ObservedView, NotifiedView DEF Moves

DomainHandled(d) == Enqueue(OnDomain(d, OldVersion(domains[d]), NewVersion(domains[d])))
SourceHandled(s) == Enqueue(OnSource(s, OldVersion(sources[s]), NewVersion(sources[s])))
OutputHandled(o) == Enqueue(OnOutput(o, OldVersion(outputs[o]), NewVersion(outputs[o])))

(* Users write the versions they may write.                                *)
LEMMA DomainVersionsMove ==
    ASSUME TypeOK, VersionsArePast, LabelsInv, [Next]_vars, NEW d \in Domains
    PROVE  Moves(domains[d], domains'[d], OwnVersions(d) \cup {Absent}, DomainHandled(d))
<1>1. /\ domains \in [Domains -> ViewOf(DomainOrNone)] /\ ViewsOK /\ StatusOK
      /\ domains[d] \in ViewOf(OwnVersions(d) \cup {Absent}) /\ WellFormed(domains[d])
  BY DEF TypeOK, ViewsOK, DomainOrNone, LabelsInv
<1>2. UNCHANGED domains => domains'[d] = domains[d]
  OBVIOUS
<1>3. ASSUME NEW e \in Domains, NEW v \in OwnVersions(e) \cup {Absent}, v # Live(domains[e]),
             domains' = [domains EXCEPT ![e] = Write(@, v)]
      PROVE  Moves(domains[d], domains'[d], OwnVersions(d) \cup {Absent}, DomainHandled(d))
  <2>1. CASE d = e
    <3>1. domains'[d] = Write(domains[d], v)
      BY <1>1, <1>3, <2>1
    <3> QED BY <1>3, <2>1, <3>1 DEF Moves
  <2>2. CASE d # e
    BY <1>1, <1>3, <2>2 DEF Moves
  <2> QED BY <2>1, <2>2
<1>4. CASE Edit
  <2>1. spent.edits < MaxEdits
    BY <1>4 DEF Edit, CreateDomain, EditDomain, DeleteDomain, WriteDomain, EditPlatform, EditSource, EditOutput
  <2>2. ASSUME NEW e \in Domains, NEW spec \in DomainVals[e], CreateDomain(e, spec)
        PROVE  Moves(domains[d], domains'[d], OwnVersions(d) \cup {Absent}, DomainHandled(d))
    <3> DEFINE v == [rv |-> spent.edits + 1, uid |-> spent.edits + 1, spec |-> spec]
    <3>1. v \in DomainVersions /\ v # Absent /\ v.spec = spec
      BY <1>1, <2>1, EditsAreNew, VersionsAreSpecs
    <3>2. Live(domains[e]) = Absent /\ domains' = [domains EXCEPT ![e] = Write(@, v)]
      BY <2>2 DEF CreateDomain, WriteDomain
    <3> HIDE DEF v
    <3> QED BY <1>3, <3>1, <3>2 DEF OwnVersions
  <2>3. ASSUME NEW e \in Domains, NEW spec \in DomainVals[e], EditDomain(e, spec)
        PROVE  Moves(domains[d], domains'[d], OwnVersions(d) \cup {Absent}, DomainHandled(d))
    <3> DEFINE v == [Live(domains[e]) EXCEPT !.rv = spent.edits + 1, !.spec = spec]
    <3>1. Live(domains[e]) # Absent /\ domains' = [domains EXCEPT ![e] = Write(@, v)]
      BY <2>3 DEF EditDomain, WriteDomain
    <3>2. v \in DomainVersions /\ Live(domains[e]) \in DomainVersions
      BY <1>1, <2>1, <3>1, EditsAreNew
    <3>3. v.rv = spent.edits + 1 /\ v.spec = spec
      BY <3>2 DEF DomainVersions
    <3>4. v # Live(domains[e])
      BY <1>1, <2>1, <3>1, <3>2, <3>3, EditsAreNew
    <3> HIDE DEF v
    <3> QED BY <1>3, <3>1, <3>2, <3>3, <3>4 DEF OwnVersions
  <2>4. ASSUME NEW e \in Domains, DeleteDomain(e)
        PROVE  Moves(domains[d], domains'[d], OwnVersions(d) \cup {Absent}, DomainHandled(d))
    BY <1>3, <2>4 DEF DeleteDomain, WriteDomain
  <2>5. CASE UNCHANGED domains
    BY <2>5 DEF Moves
  <2> QED BY <1>4, <2>2, <2>3, <2>4, <2>5
      DEF Edit, EditPlatform, EditSource, EditOutput, apiVars
<1>5. CASE ~Edit
  <2>1. DomainMoves(d)
    BY DomainEffect
  <2> QED BY <1>5, <2>1 DEF DomainMoves, Moves, DomainHandled
<1> QED BY <1>4, <1>5

SourceMoves(s) ==
    \/ Moves(sources[s], sources'[s], SourceVals[s] \cup {Absent}, SourceHandled(s))
    \/ s[1] = "spc" /\ \E v \in SourceVals[s] \cup {Absent} : sources'[s] = Unwatched(v)

LEMMA SourceEffect ==
    ASSUME TypeOK, [Next]_vars, NEW s \in Sources
    PROVE  SourceMoves(s)
<1>1. sources \in [Sources -> ViewOf(SourceOrNone)] /\ ViewsOK /\ ControlOK
  BY DEF TypeOK, ViewsOK, SourceOrNone
<1>2. CASE Edit
  <2>1. ASSUME NEW t \in Sources, NEW v \in SourceVals[t] \cup {Absent}, EditSource(t, v)
        PROVE  SourceMoves(s)
    <3>1. v # Live(sources[t])
          /\ sources' = [sources EXCEPT ![t] = IF t[1] = "spc" THEN Unwatched(v) ELSE Write(@, v)]
      BY <2>1 DEF EditSource
    <3>2. CASE s = t
      <4>1. sources'[s] = IF s[1] = "spc" THEN Unwatched(v) ELSE Write(sources[s], v)
        BY <1>1, <3>1, <3>2
      <4> QED BY <2>1, <3>1, <3>2, <4>1 DEF SourceMoves, Moves
    <3>3. CASE s # t
      BY <1>1, <3>1, <3>3 DEF SourceMoves, Moves
    <3> QED BY <3>2, <3>3
  <2>2. CASE UNCHANGED sources
    BY <2>2 DEF SourceMoves, Moves
  <2> QED BY <1>2, <2>1, <2>2 DEF Edit, CreateDomain, EditDomain, DeleteDomain, WriteDomain, EditPlatform,
                                  EditOutput, apiVars
<1>3. CASE Observe
  <2>1. ASSUME NEW t \in Sources, ObserveSource(t) PROVE SourceMoves(s)
    <3>1. CASE s = t
      BY <1>1, <2>1, <3>1 DEF ObserveSource, SourceMoves, Moves
    <3>2. CASE s # t
      BY <1>1, <2>1, <3>2 DEF ObserveSource, SourceMoves, Moves
    <3> QED BY <3>1, <3>2
  <2> QED BY <1>3, <2>1 DEF Observe, ObservePlatform, ObserveDomain, ObserveOutput, apiVars,
                            SourceMoves, Moves
<1>4. CASE Handle
  <2>1. ASSUME NEW t \in Sources, HandleSource(t) PROVE SourceMoves(s)
    <3>1. CASE s = t
      BY <1>1, <2>1, <3>1 DEF HandleSource, SourceMoves, Moves, SourceHandled
    <3>2. CASE s # t
      BY <1>1, <2>1, <3>2 DEF HandleSource, SourceMoves, Moves
    <3> QED BY <3>1, <3>2
  <2> QED BY <1>4, <2>1 DEF Handle, HandleDomain, HandleOutput, apiVars, SourceMoves, Moves
<1>5. CASE Crash \/ Restart
  BY <1>5 DEF Crash, Restart, ListedSource, SourceMoves, Moves
<1>6. CASE (\E o \in Outputs : Collect(o)) \/ (\E e \in queue.delayed : Retry(e))
  BY <1>6 DEF Collect, Retry, apiVars, SourceMoves, Moves
<1>7. ASSUME NEW w \in Workers, Work(w) \/ Fail(w) \/ \E e \in Ready(queue) : Take(w, e)
      PROVE  SourceMoves(s)
  BY <1>1, <1>7, WorkerOutputs DEF apiVars, SourceMoves, Moves
<1>8. CASE UNCHANGED vars
  BY <1>8 DEF vars, apiVars, SourceMoves, Moves
<1> QED BY <1>2, <1>3, <1>4, <1>5, <1>6, <1>7, <1>8 DEF Next

(* Outputs have the labels of their domain, unless somebody takes the name. *)
LEMMA MapEffect ==
    ASSUME "take" \notin Tampering, TypeOK, LabelsInv, [Next]_vars, NEW d \in Domains
    PROVE  Moves(outputs[MapOf(d)], outputs'[MapOf(d)], OwnOutputs(d) \cup {Absent},
                 OutputHandled(MapOf(d)))
<1> DEFINE o == MapOf(d)
           Goal == Moves(outputs[o], outputs'[o], OwnOutputs(d) \cup {Absent}, OutputHandled(o))
<1>1. /\ outputs \in [Outputs -> ViewOf(OutputOrNone)] /\ ViewsOK /\ ControlOK /\ o \in Outputs
      /\ outputs[o] \in ViewOf(OwnOutputs(d) \cup {Absent}) /\ WellFormed(outputs[o])
  <2>1. o \in Outputs
    BY KindsAssumption DEF MapOf, Outputs
  <2> QED BY <2>1 DEF TypeOK, ViewsOK, OutputOrNone, LabelsInv
<1>2. /\ Live(outputs[o]) \in OwnOutputs(d) \cup {Absent}
      /\ Cached(outputs[o]) \in OwnOutputs(d) \cup {Absent}
  BY <1>1, ReadsAreVersions
<1>3. CASE UNCHANGED outputs
  BY <1>3 DEF Moves
<1>4. ASSUME NEW p \in Outputs, NEW v, WriteOutput(p, v), p = o => v \in OwnOutputs(d) \cup {Absent}
      PROVE  Goal
  <2>1. CASE v = Live(outputs[p])
    <3>1. UNCHANGED outputs
      BY <1>4, <2>1 DEF WriteOutput
    <3> QED BY <1>3, <3>1
  <2>2. CASE v # Live(outputs[p])
    <3>1. outputs' = [outputs EXCEPT ![p] = Write(@, v)]
      BY <1>4, <2>2 DEF WriteOutput
    <3>2. CASE p = o
      <4>1. outputs'[o] = Write(outputs[o], v)
        BY <1>1, <3>1, <3>2
      <4> QED BY <1>4, <2>2, <3>2, <4>1 DEF Moves
    <3>3. CASE p # o
      <4>1. outputs'[o] = outputs[o]
        BY <1>1, <3>1, <3>3
      <4> QED BY <4>1 DEF Moves
    <3> QED BY <3>2, <3>3
  <2> QED BY <2>1, <2>2
<1>5. CASE Edit
  <2>1. ASSUME NEW p \in Outputs, NEW v \in Tampered(p), EditOutput(p, v)
        PROVE  Goal
    <3>1. WriteOutput(p, v)
      BY <2>1 DEF EditOutput
    <3>2. ASSUME p = o PROVE v \in OwnOutputs(d) \cup {Absent}
      <4>1. v = Absent \/ (Live(outputs[o]) # Absent /\ v = [Live(outputs[o]) EXCEPT !.data = {}])
        BY <2>1, <3>2 DEF Tampered
      <4>2. ASSUME Live(outputs[o]) # Absent
            PROVE  [Live(outputs[o]) EXCEPT !.data = {}] \in OwnOutputs(d)
        <5>1. {} \in OutputData
          BY DEF OutputData
        <5> QED BY <1>2, <4>2, <5>1 DEF OwnOutputs, OutputVersions
      <4> QED BY <4>1, <4>2
    <3> QED BY <1>4, <3>1, <3>2
  <2>2. UNCHANGED outputs \/ \E p \in Outputs : \E v \in Tampered(p) : EditOutput(p, v)
    BY <1>5 DEF Edit, CreateDomain, EditDomain, DeleteDomain, WriteDomain, EditPlatform, EditSource
  <2> QED BY <1>3, <2>1, <2>2
<1>6. ASSUME NEW p \in Outputs, Collect(p) PROVE Goal
  BY <1>4, <1>6 DEF Collect
<1>7. CASE Observe
  <2>1. ASSUME NEW p \in Outputs, ObserveOutput(p) PROVE Goal
    <3>1. CASE p = o
      BY <1>1, <2>1, <3>1 DEF ObserveOutput, Moves
    <3>2. CASE p # o
      BY <1>1, <2>1, <3>2 DEF ObserveOutput, Moves
    <3> QED BY <3>1, <3>2
  <2> QED BY <1>3, <1>7, <2>1 DEF Observe, ObservePlatform, ObserveDomain, ObserveSource
<1>8. CASE Handle
  <2>1. ASSUME NEW p \in Outputs, HandleOutput(p) PROVE Goal
    <3>1. CASE p = o
      BY <1>1, <2>1, <3>1 DEF HandleOutput, OutputHandled, Moves
    <3>2. CASE p # o
      BY <1>1, <2>1, <3>2 DEF HandleOutput, Moves
    <3> QED BY <3>1, <3>2
  <2> QED BY <1>3, <1>8, <2>1 DEF Handle, HandleDomain, HandleSource
<1>9. CASE Crash \/ Restart
  BY <1>1, <1>9 DEF Crash, Restart, Moves
<1>10. ASSUME NEW w \in Workers, Work(w) \/ Fail(w) \/ \E e \in Ready(queue) : Take(w, e)
       PROVE  Goal
  <2>1. ASSUME NEW kind, NEW v, Syncing(w, kind, v) \/ Deleting(w, kind, v),
               WriteOutput(<<kind, job[w].key>>, v)
        PROVE  Goal
    <3> DEFINE p == <<kind, job[w].key>>
               stored == Cached(outputs[p])
    <3>1. p \in Outputs /\ v \in OutputOrNone
      BY <1>1, <2>1, WorkerWrites
    <3>2. ASSUME p = o, Syncing(w, kind, v) PROVE v \in OwnOutputs(d)
      <4>1. job[w].key = d /\ kind = "configMap"
        BY <3>2 DEF MapOf
      <4>2. PICK data \in Wanted(job[w], kind, CachedSources) : v = Built(job[w], stored, data)
        BY <3>2 DEF Syncing
      <4>3. job[w].domain # Absent /\ job[w].domain \in OwnVersions(d)
        BY <1>1, <3>2, <4>1 DEF Syncing, ControlOK, Unready, LabelsInv
      <4>4. v \in OutputVersions
        <5>1. job[w] \in Jobs /\ job[w].key \in Domains /\ job[w].domain.spec.platform \in Platforms
          BY <1>1, <4>1, <4>3 DEF ControlOK, OwnVersions, DomainVersions, DomainSpec
        <5>2. data \in OutputData
          BY <1>1, <4>2, <5>1, ListTypes, AggregateTypes DEF Wanted
        <5>3. stored \in OutputOrNone
          BY <1>1, <3>1, ReadTypes
        <5> QED BY <4>2, <4>3, <5>1, <5>2, <5>3, BuiltTypes
      <4>5. CASE stored # Absent
        <5>1. stored \in OwnOutputs(d)
          BY <1>2, <3>2, <4>5
        <5>2. v = [stored EXCEPT !.data = data]
          BY <4>2, <4>5 DEF Built
        <5> HIDE DEF stored
        <5>3. v.domain = stored.domain /\ v.platform = stored.platform
          BY <5>1, <5>2 DEF OwnOutputs, OutputVersions
        <5> QED BY <4>4, <5>1, <5>3 DEF OwnOutputs
      <4>6. CASE stored = Absent
        <5>1. v.platform = job[w].domain.spec.platform /\ v.domain = d[2]
          BY <4>1, <4>2, <4>6 DEF Built
        <5> QED BY <4>3, <4>4, <5>1 DEF OwnOutputs, OwnVersions
      <4> QED BY <4>5, <4>6
    <3> QED BY <1>4, <2>1, <3>1, <3>2 DEF Deleting
  <2> QED BY <1>1, <1>3, <1>10, <2>1, WorkerOutputs
<1>11. CASE (\E e \in queue.delayed : Retry(e)) \/ UNCHANGED vars
  BY <1>3, <1>11 DEF Retry, vars
<1> QED BY <1>5, <1>6, <1>7, <1>8, <1>9, <1>10, <1>11 DEF Next

(* A worker has the domain it read, or none.                               *)
LEMMA JobDomains ==
    ASSUME ControlOK, [Next]_vars, NEW w \in Workers
    PROVE  \/ job'[w].domain = Absent
           \/ /\ job'[w].key = job[w].key
              /\ \/ job'[w].domain = job[w].domain
                 \/ Busy(w) /\ job'[w].domain = Cached(domains[job[w].key])
<1>1. CASE Others
  BY <1>1, OtherQueue DEF Idle
<1>2. ASSUME NEW v \in Workers, NEW d \in Ready(queue), Take(v, d)
      PROVE  \/ job'[w].domain = Absent
             \/ job'[w].key = job[w].key /\ job'[w].domain = job[w].domain
  BY <1>2 DEF Take, Idle, ControlOK
<1>3. ASSUME NEW v \in Workers, Finish(v)
      PROVE  \/ job'[w].domain = Absent
             \/ job'[w].key = job[w].key /\ job'[w].domain = job[w].domain
  BY <1>3 DEF Finish, Idle, ControlOK
<1>4. ASSUME NEW v \in Workers, Work(v) \/ Fail(v), ~Finish(v)
      PROVE  /\ job'[w].key = job[w].key
             /\ \/ job'[w].domain = job[w].domain
                \/ Busy(w) /\ job'[w].domain = Cached(domains[job[w].key])
  <2>1. Continues(v)
    BY <1>4, WorkerContinues
  <2>2. job'[v].domain \in {job[v].domain, Cached(domains[job[v].key])}
    <3>1. CASE ReadDomain(v)
      <4>1. \/ job' = [job EXCEPT ![v].pc = "done"]
            \/ /\ job'[v].pc # "done"
               /\ job'[v].domain = Cached(domains[job[v].key])
            \/ job'[v].domain = Cached(domains[job[v].key])
        <5>1. \/ Cached(domains[job[v].key]) = Absent
              \/ job'[v].domain = Cached(domains[job[v].key])
          BY <3>1, ReadEffect DEF AfterCleanup
        <5>2. Cached(domains[job[v].key]) = Absent => job' = [job EXCEPT ![v].pc = "done"]
          BY <3>1 DEF ReadDomain
        <5> QED BY <5>1, <5>2
      <4> QED BY <4>1, PcEffect
    <3>2. CASE Cleanup(v)
      BY <3>2, CleanupEffect DEF AfterCleanup
    <3>3. CASE Sync(v)
      BY <3>3, SyncEffect
    <3>4. CASE ResetStatus(v) \/ UpdateStatus(v) \/ CleanupFails(v) \/ ResetFails(v) \/ SyncFails(v) \/ UpdateFails(v)
      BY <3>4, PcEffect DEF ResetStatus, UpdateStatus, CleanupFails, ResetFails, SyncFails,
                            UpdateFails, AfterUpdate
    <3> QED BY <1>4, <3>1, <3>2, <3>3, <3>4 DEF Work, Fail
  <2> QED BY <2>1, <2>2 DEF Continues
<1>5. CASE UNCHANGED vars
  BY <1>5 DEF vars
<1> QED BY <1>1, <1>2, <1>3, <1>4, <1>5 DEF Next, Others

LEMMA LabelsStep ==
    ASSUME "take" \notin Tampering, TypeOK, VersionsArePast, LabelsInv, [Next]_vars
    PROVE  LabelsInv'
<1>1. /\ \A d \in Domains : domains[d] \in ViewOf(OwnVersions(d) \cup {Absent}) /\ WellFormed(domains[d])
      /\ \A s \in Sources : sources[s] \in ViewOf(SourceVals[s] \cup {Absent}) /\ WellFormed(sources[s])
      /\ \A d \in Domains : /\ outputs[MapOf(d)] \in ViewOf(OwnOutputs(d) \cup {Absent})
                            /\ WellFormed(outputs[MapOf(d)])
      /\ ControlOK
  <2>1. \A d \in Domains : MapOf(d) \in Outputs
    BY KindsAssumption DEF MapOf, Outputs
  <2> QED BY <2>1 DEF TypeOK, ViewsOK, LabelsInv
<1>2. \A d \in Domains : domains'[d] \in ViewOf(OwnVersions(d) \cup {Absent})
  BY <1>1, DomainVersionsMove, MovesKeep
<1>3. \A s \in Sources : sources'[s] \in ViewOf(SourceVals[s] \cup {Absent})
  BY <1>1, SourceEffect, MovesKeep, UnwatchedView DEF SourceMoves
<1>4. \A d \in Domains : outputs'[MapOf(d)] \in ViewOf(OwnOutputs(d) \cup {Absent})
  BY <1>1, MapEffect, MovesKeep
<1>5. ASSUME NEW w \in Workers, job'[w].domain # Absent
      PROVE  job'[w].domain \in OwnVersions(job'[w].key)
  <2>1. /\ job'[w].key = job[w].key
        /\ \/ job'[w].domain = job[w].domain
           \/ Busy(w) /\ job'[w].domain = Cached(domains[job[w].key])
    BY <1>1, <1>5, JobDomains
  <2>2. CASE job'[w].domain = job[w].domain
    BY <1>5, <2>1, <2>2 DEF LabelsInv
  <2>3. CASE Busy(w) /\ job'[w].domain = Cached(domains[job[w].key])
    <3>1. job[w].key \in Domains
      BY <1>1, <2>3 DEF Busy, ControlOK
    <3>2. Cached(domains[job[w].key]) \in OwnVersions(job[w].key) \cup {Absent}
      BY <1>1, <3>1, ReadsAreVersions
    <3> QED BY <1>5, <2>1, <2>3, <3>2
  <2> QED BY <2>1, <2>2, <2>3
<1> QED BY <1>2, <1>3, <1>4, <1>5 DEF LabelsInv, OwnVersions, OwnOutputs

LEMMA LabelsInit == Init => LabelsInv
<1> SUFFICES ASSUME Init PROVE LabelsInv
  OBVIOUS
<1>1. PICK api \in InitialApi :
        /\ domains = [d \in Domains |-> Listed(FirstVersion(api.domains[d]))]
        /\ sources = [s \in Sources |-> ListedSource(s, api.sources[s])]
        /\ outputs = [o \in Outputs |-> Unwatched(Absent)]
  BY DEF Init
<1>2. ASSUME NEW d \in Domains PROVE domains[d] \in ViewOf(OwnVersions(d) \cup {Absent})
  <2> DEFINE v == FirstVersion(api.domains[d])
  <2>1. v \in OwnVersions(d) \cup {Absent}
    <3>1. api.domains[d] \in DomainVals[d] \cup {Absent} /\ DomainVals[d] \subseteq DomainSpec
      BY InitialAssumption, VersionsAreSpecs
    <3>2. 0 \in 0 .. MaxEdits
      BY BoundsAssumption
    <3> QED BY <3>1, <3>2 DEF FirstVersion, OwnVersions, DomainVersions
  <2> HIDE DEF v
  <2>2. Listed(v) \in ViewOf(OwnVersions(d) \cup {Absent})
    BY <2>1, ListedView
  <2> QED BY <1>1, <2>2 DEF v
<1>3. ASSUME NEW s \in Sources PROVE sources[s] \in ViewOf(SourceVals[s] \cup {Absent})
  <2>1. api.sources[s] \in SourceVals[s] \cup {Absent}
    BY InitialAssumption
  <2>2. /\ Listed(api.sources[s]) \in ViewOf(SourceVals[s] \cup {Absent})
        /\ Unwatched(api.sources[s]) \in ViewOf(SourceVals[s] \cup {Absent})
    BY <2>1, ListedView, UnwatchedView
  <2> QED BY <1>1, <2>2 DEF ListedSource
<1>4. ASSUME NEW d \in Domains PROVE outputs[MapOf(d)] \in ViewOf(OwnOutputs(d) \cup {Absent})
  <2>1. MapOf(d) \in Outputs
    BY KindsAssumption DEF MapOf, Outputs
  <2>2. Unwatched(Absent) \in ViewOf(OwnOutputs(d) \cup {Absent})
    BY UnwatchedView
  <2> QED BY <1>1, <2>1, <2>2
<1>5. \A w \in Workers : job[w].domain = Absent
  BY DEF Init, Idle
<1> QED BY <1>2, <1>3, <1>4, <1>5 DEF LabelsInv
-----------------------------------------------------------------------------
(* What is aggregated *)

\* None of the changes is under way.
Avoids(view, Changes) ==
    \A i \in 1 .. Len(view.log) - 1 : <<view.log[i], view.log[i + 1]>> \notin Changes

Heard(d, platform, target, s) ==
    {c \in (SourceVals[s] \cup {Absent}) \X (SourceVals[s] \cup {Absent}) :
        Reads(d, platform, target, s, c[1]) \/ Reads(d, platform, target, s, c[2])}

\* No event under way is of an object that d aggregates.
SourceCalm(d, s) ==
    LET v == Live(domains[d])
    IN  Avoids(sources[s], Heard(d, v.spec.platform, LiveTarget(v), s))

\* The output was created since the handlers saw it last, or not touched.
MapCalm(d) == Avoids(outputs[MapOf(d)], OwnOutputs(d) \X (OwnOutputs(d) \cup {Absent}))

Quiet(d) ==
    Calm(d) /\ Asked(d) # {} /\ MapCalm(d) /\ \A s \in Sources : SourceCalm(d, s)

MapDone(d) ==
    LET output == Live(outputs[MapOf(d)])
    IN  /\ output # Absent
        /\ output.owner = Live(domains[d]).uid => output.data \in Aggregated(d, "configMap")

\* A sync that comes this far does not queue the domain for later.
Finished(d) == "secret" \notin Asked(d) /\ ("configMap" \in Asked(d) => MapDone(d))

SyncClaim(j, d) ==
    /\ j.pc \in {"reset", "sync"} => /\ "secret" \in Asked(d) => "secret" \in j.left
                                     /\ "configMap" \in Asked(d) \ j.left => MapDone(d)
    /\ j.pc \in {"succeed", "done"} => Finished(d)

AggregatedInv ==
    \A d \in Domains \ Unselectable : Quiet(d) =>
        /\ \A w \in Workers : Busy(w) /\ job[w].key = d => SyncClaim(job[w], d)
        /\ d \notin queue.processing => Finished(d)

(* A step that leaves none of the changes under way does not make one, and  *)
(* there was one before only if the handler of an event has just seen it.   *)
LEMMA AvoidedBefore ==
    ASSUME NEW S, NEW view \in ViewOf(S), WellFormed(view), NEW new, NEW Handled, NEW Changes,
           Moves(view, new, S, Handled), up, up', Avoids(new, Changes)
    PROVE  /\ \/ Avoids(view, Changes)
              \/ CanNotify(view) /\ Handled /\ <<OldVersion(view), NewVersion(view)>> \in Changes
           /\ Live(new) = Live(view) \/ <<Live(view), Live(new)>> \notin Changes
<1>1. ~Crash /\ ~Restart
  BY DEF Crash, Restart
<1>2. ASSUME NEW v \in S, v # Live(view), new = Write(view, v)
      PROVE  Avoids(view, Changes) /\ <<Live(view), Live(new)>> \notin Changes
  <2> DEFINE n == Len(view.log)
  <2>1. new = Written(view, v)
    BY <1>2 DEF Write
  <2>2. /\ n \in Nat /\ Len(new.log) = n + 1 /\ new.log[n + 1] = v
        /\ \A i \in 1 .. n : new.log[i] = view.log[i]
    BY <1>2, <2>1, WrittenLog
  <2>3. n >= 1
    BY DEF WellFormed
  <2>4. Live(view) = new.log[n] /\ Live(new) = new.log[n + 1]
    BY <2>2, <2>3 DEF Live
  <2> HIDE DEF n
  <2>5. \A i \in 1 .. n : <<new.log[i], new.log[i + 1]>> \notin Changes
    BY <2>2 DEF Avoids
  <2>6. ASSUME NEW i \in 1 .. n - 1 PROVE <<view.log[i], view.log[i + 1]>> \notin Changes
    <3>1. i \in 1 .. n /\ i + 1 \in 1 .. n
      BY <2>2
    <3> QED BY <2>2, <2>5, <3>1
  <2>7. n \in 1 .. n
    BY <2>2, <2>3
  <2> QED BY <2>4, <2>5, <2>6, <2>7 DEF Avoids, n
<1>3. CASE new = view
  BY <1>3
<1>4. CASE new = Observed(view)
  BY <1>4 DEF Observed, Avoids, Live
<1>5. CASE CanNotify(view) /\ new = Notified(view) /\ Handled
  <2>1. Live(new) = Live(view)
    BY <1>5, NotifiedView
  <2>2. ASSUME <<OldVersion(view), NewVersion(view)>> \notin Changes
        PROVE  Avoids(view, Changes)
    <3> DEFINE n == Len(view.log)
    <3>1. /\ n \in Nat \ {0, 1} /\ Len(new.log) = n - 1
          /\ \A i \in 1 .. n - 1 : new.log[i] = view.log[i + 1]
          /\ OldVersion(view) = view.log[1] /\ NewVersion(view) = view.log[2]
      BY <1>5, NotifiedLog
    <3> HIDE DEF n
    <3>2. ASSUME NEW i \in 1 .. n - 1, i # 1
          PROVE  <<view.log[i], view.log[i + 1]>> \notin Changes
      <4>1. i - 1 \in 1 .. Len(new.log) - 1 /\ i \in 1 .. n - 1 /\ i - 1 \in 1 .. n - 1 /\ i - 1 + 1 = i
        BY <3>1, <3>2
      <4>2. new.log[i - 1] = view.log[i] /\ new.log[i] = view.log[i + 1]
        BY <3>1, <4>1
      <4>3. <<new.log[i - 1], new.log[i]>> \notin Changes
        BY <4>1 DEF Avoids
      <4> QED BY <4>2, <4>3
    <3> QED BY <2>2, <3>1, <3>2 DEF Avoids, n
  <2> QED BY <1>5, <2>1, <2>2
<1> QED BY <1>1, <1>2, <1>3, <1>4, <1>5 DEF Moves

(* The handlers find d and its platform in the stores.                      *)
LEMMA HandlersKnow ==
    ASSUME BaseInv, NEW d \in Domains, SameObject(d), Asked(d) # {}
    PROVE  LET v == Live(domains[d])
           IN  /\ d \in DOMAIN Refs /\ Refs[d] = v.spec.platform
               /\ v.spec.platform \in DOMAIN Targets
               /\ Targets[v.spec.platform] = LiveTarget(v)
<1> DEFINE v == Live(domains[d])
<1>1. /\ v \in Versions(domains[d]) /\ v \in DomainOrNone
      /\ Cached(domains[d]) # Absent /\ Cached(domains[d]).spec = v.spec
      /\ Cached(platforms[v.spec.platform]) = LiveTarget(v)
  BY ReadMatches, ReadsAreVersions DEF BaseInv, TypeOK, ViewsOK, DomainOrNone
<1>2. v # Absent /\ v \in DomainVersions /\ v.spec.platform \in Platforms
  BY <1>1 DEF SameObject, DomainOrNone, DomainVersions, DomainSpec
<1>3. d \in DOMAIN Refs /\ Refs[d] = v.spec.platform
  BY <1>1 DEF Refs
<1>4. LiveTarget(v) # Absent
  BY <1>2 DEF Asked, WantedKinds
<1>5. v.spec.platform \in DOMAIN Targets /\ Targets[v.spec.platform] = LiveTarget(v)
  BY <1>1, <1>2, <1>4 DEF Targets
<1> QED BY <1>3, <1>5

(* An event of an object that d aggregates, before or after it, wakes d.    *)
LEMMA EventWakes ==
    ASSUME BaseInv, NEW d \in Domains, SameObject(d), Asked(d) # {}, NEW namespace, NEW old, NEW new,
           old # Absent /\ new # Absent /\ Labelled(old) /\ Labelled(new) =>
               CutNamespace(old, namespace) = CutNamespace(new, namespace),
           LET v == Live(domains[d])
           IN  \E object \in {old, new} \ {Absent} :
                   Layers(d, v.spec.platform, LiveTarget(v), namespace, object) # {}
    PROVE  d \in OnObject(namespace, old, new)
<1> DEFINE v == Live(domains[d])
<1>1. PICK object \in {old, new} \ {Absent} :
        Layers(d, v.spec.platform, LiveTarget(v), namespace, object) # {}
  OBVIOUS
<1>2. /\ d \in DOMAIN Refs /\ Refs[d] = v.spec.platform
      /\ v.spec.platform \in DOMAIN Targets /\ Targets[v.spec.platform] = LiveTarget(v)
  BY HandlersKnow
<1> HIDE DEF v
<1>3. d \in Wakes(namespace, object, Targets, Refs)
  BY <1>1, <1>2, ReadIsWoken
<1>4. CASE old # Absent /\ new # Absent
  <2>1. d \in Wakes(namespace, old, Targets, Refs) \cup Wakes(namespace, new, Targets, Refs)
    BY <1>1, <1>3
  <2>2. d \in WakesOnUpdate(namespace, old, new, Targets, Refs)
    BY <1>4, <2>1, ChangeIsWoken
  <2> QED BY <1>4, <2>2 DEF OnObject
<1>5. CASE old = Absent \/ new = Absent
  BY <1>1, <1>3, <1>5 DEF OnObject
<1> QED BY <1>4, <1>5

LEMMA SourceBefore ==
    ASSUME LabelsKeepNamespaces, BaseInv, LabelsInv, [Next]_vars, NEW d \in Domains, NEW s \in Sources,
           SameAsked(d), SameObject(d), up, up', d \notin queue'.dirty, Asked(d) # {},
           SourceCalm(d, s)'
    PROVE  LET v == Live(domains[d])
               changes == Heard(d, v.spec.platform, LiveTarget(v), s)
           IN  /\ SourceCalm(d, s)
               /\ \/ Live(sources'[s]) = Live(sources[s])
                  \/ <<Live(sources[s]), Live(sources'[s])>> \notin changes
<1> DEFINE v == Live(domains[d])
           changes == Heard(d, v.spec.platform, LiveTarget(v), s)
<1>1. Avoids(sources'[s], changes)
  BY DEF SourceCalm, SameAsked
<1>2. CASE s[1] # "configMap"
  <2>1. changes = {}
    BY <1>2 DEF Heard, Reads
  <2> QED BY <2>1 DEF SourceCalm, Avoids
<1>3. CASE s[1] = "configMap"
  <2> DEFINE S == SourceVals[s] \cup {Absent}
  <2>1. Moves(sources[s], sources'[s], S, SourceHandled(s))
    BY <1>3, SourceEffect DEF SourceMoves, BaseInv
  <2>2. sources[s] \in ViewOf(S) /\ WellFormed(sources[s])
    BY DEF LabelsInv, BaseInv, TypeOK, ViewsOK
  <2> HIDE DEF changes
  <2>3. /\ \/ Avoids(sources[s], changes)
           \/ /\ CanNotify(sources[s]) /\ SourceHandled(s)
              /\ <<OldVersion(sources[s]), NewVersion(sources[s])>> \in changes
        /\ \/ Live(sources'[s]) = Live(sources[s])
           \/ <<Live(sources[s]), Live(sources'[s])>> \notin changes
    BY <1>1, <2>1, <2>2, AvoidedBefore
  <2>4. ASSUME SourceHandled(s), <<OldVersion(sources[s]), NewVersion(sources[s])>> \in changes
        PROVE  FALSE
    <3> DEFINE old == OldVersion(sources[s])
               new == NewVersion(sources[s])
    <3>1. /\ old \in S /\ new \in S
          /\ \/ Reads(d, v.spec.platform, LiveTarget(v), s, old)
             \/ Reads(d, v.spec.platform, LiveTarget(v), s, new)
      BY <2>4 DEF changes, Heard
    <3>2. queue' = AddAll(queue, OnSource(s, old, new) \cap Domains)
      BY <2>4 DEF SourceHandled, Enqueue
    <3> HIDE DEF old, new, v
    <3>3. \E object \in {old, new} \ {Absent} :
              Layers(d, v.spec.platform, LiveTarget(v), s[2], object) # {}
      BY <3>1 DEF Reads
    <3>4. old # Absent /\ new # Absent /\ Labelled(old) /\ Labelled(new) =>
              CutNamespace(old, s[2]) = CutNamespace(new, s[2])
      BY <3>1 DEF LabelsKeepNamespaces
    <3>5. d \in OnObject(s[2], old, new)
      BY <3>3, <3>4, EventWakes DEF v
    <3>6. d \in OnSource(s, old, new)
      BY <1>3, <3>5 DEF OnSource
    <3>7. queue \in QueueOver(Domains)
      BY DEF BaseInv, TypeOK, ControlOK
    <3> QED BY <3>2, <3>6, <3>7 DEF AddAll, QueueOver
  <2> QED BY <2>3, <2>4 DEF SourceCalm, changes
<1> QED BY <1>2, <1>3

LEMMA MapBefore ==
    ASSUME "take" \notin Tampering, DomainsKeepPlatforms, BaseInv, LabelsInv, [Next]_vars,
           NEW d \in Domains, SameAsked(d), SameObject(d), up, up', d \notin queue'.dirty,
           Asked(d) # {}, MapCalm(d)'
    PROVE  /\ MapCalm(d)
           /\ Live(outputs'[MapOf(d)]) = Live(outputs[MapOf(d)]) \/ Live(outputs[MapOf(d)]) = Absent
<1> DEFINE o == MapOf(d)
           v == Live(domains[d])
           S == OwnOutputs(d) \cup {Absent}
           changes == OwnOutputs(d) \X S
<1>1. TypeOK /\ VersionsArePast /\ o \in Outputs /\ d \in Namespaces \X Seq(STRING) /\ d[2] # Global
  BY KindsAssumption, NamesAssumption DEF BaseInv, MapOf, Outputs
<1>2. outputs[o] \in ViewOf(S) /\ WellFormed(outputs[o])
  BY <1>1 DEF LabelsInv, TypeOK, ViewsOK
<1>3. outputs'[o] \in ViewOf(S) /\ WellFormed(outputs'[o])
  BY <1>1, LabelsStep, NextTypes DEF LabelsInv, TypeOK, ViewsOK
<1>4. Moves(outputs[o], outputs'[o], S, OutputHandled(o))
  BY <1>1, MapEffect
<1>5. Live(outputs[o]) \in S /\ Live(outputs'[o]) \in S
  BY <1>2, <1>3, ReadsAreVersions
<1>6. Avoids(outputs'[o], changes)
  BY DEF MapCalm
<1> HIDE DEF changes
<1>7. /\ \/ Avoids(outputs[o], changes)
         \/ /\ CanNotify(outputs[o]) /\ OutputHandled(o)
            /\ <<OldVersion(outputs[o]), NewVersion(outputs[o])>> \in changes
      /\ \/ Live(outputs'[o]) = Live(outputs[o])
         \/ <<Live(outputs[o]), Live(outputs'[o])>> \notin changes
  BY <1>2, <1>4, <1>6, AvoidedBefore
<1>8. ASSUME OutputHandled(o), <<OldVersion(outputs[o]), NewVersion(outputs[o])>> \in changes
      PROVE  FALSE
  <2> DEFINE old == OldVersion(outputs[o])
             new == NewVersion(outputs[o])
  <2>1. old \in OwnOutputs(d) /\ new \in S
    BY <1>8 DEF changes
  <2>2. queue' = AddAll(queue, OnOutput(o, old, new) \cap Domains) /\ queue \in QueueOver(Domains)
    BY <1>1, <1>8 DEF OutputHandled, Enqueue, TypeOK, ControlOK
  <2> HIDE DEF old, new
  <2>3. v \in OwnVersions(d)
    <3>1. domains[d] \in ViewOf(OwnVersions(d) \cup {Absent}) /\ WellFormed(domains[d])
      BY <1>1 DEF LabelsInv, TypeOK, ViewsOK
    <3> QED BY <3>1, ReadsAreVersions DEF SameAsked
  <2>4. old.domain = d[2] /\ old.platform = v.spec.platform /\ old # Absent
    BY <2>1, <2>3, VersionsAreSpecs DEF OwnOutputs, OwnVersions, DomainsKeepPlatforms
  <2>5. /\ d[2] \in Seq(STRING) /\ Len(d[2]) = 1
        /\ \A x \in OwnOutputs(d) : x.domain = d[2]
    BY NamesAssumption, VersionsAreSpecs DEF OwnOutputs
  <2>6. Tail(d[2]) = <<>> /\ d[2] # <<>>
    BY <2>5, NameParts
  <2>7. 3 \in Layers(d, v.spec.platform, LiveTarget(v), d[1], old)
    BY <2>4, <2>6 DEF Layers, InLayer, Labelled
  <2>8. old # Absent /\ new # Absent /\ Labelled(old) /\ Labelled(new) =>
            CutNamespace(old, d[1]) = CutNamespace(new, d[1])
    BY <2>1, <2>5, <2>6 DEF CutNamespace
  <2>9. d \in OnObject(d[1], old, new)
    <3>1. \E object \in {old, new} \ {Absent} :
              Layers(d, v.spec.platform, LiveTarget(v), d[1], object) # {}
      BY <2>4, <2>7
    <3> QED BY <2>8, <3>1, EventWakes
  <2>10. d \in OnOutput(o, old, new)
    BY <2>4, <2>9 DEF OnOutput, OnSource, o, MapOf
  <2> QED BY <2>2, <2>10 DEF AddAll, QueueOver
<1>9. MapCalm(d)
  BY <1>7, <1>8 DEF MapCalm, changes
<1>10. Live(outputs'[o]) = Live(outputs[o]) \/ Live(outputs[o]) = Absent
  BY <1>5, <1>7 DEF changes
<1> QED BY <1>9, <1>10

(* A domain that is quiet after a step was quiet before, or has just been   *)
(* taken; nothing it aggregates changed.                                    *)
LEMMA QuietBefore ==
    ASSUME ~PlatformsMayChange, "take" \notin Tampering, DomainsKeepPlatforms, LabelsKeepNamespaces,
           BaseInv, LabelsInv, [Next]_vars, NEW d \in Domains, Quiet(d)'
    PROVE  /\ SameAsked(d) /\ SameObject(d)
           /\ \A s \in Sources : SourceCalm(d, s)
           /\ Aggregated(d, "configMap")' = Aggregated(d, "configMap")
           /\ \/ Live(outputs'[MapOf(d)]) = Live(outputs[MapOf(d)])
              \/ Live(outputs[MapOf(d)]) = Absent
           /\ MapCalm(d) /\ (Quiet(d) \/ (d \in Ready(queue) /\ \E w \in Workers : Take(w, d)))
<1>1. /\ Calm(d)' /\ Asked(d)' # {} /\ MapCalm(d)' /\ \A s \in Sources : SourceCalm(d, s)'
  BY DEF Quiet
<1>2. up' /\ d \notin queue'.dirty
  BY <1>1 DEF Calm
<1>3. /\ SameAsked(d) /\ SameObject(d) /\ up
      /\ Calm(d) \/ (d \in Ready(queue) /\ \E w \in Workers : Take(w, d))
  BY <1>1, CalmBefore
<1>4. Asked(d) # {}
  BY <1>1, <1>3 DEF SameAsked
<1>5. /\ MapCalm(d)
      /\ Live(outputs'[MapOf(d)]) = Live(outputs[MapOf(d)]) \/ Live(outputs[MapOf(d)]) = Absent
  BY <1>1, <1>2, <1>3, <1>4, MapBefore
<1> DEFINE platform == Live(domains[d]).spec.platform
           target == LiveTarget(Live(domains[d]))
<1>6. ASSUME NEW s \in Sources
      PROVE  /\ SourceCalm(d, s)
             /\ \/ Live(sources'[s]) = Live(sources[s])
                \/ <<Live(sources[s]), Live(sources'[s])>> \notin Heard(d, platform, target, s)
  BY <1>1, <1>2, <1>3, <1>4, SourceBefore
<1>7. \A s \in Sources : /\ Live(sources[s]) \in SourceVals[s] \cup {Absent}
                         /\ Live(sources'[s]) \in SourceVals[s] \cup {Absent}
  <2>1. TypeOK /\ TypeOK' /\ LabelsInv'
    BY LabelsStep, NextTypes DEF BaseInv
  <2> QED BY <2>1, ReadsAreVersions DEF LabelsInv, TypeOK, ViewsOK
<1>8. Aggregated(d, "configMap")' = Aggregated(d, "configMap")
  <2> DEFINE f == LiveSources
             g == LiveSources'
  <2>1. /\ DOMAIN f = Sources /\ DOMAIN g = Sources
        /\ \A s \in Sources : f[s] = Live(sources[s]) /\ g[s] = Live(sources'[s])
    BY DEF LiveSources
  <2>2. Aggregated(d, "configMap") = Aggregates(d, "configMap", platform, target, f)
    BY DEF Aggregated
  <2>3. Aggregated(d, "configMap")' = Aggregates(d, "configMap", platform, target, g)
    BY <1>3 DEF Aggregated, SameAsked
  <2> HIDE DEF f, g, platform, target
  <2>4. ASSUME NEW s \in DOMAIN f
        PROVE  \/ f[s] = g[s]
               \/ ~Reads(d, platform, target, s, f[s]) /\ ~Reads(d, platform, target, s, g[s])
    <3>1. CASE <<Live(sources[s]), Live(sources'[s])>> \notin Heard(d, platform, target, s)
      BY <1>7, <2>1, <3>1 DEF Heard
    <3> QED BY <1>6, <2>1, <3>1
  <2> QED BY <2>1, <2>2, <2>3, <2>4, AggregatesOfRead
<1> QED BY <1>3, <1>4, <1>5, <1>6, <1>8 DEF Quiet

\* A step of which a domain that is quiet afterwards sees nothing but its syncs.
Settling(d) ==
    /\ SameAsked(d) /\ SameObject(d)
    /\ Aggregated(d, "configMap")' = Aggregated(d, "configMap")
    /\ \/ Live(outputs'[MapOf(d)]) = Live(outputs[MapOf(d)])
       \/ Live(outputs[MapOf(d)]) = Absent

LEMMA SyncClaimStays ==
    ASSUME NEW d \in Domains, Settling(d)
    PROVE  /\ MapDone(d) => MapDone(d)'
           /\ Finished(d) => Finished(d)'
           /\ \A w \in Workers : job'[w] = job[w] /\ SyncClaim(job[w], d) => SyncClaim(job[w], d)'
<1>1. MapDone(d) => MapDone(d)'
  BY DEF Settling, SameAsked, MapDone
<1>2. Asked(d)' = Asked(d)
  BY DEF Settling, SameAsked
<1>3. Finished(d) => Finished(d)'
  BY <1>1, <1>2 DEF Finished
<1>4. ASSUME NEW w \in Workers, job'[w] = job[w], SyncClaim(job[w], d) PROVE SyncClaim(job[w], d)'
  BY <1>1, <1>2, <1>3, <1>4 DEF SyncClaim
<1> QED BY <1>1, <1>3, <1>4

(* What the stores have of the objects of a quiet domain aggregates to what *)
(* the API server has.                                                      *)
LEMMA ListsAreLive ==
    ASSUME BaseInv, LabelsInv, NEW d \in Domains, \A s \in Sources : SourceCalm(d, s)
    PROVE  LET v == Live(domains[d])
           IN  Aggregates(d, "configMap", v.spec.platform, LiveTarget(v), CachedSources)
                  = Aggregated(d, "configMap")
<1> DEFINE platform == Live(domains[d]).spec.platform
           target == LiveTarget(Live(domains[d]))
           f == CachedSources
           g == LiveSources
<1>1. /\ DOMAIN f = Sources /\ DOMAIN g = Sources
      /\ \A s \in Sources : f[s] = Cached(sources[s]) /\ g[s] = Live(sources[s])
  BY DEF CachedSources, LiveSources
<1>2. Aggregated(d, "configMap") = Aggregates(d, "configMap", platform, target, g)
  BY DEF Aggregated
<1>3. ASSUME NEW s \in Sources
      PROVE  \/ Cached(sources[s]) = Live(sources[s])
             \/ /\ ~Reads(d, platform, target, s, Cached(sources[s]))
                /\ ~Reads(d, platform, target, s, Live(sources[s]))
  <2> DEFINE log == sources[s].log
             n == Len(log)
             c == sources[s].cached
             S == SourceVals[s] \cup {Absent}
  <2>1. /\ sources[s] \in ViewOf(S) /\ WellFormed(sources[s])
        /\ Avoids(sources[s], Heard(d, platform, target, s))
    BY DEF LabelsInv, BaseInv, TypeOK, ViewsOK, SourceCalm
  <2>2. /\ n \in Nat \ {0} /\ c \in 1 .. n /\ \A i \in 1 .. n : log[i] \in S
        /\ Cached(sources[s]) = log[c] /\ Live(sources[s]) = log[n]
        /\ \A i \in 1 .. n - 1 : <<log[i], log[i + 1]>> \notin Heard(d, platform, target, s)
    BY <2>1 DEF ViewOf, WellFormed, Cached, Live, Avoids
  <2> HIDE DEF log, n, c, platform, target
  <2>3. ASSUME NEW i \in 1 .. n - 1
        PROVE  /\ ~Reads(d, platform, target, s, log[i])
               /\ ~Reads(d, platform, target, s, log[i + 1])
    <3>1. i \in 1 .. n /\ i + 1 \in 1 .. n
      BY <2>2
    <3> QED BY <2>2, <3>1 DEF Heard
  <2>4. CASE c # n
    <3>1. c \in 1 .. n - 1 /\ n - 1 \in 1 .. n - 1 /\ n - 1 + 1 = n
      BY <2>2, <2>4
    <3>2. ~Reads(d, platform, target, s, log[n])
      BY <2>3, <3>1
    <3> QED BY <2>2, <2>3, <3>1, <3>2
  <2> QED BY <2>2, <2>4
<1> HIDE DEF f, g, platform, target
<1>4. Aggregates(d, "configMap", platform, target, f) = Aggregates(d, "configMap", platform, target, g)
  BY <1>1, <1>3, AggregatesOfRead
<1> QED BY <1>2, <1>4 DEF f, platform, target

(* The store has the output of a quiet domain, if there is one in it.        *)
LEMMA StoredIsLive ==
    ASSUME BaseInv, LabelsInv, NEW d \in Domains, MapCalm(d), Cached(outputs[MapOf(d)]) # Absent
    PROVE  Cached(outputs[MapOf(d)]) = Live(outputs[MapOf(d)])
<1> DEFINE o == MapOf(d)
           log == outputs[o].log
           n == Len(log)
           c == outputs[o].cached
           S == OwnOutputs(d) \cup {Absent}
<1>1. /\ outputs[o] \in ViewOf(S) /\ WellFormed(outputs[o])
      /\ Avoids(outputs[o], OwnOutputs(d) \X S)
  BY KindsAssumption DEF LabelsInv, BaseInv, TypeOK, ViewsOK, MapCalm, MapOf, Outputs
<1>2. /\ n \in Nat \ {0} /\ c \in 1 .. n /\ \A i \in 1 .. n : log[i] \in S
      /\ Cached(outputs[o]) = log[c] /\ Live(outputs[o]) = log[n]
      /\ \A i \in 1 .. n - 1 : <<log[i], log[i + 1]>> \notin OwnOutputs(d) \X S
  BY <1>1 DEF ViewOf, WellFormed, Cached, Live, Avoids
<1> HIDE DEF log, n, c, o
<1>3. CASE c # n
  <2>1. c \in 1 .. n - 1 /\ c + 1 \in 1 .. n
    BY <1>2, <1>3
  <2>2. log[c] \in S /\ log[c + 1] \in S /\ <<log[c], log[c + 1]>> \notin OwnOutputs(d) \X S
    BY <1>2, <2>1
  <2>3. log[c] = Absent
    BY <2>2
  <2> QED BY <1>2, <2>3 DEF o
<1> QED BY <1>2, <1>3 DEF o

\* A sync that leaves the output of d alone or writes it.
LEMMA MapIsDone ==
    ASSUME BaseInv, LabelsInv, NEW d \in Domains \ Unselectable, Settling(d), MapCalm(d),
           \A s \in Sources : SourceCalm(d, s), NEW w \in Workers, job[w].key = d,
           Matches(job[w], d), UNCHANGED apiVars, LET o == MapOf(d)
               stored == Cached(outputs[o])
           IN  \E data \in Wanted(job[w], "configMap", CachedSources) :
                  \/ LeftAlone(job[w], "configMap", stored, data) /\ UNCHANGED outputs
                  \/ WriteOutput(o, Built(job[w], stored, data))
    PROVE  MapDone(d)'
<1> DEFINE o == MapOf(d)
           j == job[w]
           stored == Cached(outputs[o])
<1>1. PICK data \in Wanted(j, "configMap", CachedSources) :
        \/ LeftAlone(j, "configMap", stored, data) /\ UNCHANGED outputs
        \/ WriteOutput(o, Built(j, stored, data))
  OBVIOUS
<1>2. /\ ViewsOK /\ ControlOK /\ o \in Outputs /\ stored \in OutputOrNone /\ j \in Jobs
      /\ j.key \in Domains /\ j.domain # Absent
  BY KindsAssumption, ReadTypes DEF BaseInv, TypeOK, ControlOK, MapOf, Outputs, Matches
<1>3. data \in Aggregated(d, "configMap")
  BY ListsAreLive DEF Wanted, Matches
<1>4. /\ Aggregated(d, "configMap")' = Aggregated(d, "configMap")
      /\ Live(domains'[d]).uid = Live(domains[d]).uid /\ j.domain.uid = Live(domains[d]).uid
  BY DEF Settling, SameAsked, Matches
<1>5. CASE LeftAlone(j, "configMap", stored, data) /\ UNCHANGED outputs
  <2>1. stored # Absent /\ (stored.owner # j.domain.uid \/ stored.data = data)
    BY <1>5 DEF LeftAlone
  <2>2. stored = Live(outputs[o])
    BY <2>1, StoredIsLive
  <2> HIDE DEF stored, j
  <2>3. Live(outputs'[o]) = stored
    BY <1>5, <2>2
  <2> HIDE DEF o
  <2> QED BY <1>3, <1>4, <2>1, <2>3 DEF MapDone, o
<1>6. CASE WriteOutput(o, Built(j, stored, data))
  <2> DEFINE v == Built(j, stored, data)
  <2>1. j.domain.spec.platform \in Platforms
    BY <1>2 DEF Jobs, DomainVersions, DomainSpec
  <2>2. data \in OutputData
    BY <1>1, <1>2, <2>1, ListTypes, AggregateTypes DEF Wanted
  <2>3. v \in OutputVersions
    BY <1>2, <2>2, BuiltTypes
  <2>4. Live(outputs'[o]) = v
    BY <1>2, <1>6, <2>3, WriteOutputView, Zenon DEF OutputOrNone
  <2>5. v # Absent
    BY <2>3, VersionsAreSpecs
  <2>6. v.data = data
    <3>1. CASE stored = Absent
      BY <3>1 DEF Built
    <3>2. CASE stored # Absent
      <4>1. stored \in OutputVersions
        BY <1>2, <3>2 DEF OutputOrNone
      <4> HIDE DEF stored
      <4> QED BY <3>2, <4>1 DEF Built, OutputVersions
    <3> QED BY <3>1, <3>2
  <2> HIDE DEF v, o
  <2> QED BY <1>3, <1>4, <2>4, <2>5, <2>6 DEF MapDone, o
<1> QED BY <1>1, <1>5, <1>6

(* A worker that goes on with a domain that is quiet afterwards does what is *)
(* claimed of it.                                                           *)
LEMMA SyncWorkClaim ==
    ASSUME BaseInv, LabelsInv, NEW d \in Domains \ Unselectable, Settling(d), MapCalm(d),
           \A s \in Sources : SourceCalm(d, s), d \notin queue'.delayed,
           NEW w \in Workers, job[w].key = d, Work(w) \/ Fail(w), ~Finish(w),
           JobClaim(job[w], d), SyncClaim(job[w], d)
    PROVE  SyncClaim(job[w], d)'
<1> DEFINE j == job[w]
           i == job'[w]
<1>1. /\ ControlOK /\ Asked(d)' = Asked(d) /\ Live(domains[d]) # Absent
      /\ (MapDone(d) => MapDone(d)') /\ (Finished(d) => Finished(d)')
  BY SyncClaimStays DEF BaseInv, TypeOK, Settling, SameAsked
<1>2. ASSUME NEW v, NEW target, v # Absent, v.spec = Live(domains[d]).spec,
             target = LiveTarget(Live(domains[d])), AfterCleanup(i, v, target)
      PROVE  SyncClaim(job[w], d)'
  <2>1. WantedKinds(v, target) = Asked(d)
    BY <1>1, <1>2, WantedIsAsked
  <2>2. i.left = Asked(d) /\ i.pc = IF Asked(d) = {} THEN "done" ELSE "reset"
    BY <1>2, <2>1 DEF AfterCleanup
  <2>3. Asked(d) = {} => Finished(d)'
    BY <1>1 DEF Finished
  <2> QED BY <1>1, <2>2, <2>3 DEF SyncClaim
<1>3. CASE ReadDomain(w)
  <2> DEFINE v == Cached(domains[d])
             target == Cached(platforms[v.spec.platform])
  <2>1. \/ v = Absent
        \/ v # Absent /\ AfterCleanup(i, v, target)
        \/ i.pc = "cleanup"
    BY <1>1, <1>3, ReadEffect
  <2>2. v # Absent /\ v.spec = Live(domains[d]).spec /\ target = LiveTarget(Live(domains[d]))
    BY ReadMatches DEF Settling
  <2> HIDE DEF v, target
  <2>3. i.pc = "cleanup" => SyncClaim(job[w], d)'
    BY DEF SyncClaim
  <2> QED BY <1>2, <2>1, <2>2, <2>3
<1>4. CASE Cleanup(w)
  <2>1. /\ j.pc = "cleanup"
        /\ AfterCleanup(i, j.domain, j.target) \/ i.pc = "cleanup"
    BY <1>1, <1>4, CleanupEffect
  <2>2. Matches(j, d)
    BY <2>1 DEF JobClaim
  <2>3. i.pc = "cleanup" => SyncClaim(job[w], d)'
    BY DEF SyncClaim
  <2> QED BY <1>2, <2>1, <2>2, <2>3 DEF Matches
<1>5. CASE ResetStatus(w)
  <2>1. j.pc = "reset" /\ i.pc \in {"retry", "sync"} /\ i.left = j.left
    BY <1>1, <1>5, PcEffect DEF ResetStatus
  <2> QED BY <1>1, <2>1 DEF SyncClaim
<1>6. CASE CleanupFails(w) \/ ResetFails(w) \/ SyncFails(w)
  <2>1. i.pc \in {"retry", "fail"}
    BY <1>1, <1>6, PcEffect DEF CleanupFails, ResetFails, SyncFails
  <2> QED BY <2>1 DEF SyncClaim
<1>7. CASE UpdateStatus(w) \/ UpdateFails(w)
  <2>1. i.pc = "retry" \/ (j.pc = "succeed" /\ i.pc = "done")
    BY <1>1, <1>7, PcEffect DEF UpdateStatus, UpdateFails, AfterUpdate
  <2> QED BY <1>1, <2>1 DEF SyncClaim
<1>8. CASE Sync(w)
  <2> DEFINE kind == First(j.left)
             o == <<kind, j.key>>
             stored == Cached(outputs[o])
  <2>1. /\ j.pc = "sync" /\ kind \in j.left
        /\ \/ i.pc = "fail"
           \/ /\ i.left = j.left \ {kind} /\ i.pc = IF j.left = {kind} THEN "succeed" ELSE "sync"
              /\ kind = "secret" => j.key \in queue'.delayed
              /\ \E data \in Wanted(j, kind, CachedSources) :
                    \/ LeftAlone(j, kind, stored, data) /\ UNCHANGED outputs
                    \/ WriteOutput(o, Built(j, stored, data))
    BY <1>1, <1>8, SyncEffect
  <2>2. UNCHANGED apiVars
    BY <1>8 DEF Sync
  <2>3. Matches(j, d) /\ j.left \subseteq Asked(d)
    BY <2>1 DEF JobClaim
  <2>4. i.pc = "fail" => SyncClaim(job[w], d)'
    BY DEF SyncClaim
  <2>5. CASE /\ i.left = j.left \ {kind} /\ i.pc = IF j.left = {kind} THEN "succeed" ELSE "sync"
             /\ kind = "secret" => j.key \in queue'.delayed
             /\ \E data \in Wanted(j, kind, CachedSources) :
                   \/ LeftAlone(j, kind, stored, data) /\ UNCHANGED outputs
                   \/ WriteOutput(o, Built(j, stored, data))
    <3>1. kind # "secret"
      BY <2>5
    <3>2. kind = "configMap" => MapDone(d)'
      BY <2>2, <2>3, <2>5, MapIsDone DEF MapOf
    <3>3. /\ "secret" \in Asked(d) => "secret" \in j.left
          /\ "configMap" \in Asked(d) \ j.left => MapDone(d)
      BY <2>1 DEF SyncClaim
    <3> HIDE DEF kind
    <3>4. /\ "secret" \in Asked(d) => "secret" \in i.left
          /\ "configMap" \in Asked(d) \ i.left => MapDone(d)'
      BY <1>1, <2>5, <3>1, <3>2, <3>3
    <3>5. i.pc = "sync" \/ (i.pc = "succeed" /\ i.left = {})
      BY <2>5
    <3>6. i.pc = "succeed" => Finished(d)'
      BY <1>1, <3>4, <3>5 DEF Finished
    <3> QED BY <1>1, <3>4, <3>5, <3>6 DEF SyncClaim
  <2> QED BY <2>1, <2>4, <2>5
<1> QED BY <1>3, <1>4, <1>5, <1>6, <1>7, <1>8 DEF Work, Fail

LEMMA AggregatedStep ==
    ASSUME ~PlatformsMayChange, "take" \notin Tampering, DomainsKeepPlatforms, LabelsKeepNamespaces,
           BaseInv, CleanInv, LabelsInv, AggregatedInv, [Next]_vars
    PROVE  AggregatedInv'
<1> SUFFICES ASSUME NEW d \in Domains \ Unselectable, Quiet(d)'
             PROVE  /\ \A w \in Workers : Busy(w)' /\ job'[w].key = d => SyncClaim(job[w], d)'
                    /\ d \notin queue'.processing => Finished(d)'
  BY DEF AggregatedInv
<1>1. ControlOK /\ HeldOnce /\ up' /\ d \notin queue'.delayed
  BY DEF BaseInv, TypeOK, Quiet, Calm
<1>2. /\ Settling(d) /\ MapCalm(d) /\ \A s \in Sources : SourceCalm(d, s)
      /\ Quiet(d) \/ (d \in Ready(queue) /\ \E w \in Workers : Take(w, d))
  BY QuietBefore DEF Settling
<1>3. /\ Finished(d) => Finished(d)'
      /\ \A w \in Workers : job'[w] = job[w] /\ SyncClaim(job[w], d) => SyncClaim(job[w], d)'
  BY <1>2, SyncClaimStays
<1>4. ASSUME NEW w \in Workers, Take(w, d), d \in Ready(queue)
      PROVE  /\ \A v \in Workers : Busy(v)' /\ job'[v].key = d => SyncClaim(job[v], d)'
             /\ d \notin queue'.processing => Finished(d)'
  <2>1. /\ job'[w].pc = "read" /\ d \notin queue.processing /\ d \in queue'.processing
        /\ \A v \in Workers \ {w} : job'[v] = job[v]
    BY <1>1, <1>4, TakeEffect
  <2>2. \A v \in Workers \ {w} : ~(Busy(v)' /\ job'[v].key = d)
    BY <1>1, <2>1 DEF HeldOnce, Busy
  <2>3. SyncClaim(job[w], d)'
    BY <2>1 DEF SyncClaim
  <2> QED BY <2>1, <2>2, <2>3
<1>5. ASSUME Quiet(d)
      PROVE  /\ \A w \in Workers : Busy(w)' /\ job'[w].key = d => SyncClaim(job[w], d)'
             /\ d \notin queue'.processing => Finished(d)'
  <2>1. /\ \A w \in Workers : Busy(w) /\ job[w].key = d => SyncClaim(job[w], d)
        /\ d \notin queue.processing => Finished(d)
        /\ \A w \in Workers : Busy(w) /\ job[w].key = d => JobClaim(job[w], d)
    BY <1>5 DEF AggregatedInv, CleanInv, Quiet
  <2>2. CASE UNCHANGED job /\ queue'.processing = queue.processing
    BY <1>3, <2>1, <2>2 DEF Busy
  <2>3. ASSUME NEW w \in Workers, NEW e \in Ready(queue), Take(w, e), e # d
        PROVE  /\ \A v \in Workers : Busy(v)' /\ job'[v].key = d => SyncClaim(job[v], d)'
               /\ d \notin queue'.processing => Finished(d)'
    <3>1. /\ job'[w].key = e /\ (\A v \in Workers \ {w} : job'[v] = job[v])
          /\ queue'.processing = queue.processing \cup {e}
      BY <1>1, <2>3, TakeEffect
    <3> QED BY <1>3, <2>1, <2>3, <3>1 DEF Busy
  <2>4. ASSUME NEW w \in Workers, Finish(w)
        PROVE  /\ \A v \in Workers : Busy(v)' /\ job'[v].key = d => SyncClaim(job[v], d)'
               /\ d \notin queue'.processing => Finished(d)'
    <3>1. /\ job[w].pc \in {"done", "retry"} /\ Busy(w) /\ ~Busy(w)'
          /\ \A v \in Workers \ {w} : job'[v] = job[v]
          /\ queue'.processing = queue.processing \ {job[w].key}
          /\ job[w].pc = "retry" => job[w].key \in queue'.delayed
      BY <1>1, <2>4, FinishEffect
    <3>2. job[w].key = d => Finished(d)
      BY <1>1, <2>1, <3>1 DEF SyncClaim
    <3> QED BY <1>3, <2>1, <3>1, <3>2 DEF Busy
  <2>5. ASSUME NEW w \in Workers, Work(w) \/ Fail(w), ~Finish(w)
        PROVE  /\ \A v \in Workers : Busy(v)' /\ job'[v].key = d => SyncClaim(job[v], d)'
               /\ d \notin queue'.processing => Finished(d)'
    <3>1. Continues(w)
      BY <1>1, <2>5, WorkerContinues
    <3>2. job[w].key = d => SyncClaim(job[w], d)'
      BY <1>1, <1>2, <2>1, <2>5, <3>1, SyncWorkClaim DEF Continues
    <3> QED BY <1>3, <2>1, <3>1, <3>2 DEF Continues, Busy
  <2>6. CASE Others
    <3>1. ~Crash
      BY <1>1 DEF Crash
    <3>2. UNCHANGED job /\ queue'.processing = queue.processing
      BY <1>1, <2>6, <3>1, OtherQueue
    <3> QED BY <2>2, <3>2
  <2>7. CASE UNCHANGED vars
    BY <2>2, <2>7 DEF vars
  <2>8. d \notin Ready(queue)
    BY <1>5 DEF Quiet, Calm, Ready
  <2> QED BY <2>3, <2>4, <2>5, <2>6, <2>7, <2>8 DEF Next, Others
<1> QED BY <1>2, <1>4, <1>5

(* The first list of the domains is still to be handled.                    *)
LEMMA AggregatedInit == Init => AggregatedInv
<1> SUFFICES ASSUME Init, NEW d \in Domains PROVE ~SameObject(d)
  BY DEF AggregatedInv, Quiet, Calm
<1>1. PICK v : domains[d] = Listed(v)
  BY DEF Init
<1>2. domains[d].log[1] = Absent /\ 1 \in 1 .. Len(domains[d].log)
  BY <1>1 DEF Listed, Unwatched
<1> QED BY <1>2 DEF SameObject, Versions

LEMMA SettledIsQuiet ==
    ASSUME BaseInv, NEW d \in Domains, Settled(d), Asked(d) # {}
    PROVE  Quiet(d) /\ d \notin queue.processing
<1>1. /\ domains[d] \in ViewOf(DomainOrNone) /\ WellFormed(domains[d]) /\ UpToDate(domains[d])
      /\ MapOf(d) \in Outputs
  BY KindsAssumption DEF BaseInv, TypeOK, ViewsOK, DomainOrNone, Settled, Outputs, MapOf
<1>2. Live(domains[d]) # Absent
  BY DEF Asked
<1>3. Versions(domains[d]) = {Live(domains[d])}
  BY <1>1 DEF Versions, UpToDate, Live
<1>4. Calm(d) /\ d \notin queue.processing
  BY <1>2, <1>3 DEF Calm, SameObject, Settled
<1>5. \A view : UpToDate(view) => \A changes : Avoids(view, changes)
  BY DEF UpToDate, Avoids
<1>6. MapCalm(d) /\ \A s \in Sources : SourceCalm(d, s)
  BY <1>1, <1>5, Zenon DEF Settled, MapCalm, SourceCalm
<1> QED BY <1>4, <1>6 DEF Quiet

(* At rest the output is the domain's own, somebody else's, or an orphan.   *)
LEMMA QuietIsAggregated ==
    BaseInv /\ AggregatedInv => SettledIsAggregated
<1> SUFFICES ASSUME BaseInv, AggregatedInv, NEW d \in Domains, Settled(d), NEW kind \in Asked(d),
                    d \notin Unselectable
             PROVE  IsAggregated(d, kind)
  BY DEF SettledIsAggregated
<1>1. Finished(d)
  BY SettledIsQuiet DEF AggregatedInv
<1>2. kind \in Kinds /\ kind # "secret" /\ Live(domains[d]) # Absent
  BY <1>1 DEF Finished, Asked, WantedKinds
<1>3. kind = "configMap"
  <2>1. kind = "spc" => "secret" \in Asked(d)
    BY KindsAssumption, <1>2 DEF Asked, WantedKinds
  <2> QED BY KindsAssumption, <1>1, <1>2, <2>1 DEF Finished
<1>4. MapDone(d)
  BY <1>1, <1>3 DEF Finished
<1>5. ~Orphan(MapOf(d))
  BY KindsAssumption DEF Settled, MapOf, Outputs
<1>6. Live(outputs[MapOf(d)]).owner \in {Live(domains[d]).uid, Foreign}
  BY <1>2, <1>4, <1>5 DEF Orphan, MapDone, MapOf
<1> QED BY <1>3, <1>4, <1>6 DEF IsAggregated, MapDone, MapOf

AggregationInv == BaseInv /\ CleanInv /\ LabelsInv /\ AggregatedInv

LEMMA AggregationInvariance ==
    ASSUME ~PlatformsMayChange, "take" \notin Tampering, DomainsKeepPlatforms, LabelsKeepNamespaces
    PROVE  Spec => []AggregationInv
<1>1. Init => AggregationInv
  BY BaseInit, LabelsInit, AggregatedInit DEF AggregationInv
<1>2. AggregationInv /\ [Next]_vars => AggregationInv'
  BY BaseNext, CleanStep, LabelsStep, AggregatedStep DEF AggregationInv, BaseInv
<1> QED BY <1>1, <1>2, PTL DEF Spec

(* While no platform changes, at rest the ConfigMap of a domain is the       *)
(* aggregation of what the API server has, whatever conflicts, lost answers, *)
(* crashes, edits, deletions and meddling came before, and however many      *)
(* writes the stores were behind (syncHandler, Sync of the handlers, and the *)
(* event handlers).  A domain with secrets is never at rest.  Assumed are    *)
(* what the handlers rely on: nobody takes the name of an output for another *)
(* object, a domain keeps its platform, and a label that names a domain keeps*)
(* its namespace.                                                            *)
THEOREM SettledIsAlwaysAggregated ==
    ASSUME ~PlatformsMayChange, "take" \notin Tampering, DomainsKeepPlatforms, LabelsKeepNamespaces
    PROVE  Spec => []SettledIsAggregated
<1>1. AggregationInv => SettledIsAggregated
  BY QuietIsAggregated DEF AggregationInv
<1> QED BY <1>1, AggregationInvariance, PTL

(* The objects labelled with d itself are those of the last two lists.      *)
LEMMA OwnLayers ==
    ASSUME NEW d \in Domains, NEW s \in Sources, s[1] = "configMap", s[3] # d[2],
           Live(sources[s]) # Absent
    PROVE  LET v == Live(domains[d])
               last == LastLayer(d, v.spec.platform, LiveTarget(v), s, Live(sources[s]))
           IN  /\ last \in 0 .. 4
               /\ last >= 3 <=> s \in Own(d)
               /\ s \in Own(d) => Reads(d, v.spec.platform, LiveTarget(v), s, Live(sources[s]))
<1> DEFINE platform == Live(domains[d]).spec.platform
           target == LiveTarget(Live(domains[d]))
           object == Live(sources[s])
           layers == Layers(d, platform, target, s[2], object)
           last == LastLayer(d, platform, target, s, object)
<1>1. /\ d[1] \in Seq(STRING) /\ d[2] \in Seq(STRING) /\ Len(d[1]) = 1 /\ Len(d[2]) = 1
      /\ LiveSources[s] = object /\ s \in DOMAIN LiveSources
  BY NamesAssumption, VersionsAreSpecs DEF LiveSources
<1>2. d[2] # <<>> /\ d[2] \o d[1] # <<>>
  BY <1>1, NameParts, JoinedParts
<1> HIDE DEF object
<1>3. \A i \in {3, 4} : i \in layers <=> InLayer(i, d, platform, target, s[2], object)
  BY DEF Layers
<1>4. InLayer(3, d, platform, target, s[2], object) <=>
         object.platform = platform /\ s[2] = d[1] /\ object.domain = d[2]
  BY <1>2 DEF InLayer, Labelled
<1>5. InLayer(4, d, platform, target, s[2], object) <=>
         object.platform = platform /\ object.domain = d[2] \o d[1]
  <2> DEFINE joined == d[2] \o d[1]
  <2>1. InLayer(4, d, platform, target, s[2], object) <=>
           Labelled(object) /\ object.platform = platform /\ object.domain = joined
    <3> HIDE DEF joined, platform, target
    <3> QED BY DEF InLayer, joined
  <2> QED BY <1>2, <2>1 DEF Labelled
<1>6. s \in Own(d) <=> 3 \in layers \/ 4 \in layers
  BY <1>1, <1>3, <1>4, <1>5, Zenon DEF Own, Present, object
<1>7. /\ layers \subseteq 1 .. 4 /\ last \in layers \cup {0} /\ \A l \in layers : l <= last
  BY LastLayerIsLast DEF Layers
<1> HIDE DEF layers, last
<1>8. last >= 3 <=> 3 \in layers \/ 4 \in layers
  <2>1. ASSUME last >= 3 PROVE 3 \in layers \/ 4 \in layers
    BY <1>7, <2>1
  <2> QED BY <1>7, <2>1
<1>9. s \in Own(d) => Reads(d, platform, target, s, object)
  <2>1. s \in Own(d) => layers # {}
    BY <1>6
  <2> QED BY <2>1 DEF Reads, layers, object
<1>10. last \in 0 .. 4
  BY <1>7
<1>11. last >= 3 <=> s \in Own(d)
  BY <1>6, <1>8
<1> QED BY <1>9, <1>10, <1>11, Zenon DEF last, object

(* Of the objects with a key the last wins, and a domain's own are later    *)
(* than the global ones.                                                    *)
LEMMA AggregatesPreferOwn ==
    ASSUME NEW d \in Domains, NEW data \in Aggregated(d, "configMap"), NEW e \in data,
           NEW s \in Own(d), NEW f \in LiveSources[s].data, f[1] = e[1]
    PROVE  \E t \in Own(d) : e \in LiveSources[t].data
<1> DEFINE platform == Live(domains[d]).spec.platform
           target == LiveTarget(Live(domains[d]))
           objects == LiveSources
           read == Read(d, "configMap", platform, target, objects)
<1>1. PICK order \in Orders : data = Merged(read, objects, order)
  <2>1. \A x : {<<Role, platform>> : y \in {"configMap"} \cap {"spc"}} = {}
    OBVIOUS
  <2> QED BY <2>1 DEF Aggregated, Aggregates
<1>2. /\ DOMAIN objects = Sources /\ \A t \in Sources : objects[t] = Live(sources[t])
      /\ s \in Sources /\ s[1] = "configMap" /\ s[3] # d[2] /\ Live(sources[s]) # Absent
  BY DEF LiveSources, Own, Present
<1> HIDE DEF objects, platform, target, read
<1>3. PICK r \in read : /\ e \in objects[r[2]].data
                        /\ \A t \in read : Later(t, r, order) =>
                               \A g \in objects[t[2]].data : g[1] # e[1]
  BY <1>1 DEF Merged
<1>4. /\ r[2] \in Sources /\ Reads(d, platform, target, r[2], Live(sources[r[2]]))
      /\ r = <<LastLayer(d, platform, target, r[2], Live(sources[r[2]])), r[2]>>
  BY <1>2, <1>3, ReadObjects DEF read
<1> DEFINE layer(x) == LastLayer(d, platform, target, x, Live(sources[x]))
           t == <<layer(s), s>>
<1>5. layer(s) \in 0 .. 4 /\ layer(s) >= 3 /\ Reads(d, platform, target, s, Live(sources[s]))
  BY <1>2, OwnLayers DEF platform, target
<1>6. t \in read
  BY <1>2, <1>5, ReadObjects DEF read
<1>7. layer(r[2]) \in 0 .. 4 /\ (layer(r[2]) >= 3 <=> r[2] \in Own(d))
  BY <1>4, OwnLayers DEF Reads, platform, target
<1>8. r[1] = layer(r[2])
  BY <1>4
<1>9. t[1] = layer(s) /\ t[2] = s
  OBVIOUS
<1> HIDE DEF layer, t
<1>10. ~Later(t, r, order)
  BY <1>3, <1>6, <1>9 DEF objects
<1>11. ~(t[1] > r[1])
  BY <1>10 DEF Later
<1>12. r[2] \in Own(d)
  BY <1>5, <1>7, <1>8, <1>9, <1>11
<1> QED BY <1>3, <1>12 DEF objects

LEMMA AggregatedPrefersOwn ==
    SettledIsAggregated => OwnConfigWins
<1> SUFFICES ASSUME SettledIsAggregated, NEW d \in Domains, Settled(d), "configMap" \in Asked(d),
                    d \notin Unselectable, Live(outputs[MapOf(d)]).owner # Foreign,
                    NEW e \in Live(outputs[MapOf(d)]).data,
                    NEW s \in Own(d), NEW f \in LiveSources[s].data, f[1] = e[1]
             PROVE  \E t \in Own(d) : e \in LiveSources[t].data
  BY DEF OwnConfigWins, MapOf
<1>1. Live(outputs[MapOf(d)]).data \in Aggregated(d, "configMap")
  BY DEF SettledIsAggregated, IsAggregated, MapOf
<1> QED BY <1>1, AggregatesPreferOwn

(* Under the same assumptions a domain's own ConfigMaps take precedence over *)
(* the global ones, at rest, whichever way the labels of either came and     *)
(* went (the order of the lists in getConfigMapsFor, mergeConfigMaps).       *)
THEOREM OwnConfigAlwaysWins ==
    ASSUME ~PlatformsMayChange, "take" \notin Tampering, DomainsKeepPlatforms, LabelsKeepNamespaces
    PROVE  Spec => []OwnConfigWins
BY SettledIsAlwaysAggregated, AggregatedPrefersOwn, PTL
=============================================================================
