--------------------------- MODULE StepDataProofs ---------------------------
(***************************************************************************)
(* Proofs of the properties of StepData, each from an inductive invariant  *)
(* of its own: ResourceInv, DataInv, ReadInv and CarryInv.                 *)
(*                                                                         *)
(* ResourcesBeforeJobs is not inductive: that a Job may be created follows *)
(* from where the worker is, and what the worker has done from the index   *)
(* it has reached and from the status it stored.                           *)
(***************************************************************************)
EXTENDS StepData, SequenceTheorems, FiniteSetTheorems, WellFoundedInduction, TLAPS

WorkerFields == {"at", "step", "next", "params", "ready"}

AllExist == \A resource \in Range(flow.resources) : Exists(resource)

ResourceInv ==
  /\ flow \in Flows
  /\ DOMAIN worker = WorkerFields
  /\ worker.at = "init" =>
       /\ worker.next \in Nat \ {0}
       /\ \A i \in 1 .. Len(flow.resources) : i < worker.next => Exists(flow.resources[i])
  /\ worker.at \notin {"idle", "init"} => stored # {}
  /\ stored # {} => AllExist
  /\ \A s \in Steps : jobs[s] # "absent" => stored # {}

(* The ranges of flow.resources as a function and as a sequence.            *)
LEMMA ResourceIndexes ==
  ASSUME flow \in Flows
  PROVE  /\ Len(flow.resources) \in Nat
         /\ Range(flow.resources) = {flow.resources[i] : i \in 1 .. Len(flow.resources)}
<1>1. flow.resources \in Seq(Range(flow.resources))
  BY FlowsAssumption DEF IsList
<1>2. DOMAIN flow.resources = 1 .. Len(flow.resources) /\ Len(flow.resources) \in Nat
  BY <1>1
<1> QED BY <1>2 DEF Range

(* Writing an entry removes no resource: the entry it replaces is one of    *)
(* the same object.                                                         *)
LEMMA PutKeeps ==
  ASSUME NEW entry, NEW resource, Exists(resource),
         objects' = Put(entry), volumes' = volumes
  PROVE  Exists(resource)'
<1>1. CASE resource.kind = "claim"
  BY <1>1 DEF Exists
<1>2. CASE resource.kind # "claim"
  <2>1. PICK e \in objects : SameObject(e, resource)
    BY <1>2 DEF Exists
  <2>2. e \in Put(entry) \/ SameObject(e, entry)
    BY DEF Put
  <2>3. entry \in Put(entry)
    BY DEF Put
  <2>4. SameObject(e, entry) => SameObject(entry, resource)
    BY <2>1 DEF SameObject
  <2>5. \E x \in Put(entry) : SameObject(x, resource)
    BY <2>1, <2>2, <2>3, <2>4
  <2> QED BY <1>2, <2>5 DEF Exists
<1> QED BY <1>1, <1>2

LEMMA CreateKeeps ==
  ASSUME NEW made0, NEW resource, Exists(resource), CreateResource(made0)
  PROVE  Exists(resource)'
<1>1. CASE UNCHANGED storage
  BY <1>1 DEF storage, Exists
<1>2. CASE volumes' = volumes \cup {made0.name} /\ UNCHANGED objects
  BY <1>2 DEF Exists
<1>3. CASE objects' = Put(made0) /\ UNCHANGED volumes
  BY <1>3, PutKeeps
<1> QED BY <1>1, <1>2, <1>3 DEF CreateResource

(* What is created is there.                                                *)
LEMMA CreateMakes ==
  ASSUME NEW resource, CreateResource(resource)
  PROVE  Exists(resource)'
<1>1. CASE Exists(resource) /\ UNCHANGED storage
  BY <1>1 DEF storage, Exists
<1>2. CASE resource.kind = "claim" /\ volumes' = volumes \cup {resource.name}
  BY <1>2 DEF Exists
<1>3. CASE resource.kind # "claim" /\ objects' = Put(resource)
  BY <1>3 DEF Exists, Put, SameObject
<1> QED BY <1>1, <1>2, <1>3 DEF CreateResource

(* No action removes a resource.                                            *)
LEMMA StorageKeeps ==
  ASSUME NEW resource, Exists(resource),
         \/ UNCHANGED storage
         \/ UNCHANGED volumes /\ \E entry : objects' = Put(entry)
         \/ \E made0 : CreateResource(made0)
  PROVE  Exists(resource)'
<1>1. CASE UNCHANGED storage
  BY <1>1 DEF storage, Exists
<1>2. ASSUME NEW entry, UNCHANGED volumes, objects' = Put(entry)
      PROVE  Exists(resource)'
  BY <1>2, PutKeeps
<1>3. ASSUME NEW made0, CreateResource(made0)
      PROVE  Exists(resource)'
  BY <1>3, CreateKeeps
<1> QED BY <1>1, <1>2, <1>3

LEMMA ResourceInit == Init => ResourceInv
<1> SUFFICES ASSUME Init PROVE ResourceInv
  OBVIOUS
<1>1. worker = Idle /\ stored = {} /\ flow \in Flows /\ jobs = [s \in Steps |-> "absent"]
  BY DEF Init
<1>2. Idle.at = "idle" /\ DOMAIN Idle = WorkerFields
  BY DEF Idle, WorkerFields
<1> QED BY <1>1, <1>2 DEF ResourceInv

(* An action that creates nothing: it leaves flow alone and removes no      *)
(* resource, stores a status only over another one, makes Jobs only when    *)
(* one is stored, and enters the loop and what is called from it only then. *)
LEMMA OtherSteps ==
  ASSUME ResourceInv, flow' = flow,
         UNCHANGED storage \/ (UNCHANGED volumes /\ \E entry : objects' = Put(entry)),
         stored # {} => stored' # {},
         stored = {} => stored' = {},
         UNCHANGED jobs \/ stored # {},
         DOMAIN worker' = WorkerFields,
         \/ UNCHANGED worker
         \/ worker'.at = "init" /\ worker'.next = 1
         \/ worker'.at = "idle"
         \/ stored # {} /\ worker'.at # "init"
  PROVE  ResourceInv'
<1>1. ASSUME NEW resource, Exists(resource) PROVE Exists(resource)'
  BY <1>1, StorageKeeps
<1>2. AllExist => AllExist'
  BY <1>1 DEF AllExist
<1>3. Len(flow.resources) \in Nat
  BY ResourceIndexes DEF ResourceInv
<1>4. (worker.at = "init" =>
         /\ worker.next \in Nat \ {0}
         /\ \A i \in 1 .. Len(flow.resources) : i < worker.next => Exists(flow.resources[i]))'
  <2>1. CASE UNCHANGED worker
    BY <2>1, <1>1 DEF ResourceInv
  <2>2. CASE worker'.at = "init" /\ worker'.next = 1
    BY <2>2, <1>3
  <2> QED BY <2>1, <2>2
<1>5. (worker.at \notin {"idle", "init"} => stored # {})'
  BY DEF ResourceInv
<1>6. (stored # {} => AllExist)'
  BY <1>2 DEF ResourceInv
<1>7. (\A s \in Steps : jobs[s] # "absent" => stored # {})'
  BY DEF ResourceInv
<1> QED BY <1>4, <1>5, <1>6, <1>7 DEF ResourceInv

LEMMA EnvironmentStep ==
  ASSUME ResourceInv, NEW s \in Steps,
         JobEnds(s) \/ JobIsDeleted(s) \/ CacheCatchesUp(s)
  PROVE  ResourceInv'
<1>1. CASE JobEnds(s) \/ JobIsDeleted(s)
  <2>1. stored # {}
    BY <1>1 DEF JobEnds, JobIsDeleted, ResourceInv
  <2> QED BY <1>1, <2>1, OtherSteps DEF JobEnds, JobIsDeleted, ResourceInv, storage
<1>2. CASE CacheCatchesUp(s)
  BY <1>2, OtherSteps DEF CacheCatchesUp, ResourceInv, storage
<1> QED BY <1>1, <1>2

LEMMA InitializeStep ==
  ASSUME ResourceInv, Initialize \/ createResourceTemplates \/ EndInitialize
  PROVE  ResourceInv'
<1>1. CASE Initialize
  <2>1. worker'.at = "init" /\ worker'.next = 1 /\ DOMAIN worker' = WorkerFields
    BY <1>1 DEF Initialize, Idle, WorkerFields
  <2> QED BY <1>1, <2>1, OtherSteps DEF Initialize, ResourceInv, cluster, storage
<1>2. CASE createResourceTemplates
  <2>1. CASE worker' = Idle /\ UNCHANGED storage
    <3>1. worker'.at = "idle" /\ DOMAIN worker' = WorkerFields
      BY <2>1 DEF Idle, WorkerFields
    <3> QED BY <1>2, <2>1, <3>1, OtherSteps DEF createResourceTemplates, ResourceInv, cluster
  <2>2. CASE /\ CreateResource(flow.resources[worker.next])
             /\ worker' = [worker EXCEPT !.next = @ + 1]
    <3>1. worker.next \in Nat \ {0} /\ worker.next <= Len(flow.resources)
      BY <1>2 DEF createResourceTemplates, ResourceInv
    <3>2. /\ worker'.at = "init" /\ worker'.next = worker.next + 1
          /\ DOMAIN worker' = WorkerFields
      BY <1>2, <2>2 DEF createResourceTemplates, ResourceInv, WorkerFields
    <3>3. flow' = flow /\ stored' = stored /\ jobs' = jobs
      BY <1>2 DEF createResourceTemplates, cluster
    <3>4. ASSUME NEW resource, Exists(resource) PROVE Exists(resource)'
      BY <2>2, <3>4, StorageKeeps
    <3>5. ASSUME NEW resource, resource = flow.resources[worker.next]
          PROVE  Exists(resource)'
      BY <2>2, <3>5, CreateMakes
    <3>6. ASSUME NEW i \in 1 .. Len(flow.resources), i < worker.next + 1
          PROVE  Exists(flow.resources[i])'
      <4>1. CASE i = worker.next
        BY <3>3, <3>5, <4>1
      <4>2. CASE i < worker.next
        <5>1. Exists(flow.resources[i])
          BY <1>2, <4>2 DEF createResourceTemplates, ResourceInv
        <5> QED BY <3>3, <3>4, <5>1
      <4>3. Len(flow.resources) \in Nat
        BY ResourceIndexes DEF ResourceInv
      <4> QED BY <3>1, <3>6, <4>1, <4>2, <4>3
    <3>7. AllExist => AllExist'
      BY <3>3, <3>4 DEF AllExist
    <3> QED BY <3>1, <3>2, <3>3, <3>6, <3>7 DEF ResourceInv
  <2> QED BY <1>2, <2>1, <2>2 DEF createResourceTemplates
<1>3. CASE EndInitialize
  <2>1. worker'.at = "idle" /\ DOMAIN worker' = WorkerFields
    BY <1>3 DEF EndInitialize, Idle, WorkerFields
  <2>2. AllExist
    <3>1. worker.next \in Nat \ {0} /\ worker.next > Len(flow.resources)
      BY <1>3 DEF EndInitialize, ResourceInv
    <3>2. /\ Len(flow.resources) \in Nat
          /\ Range(flow.resources) = {flow.resources[i] : i \in 1 .. Len(flow.resources)}
      BY ResourceIndexes DEF ResourceInv
    <3>3. \A i \in 1 .. Len(flow.resources) : Exists(flow.resources[i])
      BY <1>3, <3>1, <3>2 DEF EndInitialize, ResourceInv
    <3> QED BY <3>2, <3>3 DEF AllExist
  <2>3. AllExist'
    BY <1>3, <2>2 DEF EndInitialize, AllExist, Exists, storage
  <2> QED BY <1>3, <2>1, <2>3 DEF EndInitialize, ResourceInv, cluster
<1> QED BY <1>1, <1>2, <1>3

(* The worker goes back to rest, or stays in the loop.                      *)
LEMMA Returns ==
  /\ Idle.at = "idle" /\ DOMAIN Idle = WorkerFields
  /\ Loop(worker).at = "loop" /\ DOMAIN Loop(worker) = WorkerFields
BY DEF Idle, Loop, WorkerFields

LEMMA LoopStep ==
  ASSUME ResourceInv, Crash \/ Reconcile \/ EndReconcile
  PROVE  ResourceInv'
<1>1. CASE Crash
  BY <1>1, Returns, OtherSteps DEF Crash, Abort, ResourceInv, cluster, storage
<1>2. CASE Reconcile
  <2>1. stored # {} /\ worker'.at = "loop" /\ DOMAIN worker' = WorkerFields
    BY <1>2 DEF Reconcile, Idle, WorkerFields
  <2> QED BY <1>2, <2>1, OtherSteps DEF Reconcile, ResourceInv, cluster, storage
<1>3. CASE EndReconcile
  <2>1. stored # {}
    BY <1>3 DEF EndReconcile, ResourceInv
  <2> QED BY <1>3, <2>1, Returns, OtherSteps DEF EndReconcile, Abort, ResourceInv, cluster, storage
<1> QED BY <1>1, <1>2, <1>3

LEMMA ExecuteStep ==
  ASSUME ResourceInv, NEW s, executeStep(s) \/ HandleParameter \/ createJobForStep
  PROVE  ResourceInv'
<1>0. worker.at \notin {"idle", "init"} /\ DOMAIN worker = WorkerFields /\ stored # {}
  BY DEF executeStep, HandleParameter, createJobForStep, ResourceInv
<1>1. CASE executeStep(s)
  <2>1. worker'.at # "init" /\ DOMAIN worker' = WorkerFields
    BY <1>0, <1>1 DEF executeStep, WorkerFields
  <2> QED BY <1>0, <1>1, <2>1, OtherSteps DEF executeStep, ResourceInv, cluster, storage
<1>2. CASE HandleParameter
  <2>1. worker'.at # "init" /\ DOMAIN worker' = WorkerFields
    BY <1>0, <1>2 DEF HandleParameter, WorkerFields
  <2> QED BY <1>0, <1>2, <2>1, OtherSteps DEF HandleParameter, ResourceInv, cluster, storage
<1>3. CASE createJobForStep
  <2>1. worker'.at # "init" /\ DOMAIN worker' = WorkerFields
    BY <1>3, Returns DEF createJobForStep, StepFails, Abort
  <2> QED BY <1>0, <1>3, <2>1, OtherSteps DEF createJobForStep, ResourceInv, storage
<1> QED BY <1>1, <1>2, <1>3

(* ResourcesBeforeJobs for every family of flows and every budget of        *)
(* refused calls, crashes, deletions and edits: no Job is created before    *)
(* createResourceTemplates has gone through all resources of the flow in    *)
(* one reconciliation, and none of them goes away after that.               *)
THEOREM ResourcesFirst == Spec => []ResourcesBeforeJobs
<1>1. Init => ResourceInv
  BY ResourceInit
<1>2. ResourceInv /\ [Next]_vars => ResourceInv'
  <2> SUFFICES ASSUME ResourceInv, [Next]_vars PROVE ResourceInv'
    OBVIOUS
  <2>1. CASE UNCHANGED vars
    BY <2>1, OtherSteps DEF vars, cluster, ResourceInv
  <2>2. ASSUME NEW s \in Steps, JobEnds(s) \/ JobIsDeleted(s) \/ CacheCatchesUp(s)
        PROVE  ResourceInv'
    BY <2>2, EnvironmentStep
  <2>3. ASSUME NEW s \in Steps, executeStep(s) PROVE ResourceInv'
    BY <2>3, ExecuteStep
  <2>4. CASE UserEdits
    BY <2>4, OtherSteps DEF UserEdits, ResourceInv, cluster
  <2>5. CASE Initialize \/ createResourceTemplates \/ EndInitialize
    BY <2>5, InitializeStep
  <2>6. CASE Crash \/ Reconcile \/ EndReconcile
    BY <2>6, LoopStep
  <2>7. CASE HandleParameter \/ createJobForStep
    BY <2>7, ExecuteStep
  <2> QED BY <2>1, <2>2, <2>3, <2>4, <2>5, <2>6, <2>7 DEF Next
<1>3. ResourceInv => ResourcesBeforeJobs
  BY DEF ResourceInv, ResourcesBeforeJobs, AllExist
<1> QED BY <1>1, <1>2, <1>3, PTL DEF Spec
----------------------------------------------------------------------------
(* Types.  TypeOK is not inductive: that a step that runs or has Succeeded  *)
(* refers to its Job depends on where the worker is, and that what the      *)
(* worker writes has its type on the step it was called for.                *)

StepFields == {"phase", "jobRef"}

(* Where the worker is with the step executeStep was called for.            *)
Preparing == {"parameters", "create"}

StatusType(st) ==
  /\ DOMAIN st = StepFields
  /\ st.phase \in StepPhases /\ st.jobRef \in BOOLEAN
  /\ st.phase \in {"Running", "Succeeded"} => st.jobRef

StatusesType(steps) ==
  DOMAIN steps = Steps /\ \A s \in Steps : StatusType(steps[s])

WorkerType ==
  /\ DOMAIN worker = WorkerFields
  /\ worker.at \in {"idle", "init", "loop"} \cup Preparing
  /\ worker.next \in Nat \ {0} /\ worker.ready \subseteq DOMAIN flow.deps
  /\ worker.at \in Preparing => worker.step \in DOMAIN flow.deps

ClusterType ==
  /\ jobs \in [Steps -> JobStates] /\ seen \in [Steps -> JobStates]
  /\ \A s \in Steps : jobs[s] # "absent" => s \in DOMAIN flow.deps

CopiesType ==
  /\ StatusesType(copy) /\ \A steps \in stored : StatusesType(steps)
  /\ worker.at \in {"idle", "init"} => copy = Fresh

DataInv ==
  /\ flow \in Flows /\ left \in 0 .. Budget
  /\ WorkerType /\ ClusterType /\ CopiesType

LEMMA FlowShape ==
  ASSUME flow \in Flows
  PROVE  /\ DOMAIN flow.deps \subseteq Steps
         /\ \A s \in DOMAIN flow.deps :
              /\ flow.deps[s] \subseteq DOMAIN flow.deps
              /\ IsList(flow.parameters[s])
BY FlowsAssumption

LEMMA ListElement ==
  ASSUME NEW list, IsList(list), NEW i \in Nat \ {0}, i <= Len(list)
  PROVE  list[i] \in Range(list)
<1>1. list \in Seq(Range(list))
  BY DEF IsList
<1>2. i \in 1 .. Len(list) /\ DOMAIN list = 1 .. Len(list)
  BY <1>1, LenProperties
<1> QED BY <1>2 DEF Range

LEMMA NewPhase ==
  ASSUME NEW st, StatusType(st), NEW phase \in StepPhases,
         phase \in {"Running", "Succeeded"} => st.jobRef
  PROVE  StatusType([st EXCEPT !.phase = phase])
BY DEF StatusType, StepFields

LEMMA NewStatus ==
  ASSUME NEW steps, StatusesType(steps), NEW s \in Steps, NEW st, StatusType(st)
  PROVE  /\ StatusesType([steps EXCEPT ![s] = st])
         /\ [steps EXCEPT ![s] = st][s] = st
         /\ \A t \in Steps : t # s => [steps EXCEPT ![s] = st][t] = steps[t]
BY DEF StatusesType

LEMMA FreshType == StatusesType(Fresh)
BY DEF StatusesType, StatusType, StepFields, Fresh, NewStep, StepPhases

LEMMA LeftStep ==
  ASSUME DataInv, [Next]_vars
  PROVE  left' \in 0 .. Budget
<1>1. Keep \/ Spend => left' \in 0 .. Budget
  BY BoundsAssumption DEF DataInv, Keep, Spend
<1>2. ASSUME NEW s \in Steps, JobEnds(s) \/ JobIsDeleted(s) \/ CacheCatchesUp(s) \/ executeStep(s)
      PROVE  Keep \/ Spend
  BY <1>2 DEF JobEnds, JobIsDeleted, CacheCatchesUp, executeStep, Keep
<1>3. CASE UserEdits \/ Crash \/ Initialize \/ createResourceTemplates \/ EndInitialize
  BY <1>1, <1>3 DEF UserEdits, Crash, Initialize, createResourceTemplates, EndInitialize, Keep
<1>4. CASE Reconcile \/ EndReconcile \/ createJobForStep
  BY <1>1, <1>4 DEF Reconcile, EndReconcile, createJobForStep, Keep
<1>5. CASE HandleParameter
  BY <1>1, <1>5 DEF HandleParameter
<1>6. CASE UNCHANGED vars
  BY <1>1, <1>6 DEF vars, Keep
<1> QED BY <1>1, <1>2, <1>3, <1>4, <1>5, <1>6 DEF Next

(* The Jobs: JobEnds, JobIsDeleted, CacheCatchesUp and createJobForStep,    *)
(* which creates a Job for a step of the flow.                              *)
LEMMA ClusterStep ==
  ASSUME DataInv, [Next]_vars
  PROVE  flow' = flow /\ ClusterType'
<1> USE DEF DataInv, ClusterType
<1>1. ASSUME UNCHANGED <<flow, cluster>> PROVE flow' = flow /\ ClusterType'
  BY <1>1 DEF cluster
<1>2. ASSUME NEW s \in Steps, JobEnds(s) PROVE flow' = flow /\ ClusterType'
  BY <1>2 DEF JobEnds, JobStates
<1>3. ASSUME NEW s \in Steps, JobIsDeleted(s) PROVE flow' = flow /\ ClusterType'
  BY <1>3 DEF JobIsDeleted, JobStates
<1>4. ASSUME NEW s \in Steps, CacheCatchesUp(s) PROVE flow' = flow /\ ClusterType'
  BY <1>4 DEF CacheCatchesUp
<1>5. ASSUME NEW s \in Steps, executeStep(s) PROVE UNCHANGED <<flow, cluster>>
  BY <1>5 DEF executeStep
<1>6. CASE UserEdits \/ Crash \/ Initialize \/ createResourceTemplates \/ EndInitialize
  BY <1>1, <1>6 DEF UserEdits, Crash, Initialize, createResourceTemplates, EndInitialize
<1>7. CASE Reconcile \/ EndReconcile \/ HandleParameter
  BY <1>1, <1>7 DEF Reconcile, EndReconcile, HandleParameter
<1>8. CASE createJobForStep
  <2>1. worker.step \in DOMAIN flow.deps /\ worker.step \in Steps
    BY <1>8, FlowShape DEF createJobForStep, WorkerType, Preparing
  <2>2. CASE UNCHANGED <<jobs, made>>
    BY <1>1, <1>8, <2>2 DEF createJobForStep, cluster
  <2>3. CASE jobs' = [jobs EXCEPT ![worker.step] = "active"]
    BY <1>8, <2>1, <2>3 DEF createJobForStep, JobStates
  <2> QED BY <1>8, <2>2, <2>3 DEF createJobForStep
<1>9. CASE UNCHANGED vars
  BY <1>1, <1>9 DEF vars
<1> QED BY <1>1, <1>2, <1>3, <1>4, <1>5, <1>6, <1>7, <1>8, <1>9 DEF Next

----------------------------------------------------------------------------
(* The worker and its copy.                                                 *)

CopyInv == WorkerType /\ CopiesType

LEMMA CopyUnchanged ==
  ASSUME DataInv, UNCHANGED <<flow, worker, copy, stored>>
  PROVE  CopyInv'
BY DEF DataInv, CopyInv, WorkerType, CopiesType

(* Back to rest, with or without a write of the status.                     *)
LEMMA AbortStep ==
  ASSUME DataInv, Abort, UNCHANGED stored \/ stored' = {copy}
  PROVE  CopyInv'
<1>1. WorkerType'
  BY DEF Abort, WorkerType, WorkerFields, Idle, Preparing
<1>2. CopiesType'
  BY FreshType DEF Abort, CopiesType, DataInv
<1> QED BY <1>1, <1>2 DEF CopyInv

(* Back to the loop.                                                        *)
LEMMA LoopType ==
  ASSUME DataInv, flow' = flow, worker' = Loop(worker),
         StatusesType(copy)', UNCHANGED stored \/ stored' = {copy}
  PROVE  CopyInv'
<1>1. WorkerType'
  BY DEF DataInv, WorkerType, WorkerFields, Loop, Idle, Preparing
<1>2. CopiesType'
  BY DEF Loop, Idle, CopiesType, DataInv
<1> QED BY <1>1, <1>2 DEF CopyInv

(* On with a step.                                                          *)
LEMMA CallType ==
  ASSUME DataInv, flow' = flow, stored' = stored, StatusesType(copy)',
         DOMAIN worker' = WorkerFields, worker'.at \in Preparing,
         worker'.next \in Nat \ {0}, worker'.ready \subseteq DOMAIN flow.deps,
         worker'.step \in DOMAIN flow.deps
  PROVE  CopyInv'
<1>1. WorkerType'
  BY DEF WorkerType
<1>2. CopiesType'
  BY DEF DataInv, CopiesType, Preparing
<1> QED BY <1>1, <1>2 DEF CopyInv

LEMMA FailsStep ==
  ASSUME DataInv, flow' = flow, NEW s \in Steps, StepFails(s, copy), UNCHANGED stored
  PROVE  CopyInv'
<1>1. CASE worker' = Loop(worker) /\ copy' = [copy EXCEPT ![s].phase = "Failed"]
  <2>1. StatusType([copy[s] EXCEPT !.phase = "Failed"])
    BY NewPhase DEF DataInv, CopiesType, StatusesType, StepPhases
  <2>2. StatusesType(copy')
    BY <1>1, <2>1, NewStatus DEF DataInv, CopiesType
  <2> QED BY <1>1, <2>2, LoopType
<1>2. CASE Abort
  BY <1>2, AbortStep
<1> QED BY <1>1, <1>2 DEF StepFails

(* On the way through initializeJobFlow the copy is as new.                 *)
LEMMA InitializeType ==
  ASSUME DataInv, Initialize \/ createResourceTemplates \/ EndInitialize
  PROVE  CopyInv'
<1> USE DEF DataInv, CopyInv, WorkerType, CopiesType, WorkerFields, Preparing
<1>1. CASE Initialize
  BY <1>1 DEF Initialize, Idle
<1>2. CASE createResourceTemplates
  BY <1>2 DEF createResourceTemplates, Idle
<1>3. CASE EndInitialize
  BY <1>3, FreshType DEF EndInitialize, Idle
<1> QED BY <1>1, <1>2, <1>3

LEMMA RefreshType ==
  ASSUME DataInv, NEW steps, StatusesType(steps)
  PROVE  StatusesType(refreshStepStatuses(steps))
<1> DEFINE copied == refreshStepStatuses(steps)
<1>1. DOMAIN copied = Steps
  BY DEF refreshStepStatuses
<1>2. ASSUME NEW s \in Steps PROVE StatusType(copied[s])
  <2>1. StatusType(steps[s])
    BY DEF StatusesType
  <2>2. CASE ~steps[s].jobRef
    BY <2>1, <2>2 DEF refreshStepStatuses
  <2>3. CASE steps[s].jobRef
    <3>1. PICK phase \in StepPhases : copied[s] = [steps[s] EXCEPT !.phase = phase]
      BY <2>3 DEF refreshStepStatuses, StepPhases
    <3> QED BY <2>1, <2>3, <3>1, NewPhase
  <2>4. steps[s].jobRef \in BOOLEAN
    BY <2>1 DEF StatusType
  <2> QED BY <2>2, <2>3, <2>4
<1> QED BY <1>1, <1>2 DEF StatusesType

LEMMA LoopSteps ==
  ASSUME DataInv, Crash \/ Reconcile \/ EndReconcile
  PROVE  CopyInv'
<1>1. CASE Crash
  BY <1>1, AbortStep DEF Crash
<1>2. CASE Reconcile
  <2>1. PICK steps \in stored : copy' = refreshStepStatuses(steps)
    BY <1>2 DEF Reconcile
  <2>2. StatusesType(copy')
    BY <2>1, RefreshType DEF DataInv, CopiesType
  <2>3. /\ worker' = [Idle EXCEPT !.at = "loop", !.ready = createExecutionPlan(copy')]
        /\ flow' = flow /\ stored' = stored
    BY <1>2 DEF Reconcile
  <2>4. createExecutionPlan(copy') \subseteq DOMAIN flow.deps
    BY DEF createExecutionPlan
  <2>5. WorkerType'
    BY <2>3, <2>4 DEF WorkerType, WorkerFields, Idle, Preparing
  <2>6. CopiesType'
    BY <2>2, <2>3 DEF DataInv, CopiesType, Idle
  <2> QED BY <2>5, <2>6 DEF CopyInv
<1>3. CASE EndReconcile
  BY <1>3, AbortStep DEF EndReconcile
<1> QED BY <1>1, <1>2, <1>3

LEMMA ExecuteType ==
  ASSUME DataInv, NEW s \in Steps, executeStep(s)
  PROVE  CopyInv'
<1>1. s \in worker.ready /\ flow' = flow /\ stored' = stored /\ copy' = copy
      /\ worker' = [worker EXCEPT !.at = "parameters", !.step = s, !.next = 1,
                                  !.params = <<>>, !.ready = @ \ {s}]
  BY DEF executeStep
<1>2. StatusesType(copy)' /\ DOMAIN worker = WorkerFields
      /\ worker.next \in Nat \ {0} /\ worker.ready \subseteq DOMAIN flow.deps
  BY <1>1 DEF DataInv, CopiesType, StatusesType, WorkerType
<1>3. /\ DOMAIN worker' = WorkerFields /\ worker'.at = "parameters"
      /\ worker'.next = 1
      /\ worker'.ready = worker.ready \ {s} /\ worker'.step = s
  BY <1>1, <1>2 DEF WorkerFields
<1>4. worker'.at \in Preparing
  BY <1>3 DEF Preparing
<1>5. worker'.ready \subseteq DOMAIN flow.deps /\ worker'.step \in DOMAIN flow.deps
      /\ worker'.next \in Nat \ {0}
  BY <1>1, <1>2, <1>3
<1> QED BY <1>1, <1>2, <1>3, <1>4, <1>5, CallType

(* The inputs only move the worker on.                                      *)
LEMMA InputsType ==
  ASSUME DataInv, HandleParameter
  PROVE  CopyInv'
<1>1. worker.at \in Preparing /\ DOMAIN worker = WorkerFields
      /\ worker.next \in Nat \ {0} /\ worker.next + 1 \in Nat \ {0}
  <2>1. worker.at \in Preparing
    BY DEF HandleParameter, Preparing
  <2>2. DOMAIN worker = WorkerFields /\ worker.next \in Nat \ {0}
    BY DEF DataInv, WorkerType
  <2>3. \A n \in Nat \ {0} : n + 1 \in Nat \ {0}
    OBVIOUS
  <2> QED BY <2>1, <2>2, <2>3
<1>2. flow' = flow /\ stored' = stored /\ copy' = copy
  BY DEF HandleParameter
<1>3. \E next \in Nat \ {0} : \E params :
        \/ worker' = [worker EXCEPT !.next = next]
        \/ worker' = [worker EXCEPT !.next = next, !.params = params]
        \/ worker' = [worker EXCEPT !.at = "create", !.next = next]
  <2> DEFINE next == worker.next + 1
  <2>1. next \in Nat \ {0} /\ 1 \in Nat \ {0}
    BY <1>1
  <2>2. \/ worker' = [worker EXCEPT !.next = next]
        \/ \E params : worker' = [worker EXCEPT !.next = next, !.params = params]
        \/ worker' = [worker EXCEPT !.at = "create", !.next = 1]
    BY DEF HandleParameter
  <2> HIDE DEF next
  <2> QED BY <2>1, <2>2
<1>4. /\ DOMAIN worker' = WorkerFields /\ worker'.at \in Preparing
      /\ worker'.next \in Nat \ {0} /\ worker'.ready = worker.ready
      /\ worker'.step = worker.step
  BY <1>1, <1>3 DEF WorkerFields, Preparing
<1>5. StatusesType(copy)' /\ worker.ready \subseteq DOMAIN flow.deps
      /\ worker.step \in DOMAIN flow.deps
  BY <1>1, <1>2 DEF DataInv, WorkerType, CopiesType, StatusesType
<1> QED BY <1>2, <1>4, <1>5, CallType

LEMMA CreateType ==
  ASSUME DataInv, createJobForStep
  PROVE  CopyInv'
<1> DEFINE s == worker.step
<1>1. s \in Steps /\ flow' = flow /\ stored' = stored
  BY FlowShape DEF createJobForStep, DataInv, WorkerType, Preparing
<1>2. StatusesType(copy) /\ StatusType(copy[s])
  BY <1>1 DEF DataInv, CopiesType, StatusesType
<1>3. CASE StepFails(s, copy)
  BY <1>1, <1>3, FailsStep
<1>4. CASE worker' = Loop(worker) /\ copy' = [copy EXCEPT ![s] = Started(@)]
  <2>1. StatusType(Started(copy[s]))
    BY <1>2 DEF Started, StatusType, StepFields, StepPhases
  <2>2. StatusesType(copy')
    BY <1>1, <1>2, <1>4, <2>1, NewStatus
  <2> QED BY <1>1, <1>4, <2>2, LoopType
<1>5. CASE worker' = Loop(worker) /\ copy' = [copy EXCEPT ![s].phase = "Failed"]
  BY <1>1, <1>5, FailsStep DEF StepFails
<1> QED BY <1>3, <1>4, <1>5 DEF createJobForStep

LEMMA DataInit == Init => DataInv
<1> SUFFICES ASSUME Init PROVE DataInv
  OBVIOUS
<1>1. flow \in Flows /\ left \in 0 .. Budget
  BY BoundsAssumption DEF Init
<1>2. WorkerType
  BY DEF Init, Idle, WorkerType, WorkerFields, Preparing
<1>3. ClusterType
  BY DEF Init, ClusterType, JobStates
<1>4. CopiesType
  BY FreshType DEF Init, CopiesType
<1> QED BY <1>1, <1>2, <1>3, <1>4 DEF DataInv

LEMMA DataStep == DataInv /\ [Next]_vars => DataInv'
<1> SUFFICES ASSUME DataInv, [Next]_vars PROVE DataInv'
  OBVIOUS
<1>1. left' \in 0 .. Budget /\ flow' = flow /\ ClusterType'
  BY LeftStep, ClusterStep
<1>2. CopyInv'
  <2>1. ASSUME NEW s \in Steps, JobEnds(s) \/ JobIsDeleted(s) \/ CacheCatchesUp(s)
        PROVE  CopyInv'
    BY <2>1, CopyUnchanged DEF JobEnds, JobIsDeleted, CacheCatchesUp
  <2>2. CASE UserEdits \/ UNCHANGED vars
    BY <2>2, CopyUnchanged DEF UserEdits, vars
  <2> QED
    BY <2>1, <2>2, InitializeType, LoopSteps, ExecuteType, InputsType, CreateType
       DEF Next
<1> QED BY <1>1, <1>2 DEF DataInv, CopyInv

LEMMA DataAlways == Spec => []DataInv
BY DataInit, DataStep, PTL DEF Spec

(* The status the worker holds and the one that is stored have their types, *)
(* and a step is never said to run or to have Succeeded without the Job it  *)
(* refers to.                                                               *)
THEOREM DataTypeCorrect == Spec => []TypeOK
<1>1. DataInv => TypeOK
  <2> SUFFICES ASSUME DataInv PROVE TypeOK
    OBVIOUS
  <2>1. worker.ready \subseteq Steps
    BY FlowShape DEF DataInv, WorkerType
  <2> QED
    BY <2>1 DEF DataInv, TypeOK, WorkerType, ClusterType, CopiesType, StatusesType,
                StatusType, Preparing
<1> QED BY DataAlways, <1>1, PTL
----------------------------------------------------------------------------
(* What planned steps read.  The plan is made from a refresh that saw the   *)
(* Jobs of the dependencies succeeded, and a step that is planned waits in  *)
(* the loop and then reads its inputs, while the cluster goes on.  What     *)
(* carries over from the plan to the reading is that the Job seen then was  *)
(* the first of its step and will not be anything but succeeded or gone.    *)

GiftFields == {"params", "job"}

GiftInv ==
  /\ DOMAIN given = Steps
  /\ \A s \in Steps :
       /\ DOMAIN given[s] = GiftFields
       /\ given[s].job \in {"none", "first", "anew"}
       /\ given[s].job = "none" => /\ jobs[s] = "absent" /\ seen[s] = "absent"
                                   /\ given[s].params = <<>>
       /\ given[s].job = "first" /\ seen[s] \in {"succeeded", "failed"}
            => jobs[s] \in {seen[s], "absent"}

(* The step has had a Job, and if that was its first it has succeeded, and  *)
(* is seen so, unless it was deleted.                                       *)
Done(s) ==
  /\ given[s].job # "none"
  /\ given[s].job = "first" => {jobs[s], seen[s]} \subseteq {"succeeded", "absent"}

(* The steps that were planned and have no Job yet.                         *)
Upcoming ==
  worker.ready \cup {s \in DOMAIN flow.deps : worker.at \in Preparing /\ s = worker.step}

(* The dependencies that must succeed.                                      *)
Required(s) == flow.deps[s] \ flow.continueOnFailure

(* What params say of a first Job of a dependency.                          *)
Told(s, params) ==
  \A from \in Required(s), param \in Range(flow.parameters[s]) :
    given[from].job = "first" /\ ReadFrom(s, param, from) /\ param.name \in DOMAIN params
      => params[param.name] = <<Word("succeeded")>>

ReadInv ==
  /\ GiftInv
  /\ \A s \in Upcoming : \A from \in Required(s) : Done(from)
  /\ worker.at \in Preparing => Told(worker.step, worker.params)
  /\ \A s \in DOMAIN flow.deps : given[s].job # "none" =>
       /\ \A from \in Required(s) : given[from].job # "none"
       /\ Told(s, given[s].params)

(* The action of a step, as far as it is about given, jobs and seen.        *)
LEMMA JobsMove ==
  ASSUME DataInv, [Next]_vars
  PROVE  \/ UNCHANGED <<given, jobs, seen>>
         \/ \E s \in Steps : JobEnds(s) \/ JobIsDeleted(s) \/ CacheCatchesUp(s)
         \/ /\ createJobForStep /\ worker.step \in DOMAIN flow.deps /\ worker.step \in Steps
            /\ jobs[worker.step] = "absent" /\ UNCHANGED seen
            /\ jobs' = [jobs EXCEPT ![worker.step] = "active"]
            /\ given' = [given EXCEPT ![worker.step] =
                           [params |-> worker.params,
                            job |-> IF given[worker.step].job = "none"
                                      THEN "first" ELSE "anew"]]
<1>1. ASSUME NEW s \in Steps, executeStep(s) PROVE UNCHANGED <<given, jobs, seen>>
  BY <1>1 DEF executeStep, cluster
<1>2. CASE UserEdits \/ Crash \/ Initialize \/ createResourceTemplates \/ EndInitialize
  BY <1>2 DEF UserEdits, Crash, Initialize, createResourceTemplates, EndInitialize,
              cluster
<1>3. CASE Reconcile \/ EndReconcile \/ HandleParameter
  BY <1>3 DEF Reconcile, EndReconcile, HandleParameter, cluster
<1>4. CASE UNCHANGED vars
  BY <1>4 DEF vars, cluster
<1>5. CASE createJobForStep
  <2>1. worker.step \in DOMAIN flow.deps /\ worker.step \in Steps
    BY <1>5, FlowShape DEF createJobForStep, DataInv, WorkerType, Preparing
  <2> QED BY <1>5, <2>1 DEF createJobForStep
<1> QED BY <1>1, <1>2, <1>3, <1>4, <1>5 DEF Next

LEMMA GiftStep ==
  ASSUME DataInv, GiftInv, [Next]_vars
  PROVE  GiftInv'
<1> USE DEF GiftInv
<1>1. CASE UNCHANGED <<given, jobs, seen>>
  BY <1>1
<1>2. ASSUME NEW s \in Steps, JobEnds(s) PROVE GiftInv'
  BY <1>2 DEF JobEnds, DataInv, ClusterType
<1>3. ASSUME NEW s \in Steps, JobIsDeleted(s) PROVE GiftInv'
  BY <1>3 DEF JobIsDeleted, DataInv, ClusterType
<1>4. ASSUME NEW s \in Steps, CacheCatchesUp(s) PROVE GiftInv'
  BY <1>4 DEF CacheCatchesUp, DataInv, ClusterType
<1>5. ASSUME NEW s \in Steps, jobs[s] = "absent", UNCHANGED seen,
             jobs' = [jobs EXCEPT ![s] = "active"],
             given' = [given EXCEPT ![s] =
                         [params |-> worker.params,
                          job |-> IF given[s].job = "none" THEN "first" ELSE "anew"]]
      PROVE  GiftInv'
  BY <1>5 DEF GiftFields, DataInv, ClusterType
<1> QED BY <1>1, <1>2, <1>3, <1>4, <1>5, JobsMove

LEMMA DoneStays ==
  ASSUME DataInv, GiftInv, [Next]_vars, NEW d \in Steps, Done(d)
  PROVE  Done(d)'
<1> USE DEF GiftInv, Done
<1>1. CASE UNCHANGED <<given, jobs, seen>>
  BY <1>1
<1>2. ASSUME NEW s \in Steps, JobEnds(s) PROVE Done(d)'
  BY <1>2 DEF JobEnds, DataInv, ClusterType
<1>3. ASSUME NEW s \in Steps, JobIsDeleted(s) PROVE Done(d)'
  BY <1>3 DEF JobIsDeleted, DataInv, ClusterType
<1>4. ASSUME NEW s \in Steps, CacheCatchesUp(s) PROVE Done(d)'
  BY <1>4 DEF CacheCatchesUp, DataInv, ClusterType
<1>5. ASSUME NEW s \in Steps, UNCHANGED seen,
             jobs' = [jobs EXCEPT ![s] = "active"],
             given' = [given EXCEPT ![s] =
                         [params |-> worker.params,
                          job |-> IF given[s].job = "none" THEN "first" ELSE "anew"]]
      PROVE  Done(d)'
  BY <1>5 DEF DataInv, ClusterType
<1> QED BY <1>1, <1>2, <1>3, <1>4, <1>5, JobsMove

(* A Job is the first of its step only if the step had none.                *)
LEMMA FirstJobs ==
  ASSUME DataInv, GiftInv, [Next]_vars, NEW d \in Steps, given[d].job # "none"
  PROVE  given'[d].job # "none" /\ (given'[d].job = "first" => given[d].job = "first")
<1>1. ASSUME NEW s \in Steps, JobEnds(s) \/ JobIsDeleted(s) \/ CacheCatchesUp(s)
      PROVE  given' = given
  BY <1>1 DEF JobEnds, JobIsDeleted, CacheCatchesUp
<1> QED BY <1>1, JobsMove DEF GiftInv

LEMMA ToldStays ==
  ASSUME DataInv, GiftInv, [Next]_vars, NEW s \in DOMAIN flow.deps, NEW params,
         \A from \in Required(s) : given[from].job # "none", Told(s, params)
  PROVE  Told(s, params)'
<1>1. flow' = flow /\ Required(s) \subseteq Steps
  BY ClusterStep, FlowShape DEF DataInv, Required
<1>2. \A from \in Required(s) : given'[from].job = "first" => given[from].job = "first"
  BY <1>1, FirstJobs
<1> QED BY <1>1, <1>2 DEF Told, ReadFrom, Required

(* How the worker gets from one step to another.                            *)
WorkerMoved ==
  /\ worker'.ready \subseteq worker.ready
  /\ worker'.at \in Preparing =>
       \/ /\ worker.at \in Preparing /\ worker'.step = worker.step
          /\ worker'.params = worker.params \/ HandleParameter
       \/ worker'.params = <<>> /\ worker'.step \in worker.ready

LEMMA WorkerMoves ==
  ASSUME DataInv, [Next]_vars, ~Reconcile
  PROVE  WorkerMoved
<1>0. DOMAIN worker = WorkerFields
  BY DEF DataInv, WorkerType
<1>1. CASE worker' = worker
  BY <1>1 DEF WorkerMoved, Preparing
<1>2. CASE worker' = Idle \/ worker' = [Idle EXCEPT !.at = "init"]
  BY <1>2 DEF WorkerMoved, Idle, Preparing
<1>3. CASE worker' = Loop(worker)
  BY <1>3 DEF WorkerMoved, Loop, Idle, Preparing
<1>4. ASSUME NEW s, StepFails(s, copy) PROVE WorkerMoved
  BY <1>2, <1>3, <1>4 DEF StepFails, Abort
<1>5. ASSUME NEW s \in Steps, JobEnds(s) \/ JobIsDeleted(s) \/ CacheCatchesUp(s)
      PROVE  WorkerMoved
  BY <1>1, <1>5 DEF JobEnds, JobIsDeleted, CacheCatchesUp
<1>6. CASE UserEdits \/ Crash \/ Initialize \/ EndInitialize \/ EndReconcile \/ UNCHANGED vars
  BY <1>1, <1>2, <1>6 DEF UserEdits, Crash, Initialize, EndInitialize, EndReconcile, Abort, vars
<1>7. CASE createResourceTemplates
  <2>1. CASE worker' = [worker EXCEPT !.next = @ + 1]
    BY <1>0, <1>7, <2>1 DEF createResourceTemplates, WorkerMoved, WorkerFields, Preparing
  <2> QED BY <1>2, <1>7, <2>1 DEF createResourceTemplates
<1>8. ASSUME NEW s \in Steps, executeStep(s) PROVE WorkerMoved
  <2>1. s \in worker.ready /\ worker'.at = "parameters" /\ worker'.step = s
        /\ worker'.params = <<>> /\ worker'.ready = worker.ready \ {s}
    BY <1>0, <1>8 DEF executeStep, WorkerFields
  <2> QED BY <2>1 DEF WorkerMoved
<1>9. CASE HandleParameter
  <2>1. /\ worker'.ready = worker.ready /\ worker'.step = worker.step
        /\ worker'.at \in {"parameters", "create"} /\ worker.at = "parameters"
    BY <1>0, <1>9 DEF HandleParameter, WorkerFields
  <2> QED BY <1>9, <2>1 DEF WorkerMoved, Preparing
<1>10. CASE createJobForStep
  BY <1>3, <1>4, <1>10 DEF createJobForStep
<1> QED
  BY <1>5, <1>6, <1>7, <1>8, <1>9, <1>10 DEF Next

(* A step that is Succeeded in a refreshed status is done.                  *)
LEMMA SeenDone ==
  ASSUME DataInv, GiftInv, NEW d \in Steps, seen[d] = "succeeded"
  PROVE  Done(d)
BY DEF DataInv, ClusterType, GiftInv, Done

LEMMA RefreshedDone ==
  ASSUME DataInv, GiftInv, NEW steps \in stored, NEW d \in Steps,
         refreshStepStatuses(steps)[d].phase = "Succeeded"
  PROVE  Done(d)
<1>1. StatusType(steps[d])
  BY DEF DataInv, CopiesType, StatusesType
<1>2. steps[d].jobRef
  BY <1>1 DEF StatusType, refreshStepStatuses
<1>3. seen[d] = "succeeded"
  BY <1>1, <1>2 DEF StatusType, StepFields, refreshStepStatuses
<1> QED BY <1>3, SeenDone

LEMMA UpcomingStep ==
  ASSUME DataInv, ReadInv, [Next]_vars
  PROVE  \A s \in Upcoming' : \A from \in Required(s)' : Done(from)'
<1>1. flow' = flow
  BY ClusterStep
<1> SUFFICES ASSUME NEW s \in Upcoming', NEW from \in Required(s) PROVE Done(from)'
  BY <1>1 DEF Required
<1>2. CASE Reconcile
  <2>1. PICK steps \in stored :
          /\ copy' = refreshStepStatuses(steps)
          /\ worker' = [Idle EXCEPT !.at = "loop", !.ready = createExecutionPlan(copy')]
    BY <1>2 DEF Reconcile
  <2>2. s \in createExecutionPlan(copy')
    BY <2>1 DEF Upcoming, Idle, Preparing
  <2>3. s \in DOMAIN flow.deps /\ copy'[from].phase = "Succeeded"
    BY <2>2 DEF createExecutionPlan, CompletedSteps, Required
  <2>4. from \in Steps
    BY <2>3, FlowShape DEF DataInv, Required
  <2>5. Done(from)
    BY <2>1, <2>3, <2>4, RefreshedDone DEF ReadInv
  <2> QED BY <2>4, <2>5, DoneStays DEF ReadInv
<1>3. CASE ~Reconcile
  <2>1. WorkerMoved
    BY <1>3, WorkerMoves
  <2>2. s \in Upcoming /\ s \in DOMAIN flow.deps
    BY <1>1, <2>1 DEF Upcoming, WorkerMoved, DataInv, WorkerType
  <2>3. from \in Steps /\ Done(from)
    BY <2>2, FlowShape DEF DataInv, ReadInv, Required
  <2> QED BY <2>3, DoneStays DEF ReadInv
<1> QED BY <1>2, <1>3

(* What is resolved for a parameter that is read from a dependency.         *)
LEMMA ResolvedRead ==
  ASSUME DataInv, NEW s \in DOMAIN flow.deps, NEW from \in Required(s), NEW param,
         ReadFrom(s, param, from), given[from].job = "first", Done(from),
         NEW value \in resolveParameter(param)
  PROVE  value = <<Word("succeeded")>>
<1>1. PICK source \in param.valueFrom : \E path \in source.jsonPath : \E t \in path.prefix :
        value \in extractParameterFromJobOutput(t, path.field)
  <2>1. param.value = {}
    BY DEF ReadFrom
  <2> DEFINE maps(source)    == UNION {resolveParameterFromConfigMap(ref) :
                                         ref \in source.configMapKeyRef}
             secrets(source) == UNION {getSecretValue(ref) : ref \in source.secretKeyRef}
             outputs(source) == UNION {UNION {extractParameterFromJobOutput(t, path.field) :
                                                t \in path.prefix} : path \in source.jsonPath}
             all(source)     == maps(source) \cup secrets(source) \cup outputs(source)
  <2>2. resolveParameter(param) = param.value \cup UNION {all(source) : source \in param.valueFrom}
    BY DEF resolveParameter
  <2>3. ASSUME NEW source \in param.valueFrom
        PROVE  maps(source) = {} /\ secrets(source) = {}
    <3>1. source.configMapKeyRef = {} /\ source.secretKeyRef = {}
      BY DEF ReadFrom
    <3> QED BY <3>1
  <2> HIDE DEF all
  <2>4. PICK source \in param.valueFrom : value \in all(source)
    BY <2>1, <2>2
  <2> USE DEF all
  <2> HIDE DEF maps, secrets
  <2>5. value \in outputs(source)
    BY <2>3, <2>4
  <2> QED BY <2>5
<1>2. PICK field : value \in extractParameterFromJobOutput(from, field)
  BY <1>1 DEF ReadFrom
<1>3. seen[from] = "succeeded"
  BY <1>2 DEF extractParameterFromJobOutput, Done
<1> QED BY <1>2, <1>3 DEF extractParameterFromJobOutput, evaluateJSONPath

LEMMA HandleParameterTells ==
  ASSUME DataInv, HandleParameter, NEW s, s = worker.step,
         \A from \in Required(s) : Done(from), Told(s, worker.params)
  PROVE  Told(s, worker'.params)
<1> DEFINE parameters == flow.parameters[s]
           param      == parameters[worker.next]
<1>1. s \in DOMAIN flow.deps /\ IsList(parameters) /\ DOMAIN worker = WorkerFields
      /\ worker.next \in Nat \ {0}
  BY FlowShape DEF HandleParameter, DataInv, WorkerType, Preparing
<1>2. CASE worker'.params = worker.params
  BY <1>2
<1>3. ASSUME worker.next <= Len(parameters), NEW value \in resolveParameter(param),
             worker'.params = Assign(worker.params, param.name, value)
      PROVE  Told(s, worker'.params)
  <2>1. param \in Range(parameters)
    BY <1>1, <1>3, ListElement
  <2> SUFFICES ASSUME NEW from \in Required(s), NEW other \in Range(parameters),
                      given[from].job = "first", ReadFrom(s, other, from),
                      other.name \in DOMAIN worker'.params
               PROVE  worker'.params[other.name] = <<Word("succeeded")>>
    BY DEF Told
  <2>2. CASE other.name = param.name
    <3>1. param = other
      BY <2>1, <2>2 DEF ReadFrom
    <3>2. value = <<Word("succeeded")>>
      BY <1>1, <1>3, <3>1, ResolvedRead
    <3> QED BY <1>3, <2>2, <3>2 DEF Assign
  <2>3. CASE other.name # param.name
    BY <1>3, <2>3 DEF Assign, Told
  <2> QED BY <2>2, <2>3
<1>4. \/ worker'.params = worker.params
      \/ /\ worker.next <= Len(parameters)
         /\ \E value \in resolveParameter(param) :
              worker'.params = Assign(worker.params, param.name, value)
  <2>1. \/ worker' = [worker EXCEPT !.next = @ + 1]
        \/ worker' = [worker EXCEPT !.at = "create", !.next = 1]
        \/ /\ worker.next <= Len(parameters)
           /\ \E value \in resolveParameter(param) :
                worker' = [worker EXCEPT !.next = @ + 1,
                                         !.params = Assign(@, param.name, value)]
    BY DEF HandleParameter
  <2> QED BY <1>1, <2>1 DEF WorkerFields
<1> QED BY <1>2, <1>3, <1>4

LEMMA PreparingStep ==
  ASSUME DataInv, ReadInv, [Next]_vars, worker'.at \in Preparing
  PROVE  Told(worker.step, worker.params)'
<1>1. ~Reconcile /\ flow' = flow
  BY ClusterStep DEF Reconcile, Idle, Preparing
<1>2. WorkerMoved
  BY <1>1, WorkerMoves
<1>3. PICK s : s = worker'.step
  OBVIOUS
<1>4. PICK params : params = worker'.params
  OBVIOUS
<1>5. s \in DOMAIN flow.deps /\ s \in Upcoming
  BY <1>2, <1>3 DEF WorkerMoved, Upcoming, DataInv, WorkerType
<1>6. \A from \in Required(s) : Done(from)
  BY <1>5 DEF ReadInv
<1>7. Told(s, params)
  <2>1. CASE worker'.params = <<>>
    BY <1>4, <2>1 DEF Told
  <2>2. CASE /\ worker.at \in Preparing /\ worker'.step = worker.step
             /\ worker'.params = worker.params
    BY <1>3, <1>4, <2>2 DEF ReadInv
  <2>3. CASE /\ worker.at \in Preparing /\ worker'.step = worker.step
             /\ HandleParameter
    <3>1. Told(s, worker.params)
      BY <1>3, <2>3 DEF ReadInv
    <3> QED BY <1>3, <1>4, <1>6, <2>3, <3>1, HandleParameterTells
  <2> QED BY <1>2, <2>1, <2>2, <2>3 DEF WorkerMoved
<1>8. Told(s, params)'
  BY <1>5, <1>6, <1>7, ToldStays DEF ReadInv, Done
<1> QED BY <1>3, <1>4, <1>8 DEF Told

LEMMA GivenStep ==
  ASSUME DataInv, ReadInv, [Next]_vars, NEW s \in DOMAIN flow.deps, given'[s].job # "none"
  PROVE  /\ \A from \in Required(s) : given'[from].job # "none"
         /\ Told(s, given[s].params)'
<1>1. PICK params : params = given'[s].params
  OBVIOUS
<1>2. s \in Steps /\ Required(s) \subseteq Steps
  BY FlowShape DEF DataInv, Required
<1>3. (\A from \in Required(s) : given[from].job # "none") /\ Told(s, params)
  <2>1. CASE given'[s] = given[s]
    BY <1>1, <2>1 DEF ReadInv
  <2>2. CASE createJobForStep /\ s = worker.step /\ given'[s].params = worker.params
    <3>1. worker.at \in Preparing
      BY <2>2 DEF createJobForStep, Preparing
    <3>2. s \in Upcoming
      BY <2>2, <3>1 DEF Upcoming
    <3>3. Told(s, params)
      BY <1>1, <2>2, <3>1 DEF ReadInv
    <3> QED BY <3>2, <3>3 DEF ReadInv, Done
  <2>3. ASSUME NEW t \in Steps, JobEnds(t) \/ JobIsDeleted(t) \/ CacheCatchesUp(t)
        PROVE  given' = given
    BY <2>3 DEF JobEnds, JobIsDeleted, CacheCatchesUp
  <2>4. ASSUME given'[s] # given[s]
        PROVE  createJobForStep /\ s = worker.step /\ given'[s].params = worker.params
    <3>1. /\ createJobForStep
          /\ given' = [given EXCEPT ![worker.step] =
                         [params |-> worker.params,
                          job |-> IF given[worker.step].job = "none"
                                    THEN "first" ELSE "anew"]]
      BY <2>3, <2>4, JobsMove
    <3>2. DOMAIN given = Steps
      BY DEF ReadInv, GiftInv
    <3>3. s = worker.step
      BY <1>2, <2>4, <3>1, <3>2
    <3>4. given'[s] = [params |-> worker.params,
                       job |-> IF given[s].job = "none" THEN "first" ELSE "anew"]
      BY <1>2, <3>1, <3>2, <3>3
    <3>5. given'[s].params = worker.params
      BY <3>4
    <3> QED BY <3>1, <3>3, <3>5
  <2> QED BY <2>1, <2>2, <2>4
<1>4. Told(s, params)'
  BY <1>3, ToldStays DEF ReadInv
<1>5. \A from \in Required(s) : given'[from].job # "none"
  BY <1>2, <1>3, FirstJobs DEF ReadInv
<1> QED BY <1>1, <1>4, <1>5 DEF Told

LEMMA ReadInit == Init => ReadInv
<1> SUFFICES ASSUME Init PROVE ReadInv
  OBVIOUS
<1>1. GiftInv
  BY DEF Init, GiftInv, GiftFields, NoGift
<1>2. worker.at = "idle" /\ worker.ready = {} /\ Upcoming = {}
  BY DEF Init, Idle, Upcoming, Preparing
<1>3. \A s \in Steps : given[s].job = "none"
  BY DEF Init, NoGift
<1>4. DOMAIN flow.deps \subseteq Steps
  BY FlowShape DEF Init
<1> QED BY <1>1, <1>2, <1>3, <1>4 DEF ReadInv, Preparing

LEMMA ReadStep == DataInv /\ ReadInv /\ [Next]_vars => ReadInv'
<1> SUFFICES ASSUME DataInv, ReadInv, [Next]_vars PROVE ReadInv'
  OBVIOUS
<1>1. GiftInv' /\ flow' = flow
  BY GiftStep, ClusterStep DEF ReadInv
<1>2. (\A s \in Upcoming : \A from \in Required(s) : Done(from))'
  BY <1>1, UpcomingStep
<1>3. (worker.at \in Preparing => Told(worker.step, worker.params))'
  BY PreparingStep
<1>4. (\A s \in DOMAIN flow.deps : given[s].job # "none" =>
         (\A from \in Required(s) : given[from].job # "none") /\ Told(s, given[s].params))'
  BY <1>1, GivenStep DEF Required
<1> QED BY <1>1, <1>2, <1>3, <1>4 DEF ReadInv

LEMMA ReadAlways == Spec => [](DataInv /\ ReadInv)
<1>1. Init => DataInv /\ ReadInv
  BY DataInit, ReadInit
<1>2. DataInv /\ ReadInv /\ [Next]_vars => (DataInv /\ ReadInv)'
  BY DataStep, ReadStep
<1> QED BY <1>1, <1>2, PTL DEF Spec

(* A step that reads the Job of a dependency that may not fail reads that   *)
(* it succeeded, however the cache lags behind and whatever happens between *)
(* the plan and the reading, as long as that Job is the first of its step.  *)
THEOREM DependenciesAreReadAtTheirEnd == Spec => []DependencyIsReadAtItsEnd
<1>1. DataInv /\ ReadInv => DependencyIsReadAtItsEnd
  <2> SUFFICES ASSUME DataInv, ReadInv, NEW s \in DOMAIN flow.deps, NEW from \in flow.deps[s],
                      NEW param \in Range(flow.parameters[s]),
                      from \notin flow.continueOnFailure, given[from].job = "first",
                      ReadFrom(s, param, from), param.name \in DOMAIN given[s].params
               PROVE  given[s].params[param.name] = <<Word("succeeded")>>
    BY DEF DependencyIsReadAtItsEnd
  <2>1. s \in Steps /\ from \in Required(s)
    BY FlowShape DEF DataInv, Required
  <2>2. given[s].job # "none"
    BY <2>1 DEF ReadInv, GiftInv
  <2> QED BY <2>1, <2>2 DEF ReadInv, Told
<1> QED BY ReadAlways, <1>1, PTL
----------------------------------------------------------------------------
(* What the Job of a step carries.  Pasting one parameter after the other,  *)
(* and one form of place after the other, fills all places as if they were  *)
(* filled at once, provided that no value holds a place (FillTwice): the    *)
(* order is of no account then.  With this each of the three ways from the  *)
(* template to the Job leads to one result (SubstitutedIsFilled).           *)

(* Induction over numbers and over sequences, of a set that is closed.      *)

LEMMA Induction ==
  ASSUME NEW Q, 0 \in Q, \A k \in Nat : k \in Q => k + 1 \in Q
  PROVE  \A k \in Nat : k \in Q
<1> SUFFICES ASSUME Nat \ Q # {} PROVE FALSE
  OBVIOUS
<1>1. PICK k \in Nat \ Q : \A j \in Nat \ Q : ~(j < k)
  <2>1. \E k \in Nat \ Q : \A j \in Nat \ Q : ~(<<j, k>> \in OpToRel(<, Nat))
    BY WFMin, NatLessThanWellFounded
  <2> QED BY <2>1 DEF OpToRel
<1>2. k # 0 /\ k - 1 \in Nat
  OBVIOUS
<1>3. k - 1 \in Q
  BY <1>1, <1>2
<1> QED BY <1>2, <1>3

(* A sequence that is not empty is one with an element appended.            *)
LEMMA SeqInduction ==
  ASSUME NEW A, NEW Q, <<>> \in Q,
         \A t \in Seq(A) : \A e \in A : t \in Q => Append(t, e) \in Q
  PROVE  \A t \in Seq(A) : t \in Q
<1> DEFINE Upto == {k \in Nat : \A t \in Seq(A) : Len(t) = k => t \in Q}
<1>1. 0 \in Upto
  BY EmptySeq
<1>2. ASSUME NEW k \in Nat, k \in Upto
      PROVE  k + 1 \in Upto
  <2> SUFFICES ASSUME NEW t \in Seq(A), Len(t) = k + 1 PROVE t \in Q
    OBVIOUS
  <2> DEFINE u == [i \in 1 .. k |-> t[i]]
             e == t[k + 1]
  <2>1. \A i \in 1 .. k + 1 : t[i] \in A
    BY ElementOfSeq
  <2>2. u \in Seq(A) /\ Len(u) = k /\ e \in A /\ \A i \in 1 .. k : u[i] = t[i]
    <3>1. u \in [1 .. k -> A]
      BY <2>1
    <3>2. u \in Seq(A)
      BY <3>1, SeqDef
    <3>3. DOMAIN u = 1 .. Len(u) /\ Len(u) \in Nat /\ DOMAIN u = 1 .. k
      BY <3>2, LenProperties
    <3>4. Len(u) = k
      BY <3>3
    <3> QED BY <2>1, <3>2, <3>4
  <2> HIDE DEF u
  <2>3. Append(u, e) = t
    <3>1. /\ Append(u, e) \in Seq(A) /\ Len(Append(u, e)) = k + 1
          /\ \A i \in 1 .. k : Append(u, e)[i] = u[i]
          /\ Append(u, e)[k + 1] = e
      BY <2>2, AppendProperties
    <3>2. \A i \in 1 .. k + 1 : Append(u, e)[i] = t[i]
      BY <2>2, <3>1
    <3> QED BY <3>1, <3>2, SeqEqual
  <2>4. u \in Q
    BY <1>2, <2>2
  <2> QED BY <2>2, <2>3, <2>4
<1> HIDE DEF Upto
<1>3. \A k \in Nat : k \in Upto
  BY <1>1, <1>2, Induction
<1> QED BY <1>3, LenProperties DEF Upto

(* FlattenSeq, from the left.                                               *)
Flattened(f, seqs) ==
  f = [i \in 1 .. Len(seqs) |-> IF i = 1 THEN seqs[i] ELSE f[i - 1] \o seqs[i]]

LEMMA FlattenExists ==
  ASSUME NEW S, NEW seqs \in Seq(S)
  PROVE  \E f : Flattened(f, seqs)
<1> DEFINE Q == {s \in Seq(S) : \E f : Flattened(f, s)}
<1>1. <<>> \in Q
  <2>1. Len(<<>>) = 0 /\ <<>> \in Seq(S)
    BY EmptySeq
  <2>2. Flattened([i \in 1 .. 0 |-> 0], <<>>)
    BY <2>1 DEF Flattened
  <2> QED BY <2>1, <2>2
<1>2. ASSUME NEW t \in Seq(S), NEW e \in S, t \in Q
      PROVE  Append(t, e) \in Q
  <2>1. PICK f : Flattened(f, t)
    BY <1>2
  <2> DEFINE n == Len(t)
             g == [i \in 1 .. n + 1 |-> IF i \in 1 .. n THEN f[i]
                                        ELSE IF n = 0 THEN e ELSE f[n] \o e]
             u == Append(t, e)
  <2>2. /\ u \in Seq(S) /\ Len(u) = n + 1 /\ n \in Nat /\ u[n + 1] = e
        /\ \A i \in 1 .. n : u[i] = t[i]
    BY AppendProperties, LenProperties
  <2> HIDE DEF n, u
  <2>3. \A i \in 1 .. n : f[i] = IF i = 1 THEN t[i] ELSE f[i - 1] \o t[i]
    BY <2>1 DEF Flattened, n
  <2>4. \A i \in 1 .. n + 1 : g[i] = IF i = 1 THEN u[i] ELSE g[i - 1] \o u[i]
    <3> TAKE i \in 1 .. n + 1
    <3>1. CASE i \in 1 .. n
      BY <2>2, <2>3, <3>1
    <3>2. CASE i = n + 1
      BY <2>2, <3>2
    <3> QED BY <2>2, <3>1, <3>2
  <2>5. Flattened(g, u)
    BY <2>2, <2>4 DEF Flattened
  <2> HIDE DEF g
  <2> QED BY <2>2, <2>5 DEF u
<1> HIDE DEF Q
<1>3. seqs \in Q
  BY <1>1, <1>2, SeqInduction
<1> QED BY <1>3 DEF Q

LEMMA FlattenIs ==
  ASSUME NEW S, NEW seqs \in Seq(S), Len(seqs) # 0
  PROVE  \E f : Flattened(f, seqs) /\ FlattenSeq(seqs) = f[Len(seqs)]
<1>1. PICK g : Flattened(g, seqs)
  BY FlattenExists
<1> QED BY <1>1 DEF FlattenSeq, Flattened

LEMMA FlattenEmpty == FlattenSeq(<<>>) = <<>>
BY EmptySeq DEF FlattenSeq

LEMMA FlattenAppend ==
  ASSUME NEW A, NEW seqs \in Seq(Seq(A)), NEW x \in Seq(A), FlattenSeq(seqs) \in Seq(A)
  PROVE  FlattenSeq(Append(seqs, x)) = FlattenSeq(seqs) \o x
<1> DEFINE n == Len(seqs)
           u == Append(seqs, x)
<1>1. /\ u \in Seq(Seq(A)) /\ Len(u) = n + 1 /\ n \in Nat /\ u[n + 1] = x
      /\ \A i \in 1 .. n : u[i] = seqs[i]
  BY AppendProperties, LenProperties
<1> HIDE DEF u
<1>2. PICK g : Flattened(g, u) /\ FlattenSeq(u) = g[n + 1]
  BY <1>1, FlattenIs
<1>3. \A i \in 1 .. n + 1 : g[i] = IF i = 1 THEN u[i] ELSE g[i - 1] \o u[i]
  BY <1>1, <1>2 DEF Flattened
<1>4. CASE n = 0
  <2>1. seqs = <<>>
    BY <1>4, EmptySeq
  <2>2. FlattenSeq(u) = x
    BY <1>1, <1>2, <1>3, <1>4
  <2> QED BY <2>1, <2>2, FlattenEmpty, ConcatEmptySeq DEF u
<1>5. CASE n # 0
  <2>1. PICK f : Flattened(f, seqs) /\ FlattenSeq(seqs) = f[n]
    BY <1>5, FlattenIs
  <2>2. \A i \in 1 .. n : f[i] = IF i = 1 THEN seqs[i] ELSE f[i - 1] \o seqs[i]
    BY <2>1 DEF Flattened
  <2> DEFINE Q == {k \in Nat : k \in 1 .. n => f[k] = g[k]}
  <2>3. 0 \in Q
    OBVIOUS
  <2>4. ASSUME NEW k \in Nat, k \in Q PROVE k + 1 \in Q
    BY <1>1, <1>3, <2>2, <2>4
  <2> HIDE DEF Q
  <2>5. n \in Q
    BY <1>1, <2>3, <2>4, Induction
  <2>6. f[n] = g[n]
    BY <1>1, <1>5, <2>5 DEF Q
  <2>7. g[n + 1] = g[n] \o x
    <3>1. n + 1 \in 1 .. n + 1 /\ n + 1 # 1 /\ (n + 1) - 1 = n
      BY <1>1, <1>5
    <3> QED BY <1>1, <1>3, <3>1
  <2> QED BY <1>2, <2>1, <2>6, <2>7 DEF u
<1> QED BY <1>4, <1>5

----------------------------------------------------------------------------
LEMMA SameLength ==
  ASSUME NEW a \in Nat, NEW b \in Nat, 1 .. a = 1 .. b
  PROVE  a = b
OBVIOUS

(* A text in which the places of M are filled.                              *)
Piece(e, M, params) == IF e \in M THEN params[e.name] ELSE <<e>>
Fill(t, M, params) == FlattenSeq([i \in DOMAIN t |-> Piece(t[i], M, params)])

ValuesIn(A, M, params) == \A m \in M : params[m.name] \in Seq(A)

LEMMA PieceType ==
  ASSUME NEW A, NEW M, NEW params, ValuesIn(A, M, params), NEW e \in A
  PROVE  Piece(e, M, params) \in Seq(A)
<1>1. <<e>> \in Seq(A)
  OBVIOUS
<1> QED BY <1>1 DEF Piece, ValuesIn

LEMMA FillEmpty ==
  ASSUME NEW M, NEW params
  PROVE  Fill(<<>>, M, params) = <<>>
<1>1. [i \in DOMAIN <<>> |-> Piece(<<>>[i], M, params)] = <<>>
  OBVIOUS
<1> QED BY <1>1, FlattenEmpty DEF Fill

LEMMA FillStep ==
  ASSUME NEW A, NEW M, NEW params, ValuesIn(A, M, params),
         NEW t \in Seq(A), NEW e \in A, Fill(t, M, params) \in Seq(A)
  PROVE  Fill(Append(t, e), M, params) = Fill(t, M, params) \o Piece(e, M, params)
<1> DEFINE n == Len(t)
           u == Append(t, e)
           before == [i \in DOMAIN t |-> Piece(t[i], M, params)]
           after == [i \in DOMAIN u |-> Piece(u[i], M, params)]
<1>1. /\ n \in Nat /\ DOMAIN t = 1 .. n /\ DOMAIN u = 1 .. n + 1
      /\ \A i \in 1 .. n : t[i] \in A /\ u[i] = t[i]
      /\ u[n + 1] = e /\ u \in Seq(A)
  BY AppendProperties, LenProperties, ElementOfSeq
<1> HIDE DEF u, n
<1>2. before \in Seq(Seq(A)) /\ Len(before) = n
  <2>1. before \in [1 .. n -> Seq(A)]
    BY <1>1, PieceType
  <2>2. before \in Seq(Seq(A))
    BY <1>1, <2>1, SeqDef
  <2>3. DOMAIN before = 1 .. Len(before) /\ Len(before) \in Nat /\ DOMAIN before = 1 .. n
    BY <1>1, <2>2, LenProperties
  <2>4. Len(before) = n
    <3>1. 1 .. Len(before) = 1 .. n /\ n \in Nat
      BY <1>1, <2>3
    <3> HIDE DEF before
    <3> QED BY <2>3, <3>1, SameLength
  <2> QED BY <2>2, <2>4
<1>3. after \in Seq(Seq(A)) /\ Len(after) = n + 1
  <2>1. \A i \in 1 .. n + 1 : u[i] \in A
    BY <1>1
  <2>2. after \in [1 .. n + 1 -> Seq(A)]
    BY <1>1, <2>1, PieceType
  <2>3. after \in Seq(Seq(A))
    BY <1>1, <2>2, SeqDef
  <2>4. DOMAIN after = 1 .. Len(after) /\ Len(after) \in Nat /\ DOMAIN after = 1 .. n + 1
    BY <1>1, <2>3, LenProperties
  <2>5. Len(after) = n + 1
    <3>1. 1 .. Len(after) = 1 .. n + 1 /\ n + 1 \in Nat
      BY <1>1, <2>4
    <3> HIDE DEF after
    <3> QED BY <2>4, <3>1, SameLength
  <2> QED BY <2>3, <2>5
<1>4. after = Append(before, Piece(e, M, params))
  <2>1. Piece(e, M, params) \in Seq(A)
    BY PieceType
  <2>2. /\ Append(before, Piece(e, M, params)) \in Seq(Seq(A))
        /\ Len(Append(before, Piece(e, M, params))) = n + 1
        /\ \A i \in 1 .. n : Append(before, Piece(e, M, params))[i] = before[i]
        /\ Append(before, Piece(e, M, params))[n + 1] = Piece(e, M, params)
    BY <1>2, <2>1, AppendProperties
  <2>3. /\ \A i \in 1 .. n : after[i] = Piece(t[i], M, params) /\ before[i] = Piece(t[i], M, params)
        /\ after[n + 1] = Piece(e, M, params)
    BY <1>1
  <2> HIDE DEF before, after
  <2>4. \A i \in 1 .. n + 1 : after[i] = Append(before, Piece(e, M, params))[i]
    <3> TAKE i \in 1 .. n + 1
    <3>1. i \in 1 .. n \/ i = n + 1
      BY <1>1
    <3> QED BY <2>2, <2>3, <3>1
  <2> QED BY <1>3, <2>2, <2>4, SeqEqual
<1>5. Piece(e, M, params) \in Seq(A) /\ FlattenSeq(before) \in Seq(A)
  BY PieceType DEF Fill
<1> HIDE DEF before, after
<1>6. FlattenSeq(after) = FlattenSeq(before) \o Piece(e, M, params)
  BY <1>2, <1>4, <1>5, FlattenAppend
<1> QED BY <1>6 DEF Fill, before, after, u

LEMMA FillType ==
  ASSUME NEW A, NEW M, NEW params, ValuesIn(A, M, params), NEW t \in Seq(A)
  PROVE  Fill(t, M, params) \in Seq(A)
<1> DEFINE Q == {u \in Seq(A) : Fill(u, M, params) \in Seq(A)}
<1>1. <<>> \in Q
  BY FillEmpty, EmptySeq
<1>2. ASSUME NEW u \in Seq(A), NEW e \in A, u \in Q PROVE Append(u, e) \in Q
  <2>1. Fill(Append(u, e), M, params) = Fill(u, M, params) \o Piece(e, M, params)
    BY <1>2, FillStep
  <2>2. Fill(u, M, params) \o Piece(e, M, params) \in Seq(A)
    BY <1>2, PieceType, ConcatProperties
  <2>3. Append(u, e) \in Seq(A)
    BY AppendProperties
  <2> QED BY <2>1, <2>2, <2>3
<1> HIDE DEF Q
<1>3. t \in Q
  BY <1>1, <1>2, SeqInduction
<1> QED BY <1>3 DEF Q

LEMMA FillAppend ==
  ASSUME NEW A, NEW M, NEW params, ValuesIn(A, M, params), NEW t \in Seq(A), NEW e \in A
  PROVE  Fill(Append(t, e), M, params) = Fill(t, M, params) \o Piece(e, M, params)
BY FillStep, FillType

(* Concatenation takes an element after the other. *)
LEMMA ConcatAppend ==
  ASSUME NEW A, NEW u \in Seq(A), NEW v \in Seq(A), NEW e \in A
  PROVE  /\ u \o Append(v, e) = Append(u \o v, e)
         /\ Append(u, e) = u \o <<e>>
<1>1. \A w \in Seq(A) : Append(w, e) = w \o <<e>>
  BY AppendIsConcat
<1>2. u \o v \in Seq(A) /\ <<e>> \in Seq(A)
  BY ConcatProperties
<1>3. u \o (v \o <<e>>) = (u \o v) \o <<e>>
  BY <1>2, ConcatAssociative
<1> QED BY <1>1, <1>2, <1>3

LEMMA FillConcat ==
  ASSUME NEW A, NEW M, NEW params, ValuesIn(A, M, params), NEW u \in Seq(A), NEW v \in Seq(A)
  PROVE  Fill(u \o v, M, params) = Fill(u, M, params) \o Fill(v, M, params)
<1> DEFINE F(t) == Fill(t, M, params)
           Q == {w \in Seq(A) : F(u \o w) = F(u) \o F(w)}
<1>1. <<>> \in Q
  <2>1. F(<<>>) = <<>> /\ F(u) \in Seq(A)
    BY FillEmpty, FillType
  <2>2. u \o <<>> = u /\ F(u) \o <<>> = F(u)
    BY <2>1, ConcatEmptySeq
  <2>3. <<>> \in Seq(A)
    BY EmptySeq
  <2> QED BY <2>1, <2>2, <2>3
<1>2. ASSUME NEW w \in Seq(A), NEW e \in A, w \in Q PROVE Append(w, e) \in Q
  <2> DEFINE p == Piece(e, M, params)
  <2>1. u \o w \in Seq(A) /\ F(u) \in Seq(A) /\ F(w) \in Seq(A) /\ p \in Seq(A)
    BY ConcatProperties, FillType, PieceType
  <2>2. u \o Append(w, e) = Append(u \o w, e)
    BY ConcatAppend
  <2>0. \A x \in Seq(A) : F(Append(x, e)) = F(x) \o p
    BY FillAppend
  <2>3. F(Append(u \o w, e)) = F(u \o w) \o p
    BY <2>0, <2>1
  <2>4. F(Append(w, e)) = F(w) \o p
    BY FillAppend
  <2>5. F(u \o w) = F(u) \o F(w)
    BY <1>2
  <2> HIDE DEF F, p
  <2>6. (F(u) \o F(w)) \o p = F(u) \o (F(w) \o p)
    BY <2>1, ConcatAssociative
  <2>7. Append(w, e) \in Seq(A)
    BY AppendProperties
  <2> QED BY <2>2, <2>3, <2>4, <2>5, <2>6, <2>7
<1> HIDE DEF Q
<1>3. v \in Q
  BY <1>1, <1>2, SeqInduction
<1> QED BY <1>3 DEF Q

(* A text without places of M stays as it is.                               *)
LEMMA FillNothing ==
  ASSUME NEW A, NEW M, A \cap M = {}, NEW params, NEW t \in Seq(A)
  PROVE  Fill(t, M, params) = t
<1> DEFINE Q == {u \in Seq(A) : Fill(u, {}, params) = u}
<1>1. ValuesIn(A, {}, params)
  BY DEF ValuesIn
<1>2. <<>> \in Q
  BY FillEmpty, EmptySeq
<1>3. ASSUME NEW u \in Seq(A), NEW e \in A, u \in Q PROVE Append(u, e) \in Q
  <2>1. Fill(Append(u, e), {}, params) = Fill(u, {}, params) \o Piece(e, {}, params)
    BY <1>1, FillAppend
  <2>2. Piece(e, {}, params) = <<e>>
    BY DEF Piece
  <2>3. Append(u, e) = u \o <<e>> /\ Append(u, e) \in Seq(A)
    BY ConcatAppend, AppendProperties
  <2> QED BY <1>3, <2>1, <2>2, <2>3
<1> HIDE DEF Q
<1>4. Fill(t, {}, params) = t
  <2>1. t \in Q
    BY <1>2, <1>3, SeqInduction
  <2> QED BY <2>1 DEF Q
<1>5. \A i \in DOMAIN t : Piece(t[i], M, params) = Piece(t[i], {}, params)
  <2>1. \A i \in DOMAIN t : t[i] \in A
    BY LenProperties
  <2> QED BY <2>1 DEF Piece
<1> QED BY <1>4, <1>5 DEF Fill

(* Places are filled one set after the other, where the values hold none.   *)
LEMMA FillTwice ==
  ASSUME NEW A, NEW M1, NEW M2, NEW params, NEW W, W \subseteq A, W \cap M2 = {},
         ValuesIn(W, M1, params), ValuesIn(A, M2, params), NEW t \in Seq(A)
  PROVE  Fill(Fill(t, M1, params), M2, params) = Fill(t, M1 \cup M2, params)
<1> DEFINE F(u) == Fill(u, M1, params)
           G(u) == Fill(u, M2, params)
           H(u) == Fill(u, M1 \cup M2, params)
           Q == {u \in Seq(A) : G(F(u)) = H(u)}
<1>1. ValuesIn(A, M1, params) /\ ValuesIn(A, M1 \cup M2, params)
  BY SeqMonotonic DEF ValuesIn
<1>2. <<>> \in Q
  BY FillEmpty, EmptySeq
<1>3. ASSUME NEW u \in Seq(A), NEW e \in A, u \in Q PROVE Append(u, e) \in Q
  <2> DEFINE p == Piece(e, M1, params)
  <2>1. F(Append(u, e)) = F(u) \o p /\ F(u) \in Seq(A) /\ p \in Seq(A)
    <3>1. \A x \in Seq(A) : F(Append(x, e)) = F(x) \o p
      BY <1>1, FillAppend
    <3>2. F(u) \in Seq(A)
      BY <1>1, FillType
    <3>3. p \in Seq(A)
      BY <1>1, PieceType
    <3> QED BY <3>1, <3>2, <3>3
  <2>2. G(F(u) \o p) = G(F(u)) \o G(p)
    BY <2>1, FillConcat
  <2>3. G(p) = Piece(e, M1 \cup M2, params)
    <3>1. CASE e \in M1
      <4>1. p = params[e.name] /\ p \in Seq(W)
        BY <3>1 DEF Piece, ValuesIn
      <4>2. G(p) = p
        BY <4>1, FillNothing
      <4> QED BY <3>1, <4>1, <4>2 DEF Piece
    <3>2. CASE e \notin M1
      <4>1. p = <<e>>
        BY <3>2 DEF Piece
      <4>2. <<e>> = Append(<<>>, e) /\ <<>> \in Seq(A)
        BY EmptySeq
      <4>3. G(Append(<<>>, e)) = G(<<>>) \o Piece(e, M2, params)
        <5>1. \A x \in Seq(A) : G(Append(x, e)) = G(x) \o Piece(e, M2, params)
          BY FillAppend
        <5> QED BY <4>2, <5>1
      <4>4. <<>> \o Piece(e, M2, params) = Piece(e, M2, params)
        BY PieceType, ConcatEmptySeq
      <4>5. Piece(e, M2, params) = Piece(e, M1 \cup M2, params)
        BY <3>2 DEF Piece
      <4> QED BY <4>1, <4>2, <4>3, <4>4, <4>5, FillEmpty
    <3> QED BY <3>1, <3>2
  <2>4. H(Append(u, e)) = H(u) \o Piece(e, M1 \cup M2, params)
    <3>1. \A N : ValuesIn(A, N, params) =>
            \A x \in Seq(A) : Fill(Append(x, e), N, params)
                               = Fill(x, N, params) \o Piece(e, N, params)
      BY FillAppend
    <3> QED BY <1>1, <3>1
  <2>5. G(F(u)) = H(u)
    BY <1>3
  <2>6. Append(u, e) \in Seq(A)
    BY AppendProperties
  <2> HIDE DEF F, G, H, p
  <2>7. G(F(Append(u, e))) = H(Append(u, e))
    BY <2>1, <2>2, <2>3, <2>4, <2>5
  <2> QED BY <2>6, <2>7
<1> HIDE DEF Q
<1>4. t \in Q
  BY <1>2, <1>3, SeqInduction
<1> QED BY <1>4 DEF Q

----------------------------------------------------------------------------
(* The places that substituteParameter knows.                               *)
Marks(names) == {Token(form, name) : form \in {"dot", "bare", "shell"}, name \in names}

(* The values are plain words.                                              *)
WordsOf(params) == UNION {Range(params[name]) : name \in DOMAIN params}
PlainValues(params) ==
  /\ \A name \in DOMAIN params : IsList(params[name])
  /\ \A word \in WordsOf(params) : word.form = "word"

LEMMA PlainText ==
  ASSUME NEW params, PlainValues(params), NEW names \in SUBSET DOMAIN params
  PROVE  /\ ValuesIn(WordsOf(params), Marks(names), params)
         /\ WordsOf(params) \cap Marks(names) = {}
<1>1. \A n \in DOMAIN params : params[n] \in Seq(WordsOf(params))
  <2> TAKE n \in DOMAIN params
  <2>1. params[n] \in Seq(Range(params[n])) /\ Range(params[n]) \subseteq WordsOf(params)
    BY DEF PlainValues, IsList, WordsOf
  <2> QED BY <2>1, SeqMonotonic
<1>2. \A m \in Marks(names) : m.name \in names /\ m.form # "word"
  BY DEF Marks, Token
<1> QED BY <1>1, <1>2 DEF ValuesIn, PlainValues

LEMMA PasteIsFill ==
  ASSUME NEW text, NEW old, NEW params
  PROVE  Paste(text, old, params[old.name]) = Fill(text, {old}, params)
<1>1. \A i \in DOMAIN text : (IF text[i] = old THEN params[old.name] ELSE <<text[i]>>)
                               = Piece(text[i], {old}, params)
  BY DEF Piece
<1> QED BY <1>1 DEF Paste, Fill

LEMMA PasteFormsIsFill ==
  ASSUME NEW params, PlainValues(params), NEW name \in DOMAIN params,
         NEW A, WordsOf(params) \subseteq A, NEW text \in Seq(A)
  PROVE  PasteForms(text, name, params[name]) = Fill(text, Marks({name}), params)
<1> DEFINE W == WordsOf(params)
           D == Token("dot", name)
           B == Token("bare", name)
           S == Token("shell", name)
<1>1. D.name = name /\ B.name = name /\ S.name = name
  BY DEF Token
<1>2. Marks({name}) = {D, B, S}
  BY DEF Marks
<1>3. ValuesIn(W, {D, B, S}, params) /\ W \cap {D, B, S} = {}
  <2>1. \A names \in SUBSET DOMAIN params :
          ValuesIn(W, Marks(names), params) /\ W \cap Marks(names) = {}
    BY PlainText
  <2>2. {name} \in SUBSET DOMAIN params
    OBVIOUS
  <2> HIDE DEF W, D, B, S
  <2> QED BY <1>2, <2>1, <2>2
<1> HIDE DEF W, D, B, S
<1>4. \A M \in SUBSET {D, B, S} : ValuesIn(W, M, params) /\ ValuesIn(A, M, params) /\ W \cap M = {}
  <2>1. W \subseteq A
    BY DEF W
  <2>2. \A x \in Seq(W) : x \in Seq(A)
    BY <2>1, SeqMonotonic
  <2> QED BY <1>3, <2>2 DEF ValuesIn
<1>5. W \subseteq A
  BY DEF W
<1>6. Paste(text, D, params[name]) = Fill(text, {D}, params)
  BY <1>1, PasteIsFill
<1>7. \A t : Paste(t, B, params[name]) = Fill(t, {B}, params)
  BY <1>1, PasteIsFill
<1>8. \A t : Paste(t, S, params[name]) = Fill(t, {S}, params)
  BY <1>1, PasteIsFill
<1>9. Fill(Fill(text, {D}, params), {B}, params) = Fill(text, {D, B}, params)
  <2>1. {D} \cup {B} = {D, B} /\ {D} \in SUBSET {D, B, S} /\ {B} \in SUBSET {D, B, S}
    OBVIOUS
  <2>2. /\ ValuesIn(W, {D}, params) /\ ValuesIn(A, {B}, params) /\ W \cap {B} = {}
    BY <1>4, <2>1
  <2>3. Fill(Fill(text, {D}, params), {B}, params) = Fill(text, {D} \cup {B}, params)
    BY <1>5, <2>2, FillTwice
  <2> QED BY <2>1, <2>3
<1>10. Fill(Fill(text, {D, B}, params), {S}, params) = Fill(text, {D, B, S}, params)
  <2>1. {D, B} \cup {S} = {D, B, S} /\ {D, B} \in SUBSET {D, B, S} /\ {S} \in SUBSET {D, B, S}
    OBVIOUS
  <2>2. /\ ValuesIn(W, {D, B}, params) /\ ValuesIn(A, {S}, params) /\ W \cap {S} = {}
    BY <1>4, <2>1
  <2>3. Fill(Fill(text, {D, B}, params), {S}, params) = Fill(text, {D, B} \cup {S}, params)
    BY <1>5, <2>2, FillTwice
  <2> QED BY <2>1, <2>3
<1>11. PasteForms(text, name, params[name])
       = Paste(Paste(Paste(text, D, params[name]), B, params[name]), S, params[name])
  BY DEF PasteForms, D, B, S
<1> QED BY <1>2, <1>6, <1>7, <1>8, <1>9, <1>10, <1>11

(* One parameter after the other fills the places of all.                   *)
LEMMA SubstituteIsFill ==
  ASSUME NEW params, PlainValues(params), NEW order \in Seq(DOMAIN params),
         NEW A, WordsOf(params) \subseteq A, NEW text \in Seq(A)
  PROVE  substituteParameter(text, params, order) = Fill(text, Marks(Range(order)), params)
<1> DEFINE n == Len(order)
           Upto(k) == {order[j] : j \in 1 .. k}
           Rec(f) == f = [k \in 0 .. n |-> IF k = 0 THEN text
                            ELSE PasteForms(f[k - 1], order[k], params[order[k]])]
           W == WordsOf(params)
<1>1. n \in Nat /\ DOMAIN order = 1 .. n /\ \A j \in 1 .. n : order[j] \in DOMAIN params
  BY LenProperties, ElementOfSeq
<1>2. Upto(n) = Range(order) /\ \A k \in 0 .. n : Upto(k) \in SUBSET DOMAIN params
  BY <1>1 DEF Range
<1>3. W \subseteq A /\ \A names \in SUBSET DOMAIN params :
        /\ ValuesIn(W, Marks(names), params) /\ ValuesIn(A, Marks(names), params)
        /\ W \cap Marks(names) = {}
  <2>1. \A x \in Seq(W) : x \in Seq(A)
    BY SeqMonotonic
  <2>2. \A names \in SUBSET DOMAIN params :
          ValuesIn(W, Marks(names), params) /\ W \cap Marks(names) = {}
    BY PlainText
  <2> HIDE DEF W
  <2>3. \A names \in SUBSET DOMAIN params : ValuesIn(A, Marks(names), params)
    BY <2>1, <2>2 DEF ValuesIn
  <2> QED BY <2>2, <2>3 DEF W
<1> HIDE DEF W
<1>4. Fill(text, Marks(Upto(0)), params) = text
  <2>1. Upto(0) = {}
    OBVIOUS
  <2>2. A \cap Marks({}) = {}
    BY DEF Marks
  <2> QED BY <2>1, <2>2, FillNothing
<1>5. ASSUME NEW k \in 1 .. n
      PROVE  PasteForms(Fill(text, Marks(Upto(k - 1)), params), order[k], params[order[k]])
             = Fill(text, Marks(Upto(k)), params)
  <2> DEFINE M1 == Marks(Upto(k - 1))
             M2 == Marks({order[k]})
  <2>1. k - 1 \in 0 .. n /\ order[k] \in DOMAIN params /\ {order[k]} \in SUBSET DOMAIN params
    BY <1>1
  <2>2. /\ ValuesIn(W, M1, params) /\ ValuesIn(A, M1, params)
        /\ ValuesIn(A, M2, params) /\ W \cap M2 = {}
    BY <1>2, <1>3, <2>1
  <2>3. M1 \cup M2 = Marks(Upto(k))
    <3>1. Upto(k) = Upto(k - 1) \cup {order[k]}
      BY <1>1
    <3> HIDE DEF Upto
    <3> QED BY <3>1 DEF Marks
  <2> HIDE DEF M1, M2
  <2>4. Fill(text, M1, params) \in Seq(A)
    BY <2>2, FillType
  <2>5. PasteForms(Fill(text, M1, params), order[k], params[order[k]])
        = Fill(Fill(text, M1, params), M2, params)
    <3>1. \A t \in Seq(A) : \A name \in DOMAIN params :
            PasteForms(t, name, params[name]) = Fill(t, Marks({name}), params)
      BY PasteFormsIsFill
    <3> QED BY <2>1, <2>4, <3>1 DEF M2
  <2>6. Fill(Fill(text, M1, params), M2, params) = Fill(text, M1 \cup M2, params)
    BY <1>3, <2>2, FillTwice
  <2> QED BY <2>3, <2>5, <2>6 DEF M1
<1> HIDE DEF n
<1>6. \E f : Rec(f)
  <2> DEFINE f == [k \in 0 .. n |-> Fill(text, Marks(Upto(k)), params)]
  <2>1. ASSUME NEW k \in 0 .. n
        PROVE  f[k] = IF k = 0 THEN text ELSE PasteForms(f[k - 1], order[k], params[order[k]])
    <3>1. CASE k = 0
      BY <1>4, <3>1
    <3>2. CASE k # 0
      <4>1. k \in 1 .. n /\ k - 1 \in 0 .. n
        BY <1>1, <3>2
      <4> HIDE DEF Upto
      <4>2. f[k] = Fill(text, Marks(Upto(k)), params)
            /\ f[k - 1] = Fill(text, Marks(Upto(k - 1)), params)
        BY <4>1
      <4> QED BY <1>5, <3>2, <4>1, <4>2
    <3> QED BY <3>1, <3>2
  <2>2. f = [k \in 0 .. n |-> f[k]]
    OBVIOUS
  <2> HIDE DEF f
  <2>3. Rec(f)
    BY <2>1, <2>2
  <2> QED BY <2>3
<1>7. PICK f : Rec(f) /\ substituteParameter(text, params, order) = f[n]
  <2>1. substituteParameter(text, params, order) = (CHOOSE f : Rec(f))[n]
    BY DEF substituteParameter, n
  <2> HIDE DEF Rec
  <2> QED BY <1>6, <2>1
<1> DEFINE Q == {k \in Nat : k \in 0 .. n => f[k] = Fill(text, Marks(Upto(k)), params)}
<1>8. \A k \in 0 .. n : f[k] = IF k = 0 THEN text
                                 ELSE PasteForms(f[k - 1], order[k], params[order[k]])
  BY <1>7
<1> HIDE DEF Rec, Upto
<1>9. 0 \in Q
  <2>1. 0 \in 0 .. n
    BY <1>1
  <2> QED BY <1>4, <1>8, <2>1
<1>10. ASSUME NEW k \in Nat, k \in Q PROVE k + 1 \in Q
  <2> SUFFICES ASSUME k + 1 \in 0 .. n
               PROVE  f[k + 1] = Fill(text, Marks(Upto(k + 1)), params)
    OBVIOUS
  <2>1. k \in 0 .. n /\ k + 1 \in 1 .. n /\ (k + 1) - 1 = k /\ k + 1 # 0
    BY <1>1
  <2>2. f[k] = Fill(text, Marks(Upto(k)), params)
    BY <1>10, <2>1
  <2>3. f[k + 1] = PasteForms(f[k], order[k + 1], params[order[k + 1]])
    BY <1>8, <2>1
  <2>4. PasteForms(Fill(text, Marks(Upto(k)), params), order[k + 1], params[order[k + 1]])
        = Fill(text, Marks(Upto(k + 1)), params)
    BY <1>5, <2>1
  <2> QED BY <2>2, <2>3, <2>4
<1> HIDE DEF Q
<1>11. n \in Q
  BY <1>1, <1>9, <1>10, Induction
<1>12. f[n] = Fill(text, Marks(Upto(n)), params)
  <2>1. n \in 0 .. n
    BY <1>1
  <2> QED BY <1>11, <2>1 DEF Q
<1> QED BY <1>2, <1>7, <1>12

(* Each order has all names.                                                *)
LEMMA OrdersHaveAll ==
  ASSUME NEW params, IsFiniteSet(DOMAIN params), NEW order \in Orders(params)
  PROVE  order \in Seq(DOMAIN params) /\ Range(order) = DOMAIN params
<1> DEFINE N == Cardinality(DOMAIN params)
<1>1. N \in Nat /\ order \in [1 .. N -> DOMAIN params]
      /\ \A i, j \in 1 .. N : i # j => order[i] # order[j]
  BY FS_CardinalityType DEF Orders, SetToSeqs
<1>2. order \in Seq(DOMAIN params)
  BY <1>1, SeqDef
<1>3. order \in Injection(1 .. N, DOMAIN params)
  BY <1>1 DEF Injection, IsInjective
<1>4. IsFiniteSet(1 .. N) /\ Cardinality(1 .. N) = N
  BY <1>1, FS_Interval
<1>5. order \in Surjection(1 .. N, DOMAIN params)
  BY <1>3, <1>4, FS_Injection
<1>6. Range(order) = DOMAIN params
  BY <1>1, <1>5 DEF Surjection, Range
<1> QED BY <1>2, <1>6

----------------------------------------------------------------------------
LEMMA OrdersExist ==
  ASSUME NEW params, IsFiniteSet(DOMAIN params)
  PROVE  Orders(params) # {}
<1> DEFINE N == Cardinality(DOMAIN params)
<1>1. ExistsBijection(1 .. N, DOMAIN params)
  BY FS_CardinalityType
<1>2. PICK f \in Injection(1 .. N, DOMAIN params) : TRUE
  BY <1>1 DEF ExistsBijection, Bijection
<1>3. f \in Orders(params)
  BY <1>2 DEF Orders, SetToSeqs, Injection, IsInjective
<1> QED BY <1>3

(* What a text must look like in the Job.                                   *)
Filled(text, params) ==
  FlattenSeq([i \in DOMAIN text |->
    IF text[i].form = "word" THEN <<text[i]>> ELSE params[text[i].name]])

LEMMA ListOf ==
  ASSUME NEW A, NEW text \in Seq(A)
  PROVE  IsList(text) /\ Range(text) \subseteq A
<1>1. /\ DOMAIN text = 1 .. Len(text) /\ Len(text) \in Nat
      /\ \A i \in 1 .. Len(text) : text[i] \in A /\ text[i] \in Range(text)
  BY LenProperties, ElementOfSeq DEF Range
<1>2. text \in Seq(Range(text))
  BY <1>1, SeqDef
<1> QED BY <1>1, <1>2 DEF IsList, Range

LEMMA FillInto ==
  ASSUME NEW A, NEW B, NEW M, NEW params, ValuesIn(B, M, params), A \ M \subseteq B,
         NEW t \in Seq(A)
  PROVE  Fill(t, M, params) \in Seq(B)
<1> DEFINE C == A \cup B
           Q == {u \in Seq(A) : Fill(u, M, params) \in Seq(B)}
<1>1. ValuesIn(C, M, params) /\ \A x \in Seq(A) : x \in Seq(C)
  <2>1. \A x \in Seq(B) : x \in Seq(C)
    BY SeqMonotonic
  <2>2. \A x \in Seq(A) : x \in Seq(C)
    BY SeqMonotonic
  <2> QED BY <2>1, <2>2 DEF ValuesIn
<1>2. A \subseteq C
  OBVIOUS
<1> HIDE DEF C
<1>3. <<>> \in Q
  BY FillEmpty, EmptySeq
<1>4. ASSUME NEW u \in Seq(A), NEW e \in A, u \in Q PROVE Append(u, e) \in Q
  <2>1. Fill(Append(u, e), M, params) = Fill(u, M, params) \o Piece(e, M, params)
    <3>1. \A x \in Seq(C) : \A y \in C :
            Fill(Append(x, y), M, params) = Fill(x, M, params) \o Piece(y, M, params)
      BY <1>1, FillAppend
    <3> QED BY <1>1, <1>2, <3>1
  <2>2. Piece(e, M, params) \in Seq(B)
    <3>1. CASE e \in M
      BY <3>1 DEF Piece, ValuesIn
    <3>2. CASE e \notin M
      <4>1. e \in B /\ Piece(e, M, params) = <<e>>
        BY <3>2 DEF Piece
      <4> QED BY <4>1
    <3> QED BY <3>1, <3>2
  <2>3. Fill(u, M, params) \o Piece(e, M, params) \in Seq(B)
    BY <1>4, <2>2, ConcatProperties
  <2>4. Append(u, e) \in Seq(A)
    BY AppendProperties
  <2> QED BY <2>1, <2>3, <2>4
<1> HIDE DEF Q
<1>5. t \in Q
  BY <1>3, <1>4, SeqInduction
<1> QED BY <1>5 DEF Q

LEMMA FillIsFilled ==
  ASSUME NEW text, NEW M, NEW params,
         \A i \in DOMAIN text : text[i] \in M <=> text[i].form # "word"
  PROVE  Fill(text, M, params) = Filled(text, params)
<1>1. \A i \in DOMAIN text :
        Piece(text[i], M, params)
        = IF text[i].form = "word" THEN <<text[i]>> ELSE params[text[i].name]
  BY DEF Piece
<1> QED BY <1>1 DEF Fill, Filled

LEMMA WordsAreFilled ==
  ASSUME NEW text, IsList(text), NEW params, \A token \in Range(text) : token.form = "word"
  PROVE  Filled(text, params) = text
<1>1. \A i \in DOMAIN text : text[i] \in {} <=> text[i].form # "word"
  BY DEF Range
<1>2. Fill(text, {}, params) = Filled(text, params)
  BY <1>1, FillIsFilled
<1>3. Fill(text, {}, params) = text
  <2>1. text \in Seq(Range(text)) /\ Range(text) \cap {} = {}
    BY DEF IsList
  <2> QED BY <2>1, FillNothing
<1> QED BY <1>2, <1>3

(* The tokens of a text are words and places for what there is.             *)
HasPlaces(text, forms, params) ==
  \A token \in Range(text) :
    \/ token.form = "word"
    \/ token.form \in forms /\ token.name \in DOMAIN params

LEMMA FilledIsPlain ==
  ASSUME NEW params, PlainValues(params), NEW text, IsList(text),
         HasPlaces(text, PlaceForms, params)
  PROVE  IsList(Filled(text, params)) /\ \A token \in Range(Filled(text, params)) : token.form = "word"
<1> DEFINE M == {token \in Range(text) : token.form # "word"}
           B == WordsOf(params) \cup {token \in Range(text) : token.form = "word"}
<1>1. \A i \in DOMAIN text : text[i] \in M <=> text[i].form # "word"
  BY DEF Range
<1>2. ValuesIn(B, M, params)
  <2>1. \A n \in DOMAIN params : params[n] \in Seq(B)
    <3> TAKE n \in DOMAIN params
    <3>1. params[n] \in Seq(Range(params[n])) /\ Range(params[n]) \subseteq B
      BY DEF PlainValues, IsList, WordsOf
    <3> QED BY <3>1, SeqMonotonic
  <2> QED BY <2>1 DEF ValuesIn, HasPlaces
<1>3. Range(text) \ M \subseteq B /\ text \in Seq(Range(text))
  BY DEF IsList
<1>4. \A token \in B : token.form = "word"
  BY DEF PlainValues
<1> HIDE DEF M, B
<1>5. Fill(text, M, params) = Filled(text, params)
  BY <1>1, FillIsFilled
<1>6. Filled(text, params) \in Seq(B)
  BY <1>2, <1>3, <1>5, FillInto
<1>7. IsList(Filled(text, params)) /\ Range(Filled(text, params)) \subseteq B
  BY <1>6, ListOf
<1> QED BY <1>4, <1>7

LEMMA SubstituteFills ==
  ASSUME NEW params, IsFiniteSet(DOMAIN params), PlainValues(params),
         NEW order \in Orders(params), NEW text, IsList(text),
         HasPlaces(text, {"dot", "bare", "shell"}, params),
         \A token \in Range(text) : token = Token(token.form, token.name)
  PROVE  substituteParameter(text, params, order) = Filled(text, params)
<1> DEFINE A == WordsOf(params) \cup Range(text)
           M == Marks(DOMAIN params)
<1>1. order \in Seq(DOMAIN params) /\ Range(order) = DOMAIN params
  BY OrdersHaveAll
<1>2. text \in Seq(A) /\ WordsOf(params) \subseteq A
  BY SeqMonotonic DEF IsList
<1> HIDE DEF A
<1>3. substituteParameter(text, params, order) = Fill(text, M, params)
  BY <1>1, <1>2, SubstituteIsFill
<1>4. ASSUME NEW i \in DOMAIN text PROVE text[i] \in M <=> text[i].form # "word"
  <2>1. text[i] \in Range(text)
    BY DEF Range
  <2>2. CASE text[i].form = "word"
    <3>1. \A m \in M : m.form # "word"
      BY DEF Marks, Token
    <3> QED BY <2>2, <3>1
  <2>3. CASE text[i].form # "word"
    <3>1. text[i].form \in {"dot", "bare", "shell"} /\ text[i].name \in DOMAIN params
      BY <2>1, <2>3 DEF HasPlaces
    <3>2. text[i] = Token(text[i].form, text[i].name)
      BY <2>1
    <3> QED BY <2>3, <3>1, <3>2 DEF Marks
  <2> QED BY <2>2, <2>3
<1> HIDE DEF M
<1>5. Fill(text, M, params) = Filled(text, params)
  BY <1>4, FillIsFilled
<1> QED BY <1>3, <1>5

(* A text of words stays as it is.                                          *)
LEMMA SubstituteNothing ==
  ASSUME NEW params, IsFiniteSet(DOMAIN params), PlainValues(params),
         NEW order \in Orders(params), NEW text, IsList(text),
         \A token \in Range(text) : token.form = "word"
  PROVE  substituteParameter(text, params, order) = text
<1> DEFINE A == WordsOf(params) \cup Range(text)
           M == Marks(DOMAIN params)
<1>1. order \in Seq(DOMAIN params) /\ Range(order) = DOMAIN params
  BY OrdersHaveAll
<1>2. text \in Seq(A) /\ WordsOf(params) \subseteq A
  BY SeqMonotonic DEF IsList
<1>3. A \cap M = {}
  <2>1. \A m \in M : m.form # "word"
    BY DEF Marks, Token
  <2>2. \A a \in A : a.form = "word"
    BY DEF PlainValues
  <2> HIDE DEF A, M
  <2> QED BY <2>1, <2>2
<1> HIDE DEF A
<1>4. substituteParameter(text, params, order) = Fill(text, M, params)
  BY <1>1, <1>2, SubstituteIsFill
<1> HIDE DEF M
<1>5. Fill(text, M, params) = text
  BY <1>2, <1>3, FillNothing
<1> QED BY <1>4, <1>5

(* The template of the whole spec.                                          *)
LEMMA ExecuteFills ==
  ASSUME NEW params, NEW text, HasPlaces(text, {"go"}, params)
  PROVE  Execute(text, params) = Filled(text, params)
<1>1. ASSUME NEW i \in DOMAIN text
      PROVE  (IF text[i].form # "go" THEN <<text[i]>>
              ELSE IF text[i].name \in DOMAIN params THEN params[text[i].name]
              ELSE <<NoValue>>)
             = IF text[i].form = "word" THEN <<text[i]>> ELSE params[text[i].name]
  <2>1. text[i] \in Range(text)
    BY DEF Range
  <2>2. text[i].form = "word" \/ (text[i].form = "go" /\ text[i].name \in DOMAIN params)
    BY <2>1 DEF HasPlaces
  <2> QED BY <2>2
<1> QED BY <1>1 DEF Execute, Filled

LEMMA ExecuteNothing ==
  ASSUME NEW params, NEW text, IsList(text), \A token \in Range(text) : token.form # "go"
  PROVE  Execute(text, params) = text
<1>1. \A i \in DOMAIN text :
        (IF text[i].form # "go" THEN <<text[i]>>
         ELSE IF text[i].name \in DOMAIN params THEN params[text[i].name]
         ELSE <<NoValue>>) = Piece(text[i], {}, params)
  BY DEF Piece, Range
<1>2. Execute(text, params) = Fill(text, {}, params)
  BY <1>1 DEF Execute, Fill
<1>3. text \in Seq(Range(text)) /\ Range(text) \cap {} = {}
  BY DEF IsList
<1> QED BY <1>2, <1>3, FillNothing

(* The form of place a regular template keeps to, with what it may name.    *)
Keeps(job, form, params) ==
  /\ HasPlaces(job.args, {form}, params) /\ HasPlaces(job.rest, {form}, params)
  /\ form = "shell" => \A token \in Range(job.rest) : token.form = "word"
  /\ form = "go" => \A token \in Range(job.args) \cup Range(job.rest) :
                      token.form = "word" \/ token.name \in Identifiers

LEMMA RegularKeeps ==
  ASSUME NEW job, Regular(job), NEW params,
         {token.name : token \in Places(job.args) \cup Places(job.rest)} \subseteq DOMAIN params
  PROVE  \E form \in PlaceForms : Keeps(job, form, params)
<1> DEFINE All == Range(job.args) \cup Range(job.rest)
<1>1. PICK form \in PlaceForms :
        /\ {token.form : token \in All} \subseteq {"word", form}
        /\ form = "shell" => Places(job.rest) = {}
        /\ form = "go" => {token.name : token \in Places(job.args) \cup Places(job.rest)}
                            \subseteq Identifiers
  BY DEF Regular
<1>2. \A token \in All : token.form \in {"word", form}
  BY <1>1
<1>3. \A token \in All : token.form # "word" =>
        token \in Places(job.args) \cup Places(job.rest)
  BY <1>2 DEF Places
<1>4. \A token \in Range(job.rest) : token.form # "word" => token \in Places(job.rest)
  BY <1>2 DEF Places
<1>5. \A token \in All : token.form # "word" =>
        token.form = form /\ token.name \in DOMAIN params
  BY <1>2, <1>3
<1>6. HasPlaces(job.args, {form}, params) /\ HasPlaces(job.rest, {form}, params)
  BY <1>5 DEF HasPlaces
<1>7. form = "shell" => \A token \in Range(job.rest) : token.form = "word"
  BY <1>1, <1>4
<1>8. form = "go" => \A token \in All : token.form = "word" \/ token.name \in Identifiers
  BY <1>1, <1>3
<1> QED BY <1>6, <1>7, <1>8 DEF Keeps

LEMMA TemplateShape ==
  ASSUME NEW job, IsTemplate(job)
  PROVE  /\ DOMAIN job = {"args", "rest", "meta"}
         /\ IsList(job.args) /\ IsList(job.rest) /\ IsList(job.meta)
         /\ \A token \in Range(job.args) \cup Range(job.rest) \cup Range(job.meta) :
              token = Token(token.form, token.name) /\ token.form # "raw"
<1>1. DOMAIN job = {"args", "rest", "meta"}
  BY DEF IsTemplate
<1> QED BY <1>1 DEF IsTemplate

(* What is made of a template, in each of the three ways.                   *)
FilledJob(job, params) ==
  [args |-> Filled(job.args, params), rest |-> Filled(job.rest, params), meta |-> job.meta]

LEMMA ExecutedIsFilled ==
  ASSUME NEW job, IsTemplate(job), NEW params, IsFiniteSet(DOMAIN params), PlainValues(params),
         NEW form \in PlaceForms, Keeps(job, form, params), TemplateRuns(job),
         NEW order \in Orders(params)
  PROVE  LET executed == [job EXCEPT !.args = Execute(@, params), !.rest = Execute(@, params)]
         IN  /\ IsJSON(executed)
             /\ [executed EXCEPT !.args = substituteParameter(@, params, order)]
                = FilledJob(job, params)
<1> DEFINE executed == [job EXCEPT !.args = Execute(@, params), !.rest = Execute(@, params)]
           args == Execute(job.args, params)
           rest == Execute(job.rest, params)
           given1 == substituteParameter(args, params, order)
<1>1. /\ executed = [args |-> args, rest |-> rest, meta |-> job.meta]
      /\ [executed EXCEPT !.args = substituteParameter(@, params, order)]
         = [args |-> given1, rest |-> rest, meta |-> job.meta]
  <2>1. job = [args |-> job.args, rest |-> job.rest, meta |-> job.meta]
    BY DEF IsTemplate
  <2>2. executed = [args |-> args, rest |-> rest, meta |-> job.meta]
    <3>1. PICK u, v, w : job = [args |-> u, rest |-> v, meta |-> w]
      BY <2>1
    <3>2. u = job.args /\ v = job.rest /\ w = job.meta
      BY <3>1
    <3>3. PICK half : half = [job EXCEPT !.args = args]
      OBVIOUS
    <3>4. executed = [half EXCEPT !.rest = rest]
      BY <3>3
    <3> HIDE DEF executed, args, rest
    <3>5. half = [args |-> args, rest |-> v, meta |-> w]
      BY <3>1, <3>3
    <3>6. [half EXCEPT !.rest = rest] = [args |-> args, rest |-> rest, meta |-> w]
      BY <3>5
    <3> QED BY <3>2, <3>4, <3>6
  <2> HIDE DEF executed, args, rest
  <2> QED BY <2>2
<1>2. /\ IsList(job.args) /\ IsList(job.rest)
      /\ \A token \in Range(job.args) \cup Range(job.rest) \cup Range(job.meta) :
           token = Token(token.form, token.name) /\ token.form # "raw"
  BY TemplateShape
<1>3. /\ rest = Filled(job.rest, params) /\ given1 = Filled(job.args, params)
      /\ \A token \in Range(args) \cup Range(rest) : token.form # "raw"
  <2>1. CASE form = "go"
    <3>1. HasPlaces(job.args, {"go"}, params) /\ HasPlaces(job.rest, {"go"}, params)
      BY <2>1 DEF Keeps
    <3>2. args = Filled(job.args, params) /\ rest = Filled(job.rest, params)
      BY <3>1, ExecuteFills
    <3>3. HasPlaces(job.args, PlaceForms, params) /\ HasPlaces(job.rest, PlaceForms, params)
      BY <3>1 DEF HasPlaces, PlaceForms
    <3>4. \A text : IsList(text) /\ HasPlaces(text, PlaceForms, params) =>
            /\ IsList(Filled(text, params))
            /\ \A token \in Range(Filled(text, params)) : token.form = "word"
      BY FilledIsPlain
    <3>5. /\ IsList(args)
          /\ \A token \in Range(args) \cup Range(rest) : token.form = "word"
      BY <1>2, <3>2, <3>3, <3>4
    <3> HIDE DEF args, rest
    <3>6. given1 = args
      BY <3>5, SubstituteNothing
    <3> QED BY <3>2, <3>5, <3>6
  <2>2. CASE form # "go"
    <3>1. \A token \in Range(job.args) \cup Range(job.rest) : token.form # "go"
      BY <2>2 DEF Keeps, HasPlaces
    <3>2. args = job.args /\ rest = job.rest
      BY <1>2, <3>1, ExecuteNothing
    <3>3. \A token \in Range(job.rest) : token.form = "word"
      BY <2>2 DEF Keeps, HasPlaces, TemplateRuns, PlaceForms
    <3>4. rest = Filled(job.rest, params)
      BY <1>2, <3>2, <3>3, WordsAreFilled
    <3>5. HasPlaces(job.args, {"dot", "bare", "shell"}, params)
      BY <2>2 DEF Keeps, HasPlaces, PlaceForms
    <3>6. substituteParameter(job.args, params, order) = Filled(job.args, params)
      BY <1>2, <3>5, SubstituteFills
    <3> QED BY <1>2, <3>2, <3>4, <3>6
  <2> QED BY <2>1, <2>2
<1> HIDE DEF args, rest, given1
<1>4. IsJSON(executed)
  <2>1. Tokens(executed) = Range(args) \cup Range(rest) \cup Range(job.meta)
    BY <1>1 DEF Tokens
  <2> QED BY <1>2, <1>3, <2>1 DEF IsJSON
<1> HIDE DEF executed
<1>5. [executed EXCEPT !.args = substituteParameter(@, params, order)] = FilledJob(job, params)
  BY <1>1, <1>3 DEF FilledJob
<1> QED BY <1>4, <1>5 DEF executed

LEMMA PastedIsFilled ==
  ASSUME NEW job, IsTemplate(job), NEW params, IsFiniteSet(DOMAIN params), PlainValues(params),
         NEW form \in PlaceForms, Keeps(job, form, params), ~TemplateRuns(job),
         NEW order \in Orders(params), NEW again \in Orders(params)
  PROVE  LET pasted == [part \in DOMAIN job |-> substituteParameter(job[part], params, order)]
             kept   == [pasted EXCEPT !.meta = job.meta]
         IN  /\ IsJSON(pasted)
             /\ [kept EXCEPT !.args = substituteParameter(@, params, again)]
                = FilledJob(job, params)
<1> DEFINE pasted == [part \in DOMAIN job |-> substituteParameter(job[part], params, order)]
           kept == [pasted EXCEPT !.meta = job.meta]
           sub(text) == substituteParameter(text, params, order)
           twice == substituteParameter(sub(job.args), params, again)
<1>1. /\ DOMAIN job = {"args", "rest", "meta"}
      /\ IsList(job.args) /\ IsList(job.rest) /\ IsList(job.meta)
      /\ \A token \in Range(job.args) \cup Range(job.rest) \cup Range(job.meta) :
           token = Token(token.form, token.name) /\ token.form # "raw"
  BY TemplateShape
<1> HIDE DEF sub
<1>2. pasted = [args |-> sub(job.args), rest |-> sub(job.rest), meta |-> sub(job.meta)]
  BY <1>1 DEF sub
<1> HIDE DEF pasted
<1>3. kept = [args |-> sub(job.args), rest |-> sub(job.rest), meta |-> job.meta]
  BY <1>2
<1> HIDE DEF kept
<1>4. [kept EXCEPT !.args = substituteParameter(@, params, again)]
      = [args |-> twice, rest |-> sub(job.rest), meta |-> job.meta]
  BY <1>3
<1>5. form \in {"dot", "bare"}
  <2>1. form # "go"
    BY DEF Keeps, HasPlaces, TemplateRuns
  <2>2. form # "shell"
    BY DEF Keeps, HasPlaces, TemplateRuns
  <2> QED BY <2>1, <2>2 DEF PlaceForms
<1>6. /\ HasPlaces(job.args, {"dot", "bare", "shell"}, params)
      /\ HasPlaces(job.rest, {"dot", "bare", "shell"}, params)
  BY <1>5 DEF Keeps, HasPlaces
<1>7. sub(job.args) = Filled(job.args, params) /\ sub(job.rest) = Filled(job.rest, params)
  BY <1>1, <1>6, SubstituteFills DEF sub
<1>8. IsList(Filled(job.args, params))
      /\ \A token \in Range(Filled(job.args, params)) : token.form = "word"
  <2>1. HasPlaces(job.args, PlaceForms, params)
    BY <1>6 DEF HasPlaces, PlaceForms
  <2> QED BY <1>1, <2>1, FilledIsPlain
<1>9. twice = Filled(job.args, params)
  BY <1>7, <1>8, SubstituteNothing
<1>10. [kept EXCEPT !.args = substituteParameter(@, params, again)] = FilledJob(job, params)
  BY <1>4, <1>7, <1>9 DEF FilledJob
<1>11. \A text : IsList(text) /\ (\A token \in Range(text) : token.form # "raw") =>
         \A token \in Range(sub(text)) : token.form # "raw"
  <2> SUFFICES ASSUME NEW text, IsList(text), \A token \in Range(text) : token.form # "raw"
               PROVE  \A token \in Range(sub(text)) : token.form # "raw"
    OBVIOUS
  <2> DEFINE A == WordsOf(params) \cup Range(text)
  <2>1. text \in Seq(A) /\ WordsOf(params) \subseteq A
    BY SeqMonotonic DEF IsList
  <2>2. \A token \in A : token.form # "raw"
    BY DEF PlainValues
  <2>3. ValuesIn(WordsOf(params), Marks(DOMAIN params), params)
    BY PlainText
  <2> HIDE DEF A
  <2>4. ValuesIn(A, Marks(DOMAIN params), params)
    <3>1. \A x \in Seq(WordsOf(params)) : x \in Seq(A)
      BY <2>1, SeqMonotonic
    <3> QED BY <2>3, <3>1 DEF ValuesIn
  <2>5. order \in Seq(DOMAIN params) /\ Range(order) = DOMAIN params
    BY OrdersHaveAll
  <2>6. sub(text) = Fill(text, Marks(DOMAIN params), params)
    BY <2>1, <2>5, SubstituteIsFill DEF sub
  <2>7. sub(text) \in Seq(A)
    BY <2>1, <2>4, <2>6, FillType
  <2>8. Range(sub(text)) \subseteq A
    BY <2>7, ListOf
  <2> QED BY <2>2, <2>8
<1>12. IsJSON(pasted)
  <2>1. Tokens(pasted) = Range(sub(job.args)) \cup Range(sub(job.rest)) \cup Range(sub(job.meta))
    BY <1>2 DEF Tokens
  <2>2. \A token \in Range(sub(job.args)) \cup Range(sub(job.rest)) \cup Range(sub(job.meta)) :
          token.form # "raw"
    BY <1>1, <1>11
  <2> QED BY <2>1, <2>2 DEF IsJSON
<1> QED BY <1>10, <1>12 DEF kept, pasted

LEMMA SubstitutedIsFilled ==
  ASSUME NEW job, IsTemplate(job), Regular(job),
         NEW params, IsFiniteSet(DOMAIN params), PlainValues(params),
         {token.name : token \in Places(job.args) \cup Places(job.rest)} \subseteq DOMAIN params,
         NEW x \in Substituted(job, params)
  PROVE  x = FilledJob(job, params)
<1>1. PICK form \in PlaceForms : Keeps(job, form, params)
  BY RegularKeeps
<1>2. /\ job = [args |-> job.args, rest |-> job.rest, meta |-> job.meta]
      /\ IsList(job.args) /\ IsList(job.rest)
  BY TemplateShape DEF IsTemplate
<1>3. CASE params = <<>>
  <2>1. x = job
    BY <1>3 DEF Substituted
  <2>2. \A token \in Range(job.args) \cup Range(job.rest) : token.form = "word"
    BY <1>1, <1>3 DEF Keeps, HasPlaces
  <2>3. Filled(job.args, params) = job.args /\ Filled(job.rest, params) = job.rest
    BY <1>2, <2>2, WordsAreFilled
  <2> QED BY <1>2, <2>1, <2>3 DEF FilledJob
<1>4. CASE params # <<>>
  <2>1. PICK applied \in applyParametersToJobTemplate(job, params) :
          x \in IF applied = {} THEN {job}
                ELSE UNION {applyParametersToContainerArgs(y, params) : y \in applied}
    BY <1>4 DEF Substituted
  <2>2. CASE TemplateRuns(job)
    <3> DEFINE executed == [job EXCEPT !.args = Execute(@, params), !.rest = Execute(@, params)]
    <3>1. \A order \in Orders(params) :
            /\ IsJSON(executed)
            /\ [executed EXCEPT !.args = substituteParameter(@, params, order)]
               = FilledJob(job, params)
      BY <1>1, <2>2, ExecutedIsFilled
    <3>2. applyParametersToJobTemplate(job, params)
          = IF TemplateRuns(job) /\ IsJSON(executed) THEN {{executed}}
            ELSE applyParametersToString(job, params)
      BY DEF applyParametersToJobTemplate
    <3> HIDE DEF executed
    <3>3. Orders(params) # {}
      BY OrdersExist
    <3>4. applied = {executed}
      BY <2>1, <2>2, <3>1, <3>2, <3>3
    <3>5. x \in applyParametersToContainerArgs(executed, params)
      BY <2>1, <3>4
    <3>6. PICK order \in Orders(params) :
            x = [executed EXCEPT !.args = substituteParameter(@, params, order)]
      BY <3>5 DEF applyParametersToContainerArgs
    <3> QED BY <3>1, <3>6
  <2>3. CASE ~TemplateRuns(job)
    <3> DEFINE pasted(order) == [part \in DOMAIN job |-> substituteParameter(job[part], params, order)]
               kept(order) == [pasted(order) EXCEPT !.meta = job.meta]
    <3>1. \A order \in Orders(params) : \A again \in Orders(params) :
            /\ IsJSON(pasted(order))
            /\ [kept(order) EXCEPT !.args = substituteParameter(@, params, again)]
               = FilledJob(job, params)
      BY <1>1, <2>3, PastedIsFilled
    <3>2. applied \in applyParametersToString(job, params)
      BY <2>1, <2>3 DEF applyParametersToJobTemplate
    <3>3. applied \in UNION {IF IsJSON(pasted(order)) THEN {{kept(order)}} ELSE {{}} :
                               order \in Orders(params)}
      BY <3>2 DEF applyParametersToString
    <3> HIDE DEF pasted, kept
    <3>4. PICK order \in Orders(params) : applied = {kept(order)}
      BY <3>1, <3>3
    <3>5. x \in applyParametersToContainerArgs(kept(order), params)
      BY <2>1, <3>4
    <3>6. PICK again \in Orders(params) :
            x = [kept(order) EXCEPT !.args = substituteParameter(@, params, again)]
      BY <3>5 DEF applyParametersToContainerArgs
    <3> QED BY <3>1, <3>6
  <2> QED BY <2>2, <2>3
<1> QED BY <1>3, <1>4

----------------------------------------------------------------------------
(* The texts in the cluster, and what parameters are resolved to.           *)
TextsInv == \A e \in objects : IsList(e.value)

ParamsType(params) ==
  IsFiniteSet(DOMAIN params) /\ \A name \in DOMAIN params : IsList(params[name])

JobsInv ==
  /\ DOMAIN made = Steps /\ DOMAIN given = Steps
  /\ \A s \in Steps : ParamsType(given[s].params)
  /\ \A s \in DOMAIN flow.deps : made[s] # NoJob =>
       made[s] \in Substituted(flow.template[s], given[s].params)

CarryInv == TextsInv /\ ParamsType(worker.params) /\ JobsInv

LEMMA OneToken ==
  ASSUME NEW x
  PROVE  IsList(<<x>>)
<1>1. <<x>> \in Seq({x})
  OBVIOUS
<1> QED BY <1>1, ListOf

LEMMA LookupLists ==
  ASSUME TextsInv, NEW name, NEW kinds, NEW key
  PROVE  \A c \in Lookup(name, kinds, key) : IsList(c)
BY DEF TextsInv, Lookup

LEMMA PutLists ==
  ASSUME TextsInv, NEW entry, IsList(entry.value)
  PROVE  \A e \in Put(entry) : IsList(e.value)
BY DEF TextsInv, Put

LEMMA TextsStep ==
  ASSUME DataInv, TextsInv, [Next]_vars
  PROVE  TextsInv'
<1>1. flow' = flow /\ flow \in Flows
  BY ClusterStep DEF DataInv
<1>2. ASSUME objects' = objects PROVE TextsInv'
  BY <1>2 DEF TextsInv
<1>3. ASSUME NEW s \in Steps, JobEnds(s) \/ JobIsDeleted(s) \/ CacheCatchesUp(s) \/ executeStep(s)
      PROVE  TextsInv'
  BY <1>2, <1>3 DEF JobEnds, JobIsDeleted, CacheCatchesUp, executeStep, storage
<1>4. CASE UserEdits
  <2>1. PICK entry \in Edits : objects' = Put(entry)
    BY <1>4 DEF UserEdits
  <2>2. IsList(entry.value)
    BY TextsAssumption
  <2>3. \A e \in objects' : IsList(e.value)
    BY <2>1, <2>2, PutLists
  <2> QED BY <2>3 DEF TextsInv
<1>5. CASE createResourceTemplates
  <2> DEFINE resource == flow.resources[worker.next]
  <2>1. objects' = objects \/ (objects' = Put(resource) /\ resource.kind # "claim")
    BY <1>5 DEF createResourceTemplates, CreateResource, storage
  <2>2. resource \in Range(flow.resources)
    <3>1. IsList(flow.resources) /\ worker.next \in Nat \ {0}
      BY FlowsAssumption DEF DataInv, WorkerType
    <3> QED BY <1>5, <3>1, ListElement DEF createResourceTemplates
  <2>3. CASE objects' = objects
    BY <1>2, <2>3
  <2>4. CASE objects' = Put(resource) /\ resource.kind # "claim"
    <3>1. IsList(resource.value)
      BY <1>1, <2>2, <2>4, TextsAssumption
    <3>2. \A e \in objects' : IsList(e.value)
      BY <2>4, <3>1, PutLists
    <3> QED BY <3>2 DEF TextsInv
  <2> QED BY <2>1, <2>3, <2>4
<1>6. CASE Crash \/ Initialize \/ EndInitialize \/ Reconcile \/ EndReconcile
  BY <1>2, <1>6 DEF Crash, Initialize, EndInitialize, Reconcile, EndReconcile, storage
<1>7. CASE HandleParameter \/ createJobForStep \/ UNCHANGED vars
  BY <1>2, <1>7 DEF HandleParameter, createJobForStep, storage, vars
<1> QED
  BY <1>3, <1>4, <1>5, <1>6, <1>7 DEF Next

(* The parameters the worker has resolved so far.                           *)
LEMMA ResolvedLists ==
  ASSUME TextsInv, flow \in Flows, NEW s \in DOMAIN flow.deps,
         NEW param \in Range(flow.parameters[s]), NEW value \in resolveParameter(param)
  PROVE  IsList(value)
<1>1. \A c \in param.value : IsList(c)
  BY TextsAssumption
<1>2. \A ref : \A c \in resolveParameterFromConfigMap(ref) \cup getSecretValue(ref) : IsList(c)
  BY LookupLists DEF resolveParameterFromConfigMap, getSecretValue
<1>3. \A t : \A field : \A c \in extractParameterFromJobOutput(t, field) : IsList(c)
  <2> TAKE t
  <2> TAKE field
  <2>1. \A c \in extractParameterFromJobOutput(t, field) : \E job : c = <<Word(job)>>
    BY DEF extractParameterFromJobOutput, evaluateJSONPath
  <2> QED BY <2>1, OneToken
<1>4. \/ value \in param.value
      \/ \E ref : value \in resolveParameterFromConfigMap(ref) \cup getSecretValue(ref)
      \/ \E t : \E field : value \in extractParameterFromJobOutput(t, field)
  BY DEF resolveParameter
<1> QED BY <1>1, <1>2, <1>3, <1>4

LEMMA ParamsMove ==
  ASSUME DataInv, [Next]_vars
  PROVE  worker'.params \in {<<>>, worker.params} \/ HandleParameter
<1>0. DOMAIN worker = WorkerFields
  BY DEF DataInv, WorkerType
<1>1. \A at : \A next : \A ready : [Idle EXCEPT !.at = at, !.next = next, !.ready = ready].params = <<>>
  BY DEF Idle
<1>2. Idle.params = <<>> /\ Loop(worker).params = <<>> /\ [Idle EXCEPT !.at = "init"].params = <<>>
  BY DEF Idle, Loop
<1>3. ASSUME NEW s, StepFails(s, copy) PROVE worker'.params = <<>>
  BY <1>2, <1>3 DEF StepFails, Abort
<1>4. ASSUME NEW s \in Steps, JobEnds(s) \/ JobIsDeleted(s) \/ CacheCatchesUp(s)
      PROVE  worker' = worker
  BY <1>4 DEF JobEnds, JobIsDeleted, CacheCatchesUp
<1>5. ASSUME NEW s \in Steps, executeStep(s) PROVE worker'.params = <<>>
  BY <1>0, <1>5 DEF executeStep, WorkerFields
<1>6. CASE UserEdits \/ UNCHANGED vars
  BY <1>6 DEF UserEdits, vars
<1>7. CASE Crash \/ Initialize \/ EndInitialize \/ EndReconcile
  BY <1>2, <1>7 DEF Crash, Initialize, EndInitialize, EndReconcile, Abort
<1>8. CASE createResourceTemplates
  BY <1>0, <1>2, <1>8 DEF createResourceTemplates, WorkerFields
<1>9. CASE Reconcile
  BY <1>9 DEF Reconcile, Idle
<1>10. CASE createJobForStep
  BY <1>2, <1>3, <1>10 DEF createJobForStep
<1> QED
  BY <1>4, <1>5, <1>6, <1>7, <1>8, <1>9, <1>10 DEF Next

LEMMA NoParams == ParamsType(<<>>)
<1>1. DOMAIN <<>> = {}
  OBVIOUS
<1> QED BY <1>1, FS_EmptySet DEF ParamsType

LEMMA ParamsStep ==
  ASSUME DataInv, TextsInv, ParamsType(worker.params), [Next]_vars
  PROVE  ParamsType(worker'.params)
<1>1. CASE worker'.params \in {<<>>, worker.params}
  BY <1>1, NoParams
<1>2. CASE HandleParameter
  <2> DEFINE parameters == flow.parameters[worker.step]
             param      == parameters[worker.next]
  <2>1. worker.step \in DOMAIN flow.deps /\ flow \in Flows /\ IsList(parameters)
        /\ DOMAIN worker = WorkerFields /\ worker.next \in Nat \ {0}
    BY <1>2, FlowShape DEF HandleParameter, DataInv, WorkerType, Preparing
  <2>2. \/ worker' = [worker EXCEPT !.next = @ + 1]
        \/ worker' = [worker EXCEPT !.at = "create", !.next = 1]
        \/ /\ worker.next <= Len(parameters)
           /\ \E value \in resolveParameter(param) :
                worker' = [worker EXCEPT !.next = @ + 1,
                                         !.params = Assign(@, param.name, value)]
    BY <1>2 DEF HandleParameter
  <2>3. \/ worker'.params = worker.params
        \/ /\ worker.next <= Len(parameters)
           /\ \E value \in resolveParameter(param) :
                worker'.params = Assign(worker.params, param.name, value)
    BY <2>1, <2>2 DEF WorkerFields
  <2>4. ASSUME worker.next <= Len(parameters), NEW value \in resolveParameter(param),
               worker'.params = Assign(worker.params, param.name, value)
        PROVE  ParamsType(worker'.params)
    <3>1. param \in Range(parameters)
      BY <2>1, <2>4, ListElement
    <3>2. IsList(value)
      BY <2>1, <2>4, <3>1, ResolvedLists
    <3> HIDE DEF param
    <3>3. /\ DOMAIN worker'.params = DOMAIN worker.params \cup {param.name}
          /\ \A n \in DOMAIN worker'.params :
               worker'.params[n] = IF n = param.name THEN value ELSE worker.params[n]
      BY <2>4 DEF Assign
    <3>4. IsFiniteSet(DOMAIN worker.params \cup {param.name})
      BY FS_AddElement DEF ParamsType
    <3> QED BY <3>2, <3>3, <3>4 DEF ParamsType
  <2> QED BY <2>3, <2>4
<1> QED BY <1>1, <1>2, ParamsMove

(* A Job changes when it is created, of what the worker has resolved.       *)
LEMMA MadeMoves ==
  ASSUME DataInv, [Next]_vars
  PROVE  UNCHANGED <<made, given>> \/ createJobForStep
<1>1. ASSUME NEW s \in Steps, JobEnds(s) \/ JobIsDeleted(s) \/ CacheCatchesUp(s) \/ executeStep(s)
      PROVE  UNCHANGED <<made, given>>
  BY <1>1 DEF JobEnds, JobIsDeleted, CacheCatchesUp, executeStep, cluster
<1>2. CASE UserEdits \/ Crash \/ Initialize \/ createResourceTemplates \/ EndInitialize
  BY <1>2 DEF UserEdits, Crash, Initialize, createResourceTemplates, EndInitialize,
              cluster
<1>3. CASE Reconcile \/ EndReconcile \/ HandleParameter
  BY <1>3 DEF Reconcile, EndReconcile, HandleParameter, cluster
<1>4. CASE UNCHANGED vars
  BY <1>4 DEF vars, cluster
<1> QED BY <1>1, <1>2, <1>3, <1>4 DEF Next

LEMMA MadeStep ==
  ASSUME DataInv, ParamsType(worker.params), JobsInv, [Next]_vars
  PROVE  JobsInv'
<1>1. flow' = flow
  BY ClusterStep
<1>2. CASE UNCHANGED <<made, given>>
  BY <1>1, <1>2 DEF JobsInv
<1>3. CASE createJobForStep
  <2>1. CASE UNCHANGED <<made, given>>
    BY <1>2, <2>1
  <2> DEFINE s == worker.step
  <2>2. s \in Steps
    BY <1>3, FlowShape DEF createJobForStep, DataInv, WorkerType, Preparing
  <2>3. ASSUME NEW job \in Substituted(flow.template[s], worker.params), NEW gift,
               gift.params = worker.params, made' = [made EXCEPT ![s] = job],
               given' = [given EXCEPT ![s] = gift]
        PROVE  JobsInv'
    <3>1. DOMAIN made' = Steps /\ DOMAIN given' = Steps
      BY <2>3 DEF JobsInv
    <3>2. \A t \in Steps : IF t = s THEN made'[t] = job /\ given'[t] = gift
                           ELSE made'[t] = made[t] /\ given'[t] = given[t]
      BY <2>2, <2>3 DEF JobsInv
    <3>3. \A t \in Steps : ParamsType(given'[t].params)
      BY <2>3, <3>2 DEF JobsInv
    <3>4. ASSUME NEW t \in DOMAIN flow.deps, made'[t] # NoJob
          PROVE  made'[t] \in Substituted(flow.template[t], given'[t].params)
      <4>1. t \in Steps
        BY FlowShape DEF DataInv
      <4>2. CASE t = s
        BY <2>3, <3>2, <4>1, <4>2
      <4>3. CASE t # s
        BY <3>2, <3>4, <4>1, <4>3 DEF JobsInv
      <4> QED BY <4>2, <4>3
    <3>5. \A t \in Steps : ParamsType(given[t].params)'
      BY <3>3 DEF ParamsType
    <3>6. \A t \in DOMAIN flow.deps : made'[t] # NoJob =>
            (made[t] \in Substituted(flow.template[t], given[t].params))'
      BY <1>1, <3>4
    <3> QED BY <1>1, <3>1, <3>5, <3>6 DEF JobsInv
  <2>4. \/ UNCHANGED <<made, given>>
        \/ \E job \in Substituted(flow.template[s], worker.params) : \E gift :
             /\ gift.params = worker.params
             /\ made' = [made EXCEPT ![s] = job] /\ given' = [given EXCEPT ![s] = gift]
    <3> DEFINE gift == [params |-> worker.params,
                        job |-> IF given[s].job = "none" THEN "first" ELSE "anew"]
    <3>1. gift.params = worker.params
      OBVIOUS
    <3>2. \/ UNCHANGED <<made, given>>
          \/ \E job \in Substituted(flow.template[s], worker.params) :
               made' = [made EXCEPT ![s] = job] /\ given' = [given EXCEPT ![s] = gift]
      BY <1>3 DEF createJobForStep
    <3> HIDE DEF gift
    <3> QED BY <3>1, <3>2
  <2> QED BY <2>1, <2>3, <2>4
<1> QED BY <1>2, <1>3, MadeMoves

LEMMA CarryInit == Init => CarryInv
<1> SUFFICES ASSUME Init PROVE CarryInv
  OBVIOUS
<1>1. TextsInv
  <2>1. flow \in Flows /\ objects = flow.objects
    BY DEF Init
  <2> QED BY <2>1, TextsAssumption DEF TextsInv
<1>2. worker.params = <<>> /\ \A s \in Steps : given[s].params = <<>>
  BY DEF Init, Idle, NoGift
<1>3. DOMAIN made = Steps /\ DOMAIN given = Steps /\ \A s \in Steps : made[s] = NoJob
  BY DEF Init
<1>4. DOMAIN flow.deps \subseteq Steps
  BY FlowShape DEF Init
<1> QED BY <1>1, <1>2, <1>3, <1>4, NoParams DEF CarryInv, JobsInv

(* The Job of a step carries the values that were read for it, for every    *)
(* number of parameters, in whatever order they are pasted, for every       *)
(* regular template and every text of a value that is made of words.        *)
THEOREM JobsCarryTheirParameters == Spec => []JobCarriesItsParameters
<1>1. Init => DataInv /\ CarryInv
  BY DataInit, CarryInit
<1>2. DataInv /\ CarryInv /\ [Next]_vars => (DataInv /\ CarryInv)'
  <2> SUFFICES ASSUME DataInv, CarryInv, [Next]_vars PROVE DataInv' /\ CarryInv'
    OBVIOUS
  <2>1. DataInv'
    BY DataStep
  <2>2. TextsInv' /\ JobsInv'
    BY TextsStep, MadeStep DEF CarryInv
  <2>3. ParamsType(worker'.params)
    BY ParamsStep DEF CarryInv
  <2>4. ParamsType(worker.params)'
    BY <2>3 DEF ParamsType
  <2> QED BY <2>1, <2>2, <2>4 DEF CarryInv
<1>3. DataInv /\ CarryInv => JobCarriesItsParameters
  <2> SUFFICES ASSUME DataInv, CarryInv, NEW s \in DOMAIN flow.deps,
                      made[s] # NoJob, Regular(flow.template[s]),
                      {token.name : token \in Places(flow.template[s].args)
                                              \cup Places(flow.template[s].rest)}
                        \subseteq DOMAIN given[s].params,
                      \A name \in DOMAIN given[s].params :
                        \A token \in Range(given[s].params[name]) : token.form = "word"
               PROVE  made[s] = FilledJob(flow.template[s], given[s].params)
    BY DEF JobCarriesItsParameters, FilledJob, Filled
  <2>1. flow \in Flows /\ s \in Steps
    BY FlowShape DEF DataInv
  <2>2. IsTemplate(flow.template[s])
    BY <2>1, TextsAssumption
  <2>3. ParamsType(given[s].params)
        /\ made[s] \in Substituted(flow.template[s], given[s].params)
    BY <2>1 DEF CarryInv, JobsInv
  <2>4. PlainValues(given[s].params)
    BY <2>3 DEF PlainValues, ParamsType, WordsOf
  <2> QED BY <2>2, <2>3, <2>4, SubstitutedIsFilled DEF ParamsType
<1> QED BY <1>1, <1>2, <1>3, PTL DEF Spec
=============================================================================
