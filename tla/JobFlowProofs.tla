--------------------------- MODULE JobFlowProofs ---------------------------
(***************************************************************************)
(* For every flow, policy and bound: what JobFlow's variables hold, and    *)
(* what is known of the steps that a worker plans.                         *)
(***************************************************************************)
EXTENDS JobFlowProperties, FiniteSetTheorems, SequenceTheorems, TLAPS

----------------------------------------------------------------------------
(* What the methods of the reconciler return is a JobFlow again.            *)

LEMMA NewStepType == NewStep \in StepStatus
  BY DEF NewStep, StepStatus, StepPhases, Times, NoTime

LEMMA NewFlowType == NewFlow \in Flow /\ NoFlow \in Flow
<1>1. NewStep \in StepStatus
  BY NewStepType
<1>2. <<>> \in Seq(Condition)
  BY EmptySeq
<1>3. NewFlow \in Flow
  BY <1>1, <1>2 DEF NewFlow, Flow, FlowPhases, Times
<1> QED
  BY <1>3 DEF NoFlow, Flow

LEMMA ValidType ==
  ASSUME NEW f \in Flow, NEW v \in BOOLEAN
  PROVE  [f EXCEPT !.valid = v] \in Flow
  BY DEF Flow

LEMMA InitializeType ==
  ASSUME NEW f \in Flow, now \in Nat
  PROVE  initializeJobFlow(f) \in Flow
  BY DEF initializeJobFlow, NewStep, Flow, StepStatus, FlowPhases, StepPhases,
         Times, NoTime

LEMMA RejectType ==
  ASSUME NEW f \in Flow, now \in Nat,
         NEW reason \in {"ValidationFailed", "ActiveDeadlineExceeded",
                         "BackoffLimitExceeded", "DAGCycle"}
  PROVE  Reject(f, reason) \in Flow /\ RejectAndComplete(f, reason) \in Flow
<1>1. /\ f.conditions \in Seq(Condition)
      /\ [reason |-> reason, at |-> now] \in Condition
  BY DEF Flow, Condition
<1>2. Append(f.conditions, [reason |-> reason, at |-> now]) \in Seq(Condition)
  BY <1>1, AppendProperties
<1>3. Reject(f, reason) \in Flow
  BY <1>2 DEF Reject, Flow, FlowPhases
<1> QED
  BY <1>3 DEF RejectAndComplete, Flow, Times

LEMMA ApproveType ==
  ASSUME NEW st \in StepStatus, now \in Nat
  PROVE  Approve(st) \in StepStatus
  BY DEF Approve, StepStatus, StepPhases, Times

LEMMA CheckApprovalsType ==
  ASSUME NEW f \in Flow, now \in Nat
  PROVE  checkManualApprovals(f) \in Flow
<1>1. \A s \in Steps : Approve(f.steps[s]) \in StepStatus
  BY ApproveType DEF Flow
<1> QED
  BY <1>1 DEF checkManualApprovals, Flow, FlowPhases

LEMMA RefreshStepType ==
  ASSUME NEW st \in StepStatus, NEW job, now \in Nat
  PROVE  refreshStep(st, job) \in StepStatus
  BY DEF refreshStep, refreshStepStatusFromJob, StepStatus, StepPhases, Times

LEMMA RefreshType ==
  ASSUME NEW f \in Flow, now \in Nat
  PROVE  refreshStepStatuses(f) \in Flow
  BY RefreshStepType DEF refreshStepStatuses, Flow

LEMMA FailType ==
  ASSUME NEW st \in StepStatus, now \in Nat
  PROVE  [st EXCEPT !.phase = "Failed", !.completionTime = now] \in StepStatus
  BY DEF StepStatus, StepPhases, Times

LEMMA TimeoutsType ==
  ASSUME NEW f \in Flow, now \in Nat
  PROVE  checkStepTimeouts(f) \in Flow
<1>1. \A s \in Steps :
        [f.steps[s] EXCEPT !.phase = "Failed", !.completionTime = now] \in StepStatus
  BY FailType DEF Flow
<1> QED
  BY <1>1 DEF checkStepTimeouts, Flow, FlowPhases, Times

LEMMA RetriesType ==
  ASSUME NEW f \in Flow
  PROVE  handleStepRetries(f) \in Flow
<1>1. ASSUME NEW n \in Nat
      PROVE  [NewStep EXCEPT !.retryCount = n + 1] \in StepStatus
  BY NewStepType DEF StepStatus
<1>2. \A s \in Steps : f.steps[s].retryCount \in Nat
  BY DEF Flow, StepStatus
<1>3. \A s \in Steps :
        [NewStep EXCEPT !.retryCount = f.steps[s].retryCount + 1] \in StepStatus
  BY <1>1, <1>2
<1> QED
  BY <1>3 DEF handleStepRetries, Flow

(* Replacing the status of one step.                                        *)
LEMMA StepsType ==
  ASSUME NEW f \in Flow, NEW s \in Steps, NEW st \in StepStatus
  PROVE  [f EXCEPT !.steps = [f.steps EXCEPT ![s] = st]] \in Flow
  BY DEF Flow

LEMMA FailedFlowType ==
  ASSUME NEW f \in Flow, now \in Nat
  PROVE  [f EXCEPT !.phase = "Failed", !.completionTime = now] \in Flow
  BY DEF Flow, FlowPhases, Times

LEMMA FailureType ==
  ASSUME NEW f \in Flow, NEW s \in Steps, now \in Nat
  PROVE  handleStepFailure(f, s) \in Flow
<1> DEFINE st == [f.steps[s] EXCEPT !.phase = "Failed"]
           g  == [f EXCEPT !.steps = [f.steps EXCEPT ![s] = st]]
<1>1. st \in StepStatus
  BY DEF Flow, StepStatus, StepPhases
<1>2. g \in Flow
  BY <1>1, StepsType
<1>3. handleStepFailure(f, s) =
        IF s \in ContinueOnFailure
          THEN g ELSE [g EXCEPT !.phase = "Failed", !.completionTime = now]
  BY DEF handleStepFailure, Flow
<1> HIDE DEF g
<1>4. [g EXCEPT !.phase = "Failed", !.completionTime = now] \in Flow
  BY <1>2, FailedFlowType
<1> QED
  BY <1>2, <1>3, <1>4

LEMMA StartType ==
  ASSUME NEW f \in Flow, NEW s \in Steps, now \in Nat
  PROVE  Start(f, s) \in Flow
<1> DEFINE st == [f.steps[s] EXCEPT !.phase = "Running", !.startTime = now,
                                    !.jobRef = TRUE]
<1>1. st \in StepStatus
  BY DEF Flow, StepStatus, StepPhases, Times
<1>2. Start(f, s) = [f EXCEPT !.steps = [f.steps EXCEPT ![s] = st]]
  BY DEF Start, Flow
<1> QED
  BY <1>1, <1>2, StepsType

LEMMA GateType ==
  ASSUME NEW f \in Flow, NEW s \in Steps, now \in Nat
  PROVE  Gate(f, s) \in Flow
<1>1. CASE s \in f.approved
  <2>1. Approve(f.steps[s]) \in StepStatus
    BY ApproveType DEF Flow
  <2> QED
    BY <1>1, <2>1, StepsType DEF Gate, Flow
<1>2. CASE s \notin f.approved
  <2> DEFINE st == [f.steps[s] EXCEPT !.phase = "PendingApproval",
                                      !.startTime = now]
             g  == [f EXCEPT !.steps = [f.steps EXCEPT ![s] = st]]
  <2>1. st \in StepStatus
    BY DEF Flow, StepStatus, StepPhases, Times
  <2>2. g \in Flow
    BY <2>1, StepsType
  <2>3. Gate(f, s) = [g EXCEPT !.phase = "Paused"]
    BY <1>2 DEF Gate, Flow
  <2> HIDE DEF g
  <2> QED
    BY <2>2, <2>3 DEF Flow, FlowPhases
<1> QED
  BY <1>1, <1>2

LEMMA ConditionsType ==
  ASSUME NEW f \in Flow, now \in Nat
  PROVE  updateConditions(f) \in Flow
<1> DEFINE ready == [reason |-> ReadyReason(f.phase), at |-> now]
<1>1. ready \in Condition /\ f.conditions \in Seq(Condition)
  BY DEF ReadyReason, Condition, Flow
<1>2. CASE f.conditions = <<>>
  <2>1. <<ready>> \in Seq(Condition)
    BY <1>1
  <2> QED
    BY <1>2, <2>1 DEF updateConditions, Flow
<1>3. CASE f.conditions # <<>>
  <2>1. [f.conditions EXCEPT ![1] = ready] \in Seq(Condition)
    BY <1>1, <1>3, ExceptSeq
  <2> QED
    BY <1>3, <2>1 DEF updateConditions, Flow
<1> QED
  BY <1>2, <1>3

LEMMA UpdateType ==
  ASSUME NEW f \in Flow, now \in Nat
  PROVE  updateJobFlowStatus(f) \in Flow
<1>1. \A P : Cardinality(InPhase(f, P)) \in Nat
  BY StepsAssumption, FS_Subset, FS_CardinalityType DEF InPhase
<1>2. ASSUME NEW m \in Nat, NEW n \in Nat, NEW phase \in FlowPhases,
             NEW end \in Times
      PROVE  updateConditions([f EXCEPT !.progress = [successful |-> m, failed |-> n],
                                        !.phase = phase,
                                        !.completionTime = end]) \in Flow
  <2> DEFINE g == [f EXCEPT !.progress = [successful |-> m, failed |-> n],
                            !.phase = phase, !.completionTime = end]
  <2>1. g \in Flow
    BY <1>2 DEF Flow
  <2> QED
    BY <2>1, ConditionsType
<1>3. /\ f.phase \in FlowPhases /\ f.completionTime \in Times /\ now \in Times
      /\ {"Succeeded", "Failed", "Running"} \subseteq FlowPhases
  BY DEF Flow, FlowPhases, Times
<1> QED
  BY <1>1, <1>2, <1>3 DEF updateJobFlowStatus

----------------------------------------------------------------------------
(* The pieces the actions are made of preserve the types.                   *)

LEMMA SpendType ==
  ASSUME left \in [Disturbances -> Nat], NEW k \in Disturbances, Spend(k)
  PROVE  left' \in [Disturbances -> Nat]
  BY DEF Spend

LEMMA ReturnType ==
  ASSUME queued \in BOOLEAN, NEW requeue \in BOOLEAN, Return(requeue)
  PROVE  /\ pc' \in {"idle", "check", "execute", "ttl"}
         /\ local' \in Flow /\ localCurrent' \in BOOLEAN
         /\ plan' \in SUBSET Steps /\ queued' \in BOOLEAN
  BY NewFlowType DEF Return

LEMMA WrittenType ==
  ASSUME cacheCurrent \in BOOLEAN, NEW f \in Flow, Written(f)
  PROVE  flow' \in Flow /\ cacheCurrent' \in BOOLEAN
  BY DEF Written

LEMMA NotWrittenType ==
  ASSUME TypeOK, NEW f \in Flow, NotWritten(f) \/ Refused(f)
  PROVE  /\ flow' \in Flow /\ cacheCurrent' \in BOOLEAN
         /\ left' \in [Disturbances -> Nat]
  BY WrittenType, SpendType DEF NotWritten, Refused, TypeOK, Disturbances

LEMMA ExitType ==
  ASSUME TypeOK, NEW verdict, NEW f \in Flow, Exit(verdict, f)
  PROVE  TypeOK'
<1>1. /\ pc' \in {"idle", "check", "execute", "ttl"}
      /\ local' \in Flow /\ localCurrent' \in BOOLEAN
      /\ plan' \in SUBSET Steps /\ queued' \in BOOLEAN
  BY ReturnType DEF Exit, WriteAndReturn, TypeOK
<1>2. /\ flow' \in Flow /\ cacheCurrent' \in BOOLEAN
      /\ left' \in [Disturbances -> Nat]
  BY WrittenType, NotWrittenType DEF Exit, WriteAndReturn, TypeOK
<1> QED
  BY <1>1, <1>2 DEF Exit, TypeOK, caches, history

LEMMA StepDoneType ==
  ASSUME TypeOK, NEW s \in Steps, NEW f \in Flow, StepDone(s, f)
  PROVE  /\ local' \in Flow /\ plan' \in SUBSET Steps
         /\ pc' = pc /\ queued' = queued
  BY DEF StepDone, TypeOK

LEMMA StepFailedType ==
  ASSUME TypeOK, NEW s \in Steps, NEW f \in Flow, StepFailed(s, f)
  PROVE  /\ local' \in Flow /\ plan' \in SUBSET Steps
         /\ pc' = pc /\ queued' = queued
         /\ failureSeen' \in SUBSET Steps
  BY StepDoneType, FailureType DEF StepFailed, TypeOK

----------------------------------------------------------------------------
(* The type invariant of JobFlow.                                           *)
THEOREM TypeCorrect == Spec => []TypeOK
<1>1. Init => TypeOK
  <2>1. [s \in Steps |-> "absent"] \in [Steps -> JobStates]
    BY DEF JobStates
  <2>2. [s \in Steps |-> NoTime] \in [Steps -> Times]
    BY DEF Times
  <2>3. Init => /\ flow \in Flow /\ cacheFlow \in Flow /\ local \in Flow
                /\ now \in Nat /\ left \in [Disturbances -> Nat]
    <3>1. \A v \in Validity : [NewFlow EXCEPT !.valid = v] \in Flow
      BY PolicyAssumption, ValidType, NewFlowType
    <3> QED
      BY <3>1, NewFlowType, BoundsAssumption DEF Init
  <2> QED
    BY <2>1, <2>2, <2>3 DEF Init, TypeOK
<1>2. TypeOK /\ [Next]_vars => TypeOK'
  <2> SUFFICES ASSUME TypeOK, [Next]_vars
               PROVE  TypeOK'
    OBVIOUS
  <2>0. now \in Nat /\ local \in Flow /\ flow \in Flow
    BY DEF TypeOK
  <2>1. CASE Dequeue
    BY <2>1 DEF Dequeue, TypeOK, server, caches, history
  <2>2. CASE FailValidation
    BY <2>0, <2>2, RejectType, ExitType DEF FailValidation
  <2>3. CASE FailDeadline
    BY <2>0, <2>3, RejectType, ExitType DEF FailDeadline
  <2>4. CASE FailBackoff
    BY <2>0, <2>4, RejectType, ExitType DEF FailBackoff
  <2>5. CASE Initialize
    BY <2>0, <2>5, InitializeType, ExitType DEF Initialize
  <2>6. CASE FailCycle
    BY <2>0, <2>6, RejectType, ExitType DEF FailCycle
  <2>7. CASE PlanSteps
    <3> DEFINE refreshed == refreshStepStatuses(checkManualApprovals(local))
               checked   == checkStepTimeouts(refreshed)
    <3>1. refreshed \in Flow /\ checked \in Flow /\ handleStepRetries(checked) \in Flow
      BY <2>0, CheckApprovalsType, RefreshType, TimeoutsType, RetriesType
    <3>2. local' \in Flow
      BY <2>7, <3>1 DEF PlanSteps
    <3>3. plan' \in SUBSET Steps
      BY <2>7 DEF PlanSteps, createExecutionPlan, InPhase
    <3>4. failureSeen' \in SUBSET Steps
      BY <2>7 DEF PlanSteps, InPhase, TypeOK
    <3>5. jobs' \in [Steps -> JobStates]
      BY <2>7 DEF PlanSteps, TypeOK, JobStates
    <3>6. left' \in [Disturbances -> Nat]
      BY <2>7, SpendType DEF PlanSteps, TypeOK, Disturbances
    <3> QED
      BY <2>7, <3>2, <3>3, <3>4, <3>5, <3>6 DEF PlanSteps, TypeOK, caches
  <2>8. CASE Finish
    <3>1. updateJobFlowStatus(local) \in Flow
      BY <2>0, UpdateType
    <3>2. flow' \in Flow /\ cacheCurrent' \in BOOLEAN
      BY <2>8, <3>1, WrittenType, NotWrittenType DEF Finish, TypeOK
    <3>3. left' \in [Disturbances -> Nat]
      BY <2>8, <3>1, NotWrittenType DEF Finish, TypeOK
    <3>4. /\ pc' \in {"idle", "check", "execute", "ttl"}
          /\ local' \in Flow /\ localCurrent' \in BOOLEAN
          /\ plan' \in SUBSET Steps /\ queued' \in BOOLEAN
      BY <2>8, <3>1, ReturnType DEF Finish, TypeOK
    <3> QED
      BY <2>8, <3>2, <3>3, <3>4 DEF Finish, TypeOK, caches, history
  <2>9. CASE CheckTTL
    <3>1. flow' \in Flow /\ cacheCurrent' \in BOOLEAN
      BY <2>9, NewFlowType DEF CheckTTL, RemoveFlow, TypeOK
    <3>2. left' \in [Disturbances -> Nat]
      BY <2>9, SpendType DEF CheckTTL, TypeOK, Disturbances
    <3>3. /\ pc' \in {"idle", "check", "execute", "ttl"}
          /\ local' \in Flow /\ localCurrent' \in BOOLEAN
          /\ plan' \in SUBSET Steps /\ queued' \in BOOLEAN
      BY <2>9, ReturnType DEF CheckTTL, TypeOK
    <3> QED
      BY <2>9, <3>1, <3>2, <3>3 DEF CheckTTL, TypeOK, caches, history
  <2>10. ASSUME NEW s \in Steps, ReachGate(s) PROVE TypeOK'
    <3>1. Gate(local, s) \in Flow
      BY <2>0, GateType
    <3>2. flow' \in Flow /\ cacheCurrent' \in BOOLEAN
      BY <2>10, <3>1, WrittenType, NotWrittenType DEF ReachGate, TypeOK
    <3>3. left' \in [Disturbances -> Nat]
      BY <2>10, <3>1, SpendType, NotWrittenType DEF ReachGate, TypeOK, Disturbances
    <3>4. /\ pc' \in {"idle", "check", "execute", "ttl"}
          /\ local' \in Flow /\ localCurrent' \in BOOLEAN
          /\ plan' \in SUBSET Steps /\ queued' \in BOOLEAN
      BY <2>10, <3>1, ReturnType, StepDoneType, StepFailedType DEF ReachGate, TypeOK
    <3>5. failureSeen' \in SUBSET Steps /\ begun' \in SUBSET Steps
      BY <2>10, <3>1, StepFailedType DEF ReachGate, TypeOK
    <3> QED
      BY <2>10, <3>2, <3>3, <3>4, <3>5 DEF ReachGate, TypeOK, caches
  <2>11. ASSUME NEW s \in Steps, StartJob(s) PROVE TypeOK'
    <3>1. Start(local, s) \in Flow
      BY <2>0, StartType
    <3>2. jobs' \in [Steps -> JobStates] /\ createdAt' \in [Steps -> Times]
      BY <2>11 DEF StartJob, Create, TypeOK, JobStates, Times
    <3>3. left' \in [Disturbances -> Nat]
      BY <2>11, SpendType DEF StartJob, TypeOK, Disturbances
    <3>4. /\ pc' \in {"idle", "check", "execute", "ttl"}
          /\ local' \in Flow /\ localCurrent' \in BOOLEAN
          /\ plan' \in SUBSET Steps /\ queued' \in BOOLEAN
      BY <2>11, <3>1, ReturnType, StepDoneType, StepFailedType DEF StartJob, TypeOK
    <3>5. failureSeen' \in SUBSET Steps /\ begun' \in SUBSET Steps
      BY <2>11, StepFailedType DEF StartJob, TypeOK
    <3> QED
      BY <2>11, <3>2, <3>3, <3>4, <3>5 DEF StartJob, TypeOK, caches
  <2>12. CASE Crash
    <3>1. left' \in [Disturbances -> Nat]
      BY <2>12, SpendType DEF Crash, TypeOK, Disturbances
    <3>2. /\ pc' \in {"idle", "check", "execute", "ttl"}
          /\ local' \in Flow /\ localCurrent' \in BOOLEAN
          /\ plan' \in SUBSET Steps /\ queued' \in BOOLEAN
      BY <2>12, ReturnType DEF Crash, TypeOK
    <3> QED
      BY <2>12, <3>1, <3>2 DEF Crash, TypeOK, server, history
  <2>13. CASE SyncFlow
    BY <2>13 DEF SyncFlow, TypeOK, server, worker, history
  <2>14. CASE Resync
    BY <2>14 DEF Resync, TypeOK, server, caches, worker, history
  <2>15. ASSUME NEW s \in Steps, SyncJob(s) PROVE TypeOK'
    BY <2>15 DEF SyncJob, TypeOK, server, worker, history
  <2>16. CASE EditFlow
    <3>1. flow' \in Flow
      BY <2>0, <2>16, PolicyAssumption, ValidType DEF EditFlow
    <3> QED
      BY <2>16, <3>1, SpendType
         DEF EditFlow, OtherWriter, TypeOK, caches, Disturbances
  <2>17. CASE DeleteFlow
    BY <2>17, NewFlowType, SpendType
       DEF DeleteFlow, OtherWriter, TypeOK, caches, Disturbances
  <2>18. CASE Tick
    BY <2>18 DEF Tick, TypeOK, server, caches, worker, history
  <2>19. ASSUME NEW s \in Steps, ApproveStep(s) PROVE TypeOK'
    <3>1. [flow EXCEPT !.approved = @ \cup {s}] \in Flow
      BY <2>0 DEF Flow
    <3> QED
      BY <2>19, <3>1 DEF ApproveStep, OtherWriter, TypeOK, caches
  <2>20. ASSUME NEW s \in Steps, NEW state \in JobStates, ChangeJob(s, state),
                left' \in [Disturbances -> Nat]
         PROVE  TypeOK'
    BY <2>20 DEF ChangeJob, TypeOK, caches, worker
  <2>21. ASSUME NEW s \in Steps,
                PodEnds(s) \/ JobEnds(s) \/ DeleteJob(s) \/ CollectJob(s)
         PROVE  TypeOK'
    <3>1. left' \in [Disturbances -> Nat]
      BY <2>21, SpendType
         DEF PodEnds, JobEnds, DeleteJob, CollectJob, TypeOK, Disturbances
    <3>2. \E state \in JobStates : ChangeJob(s, state)
      BY <2>21 DEF PodEnds, JobEnds, DeleteJob, CollectJob, JobStates
    <3> QED
      BY <3>1, <3>2, <2>20
  <2>22. ASSUME NEW s \in Steps, StepStatusNotFound(s) PROVE TypeOK'
    <3>1. /\ pc' \in {"idle", "check", "execute", "ttl"}
          /\ local' \in Flow /\ localCurrent' \in BOOLEAN
          /\ plan' \in SUBSET Steps /\ queued' \in BOOLEAN
      BY <2>22, ReturnType DEF StepStatusNotFound, TypeOK
    <3> QED
      BY <2>22, <3>1 DEF StepStatusNotFound, TypeOK, server, caches, history
  <2>23. CASE UNCHANGED vars
    BY <2>23 DEF vars, TypeOK
  <2> QED
    BY <2>1, <2>2, <2>3, <2>4, <2>5, <2>6, <2>7, <2>8, <2>9, <2>10, <2>11,
       <2>12, <2>13, <2>14, <2>15, <2>16, <2>17, <2>18, <2>19, <2>21, <2>22,
       <2>23
       DEF Next, Worker, Informers, Cluster
<1> QED
  BY <1>1, <1>2, PTL DEF Spec

----------------------------------------------------------------------------
(* What a worker knows while it goes through its plan: no planned step has  *)
(* a Job.  This needs every copy of the JobFlow, since any of them may      *)
(* become the worker's: in none is a step Pending that has a JobRef.  Each  *)
(* method of the reconciler keeps that.                                     *)

UnstartedStep(st) == st.phase = "Pending" => ~st.jobRef
Unstarted(f) == \A s \in Steps : UnstartedStep(f.steps[s])

PlanInv ==
  /\ Unstarted(flow) /\ Unstarted(cacheFlow) /\ Unstarted(local)
  /\ pc = "execute" => \A s \in plan : ~local.steps[s].jobRef

----------------------------------------------------------------------------
(* The methods of the reconciler.                                           *)

LEMMA SameSteps ==
  ASSUME NEW f, NEW g, Unstarted(f), g.steps = f.steps
  PROVE  Unstarted(g)
  BY DEF Unstarted

LEMMA NewUnstarted == Unstarted(NewFlow) /\ Unstarted(NoFlow)
  BY DEF Unstarted, UnstartedStep, NewFlow, NoFlow, NewStep

LEMMA InitializeUnstarted ==
  ASSUME NEW f \in Flow
  PROVE  Unstarted(initializeJobFlow(f))
  BY DEF Unstarted, UnstartedStep, initializeJobFlow, NewStep, Flow

LEMMA WithoutSteps ==
  ASSUME NEW f \in Flow, Unstarted(f)
  PROVE  /\ \A reason : /\ Unstarted(Reject(f, reason))
                        /\ Unstarted(RejectAndComplete(f, reason))
         /\ \A v : Unstarted([f EXCEPT !.valid = v])
         /\ \A S : Unstarted([f EXCEPT !.approved = S])
         /\ Unstarted(updateJobFlowStatus(f))
<1>1. \A reason : /\ Reject(f, reason).steps = f.steps
                  /\ RejectAndComplete(f, reason).steps = f.steps
  BY DEF Reject, RejectAndComplete, Flow
<1>2. /\ \A v : [f EXCEPT !.valid = v].steps = f.steps
      /\ \A S : [f EXCEPT !.approved = S].steps = f.steps
  BY DEF Flow
<1>3. updateJobFlowStatus(f).steps = f.steps
  BY DEF updateJobFlowStatus, updateConditions, Flow
<1> QED
  BY <1>1, <1>2, <1>3, SameSteps

LEMMA ApprovalsUnstarted ==
  ASSUME NEW f \in Flow, Unstarted(f)
  PROVE  LET g == checkManualApprovals(f)
         IN  Unstarted(g)
<1> DEFINE g == checkManualApprovals(f)
<1>1. ASSUME NEW s \in Steps
      PROVE  g.steps[s] = f.steps[s] \/ g.steps[s] = Approve(f.steps[s])
  BY DEF checkManualApprovals, Flow
<1>2. \A s \in Steps : Approve(f.steps[s]).phase = "Succeeded"
  BY DEF Approve, Flow, StepStatus
<1> HIDE DEF g
<1>3. Unstarted(g)
  BY <1>1, <1>2 DEF Unstarted, UnstartedStep
<1> QED
  BY <1>3 DEF g

LEMMA RefreshUnstarted ==
  ASSUME NEW f \in Flow, Unstarted(f)
  PROVE  LET g == refreshStepStatuses(f)
         IN  Unstarted(g)
<1> DEFINE g == refreshStepStatuses(f)
<1>1. \A s \in Steps : g.steps[s] = refreshStep(f.steps[s], cacheJobs[s])
  BY DEF refreshStepStatuses, Flow
<1>2. ASSUME NEW st \in StepStatus, NEW job, UnstartedStep(st)
      PROVE  UnstartedStep(refreshStep(st, job))
  BY <1>2 DEF UnstartedStep, refreshStep, refreshStepStatusFromJob, StepStatus
<1>3. \A s \in Steps : f.steps[s] \in StepStatus
  BY DEF Flow
<1> HIDE DEF g
<1>4. Unstarted(g)
  BY <1>1, <1>2, <1>3 DEF Unstarted
<1> QED
  BY <1>4 DEF g

(* A timeout and a retry leave a Pending step as it is.                     *)
LEMMA TimeoutsUnstarted ==
  ASSUME NEW f \in Flow, Unstarted(f)
  PROVE  LET g == checkStepTimeouts(f)
         IN  /\ Unstarted(g)
             /\ \A s \in Steps : f.steps[s].phase = "Pending" => g.steps[s] = f.steps[s]
<1> DEFINE g == checkStepTimeouts(f)
<1>1. ASSUME NEW s \in Steps
      PROVE  \/ g.steps[s] = f.steps[s]
             \/ f.steps[s].phase = "Running" /\ g.steps[s].phase = "Failed"
  BY DEF checkStepTimeouts, TimedOut, InPhase, Flow, StepStatus
<1> HIDE DEF g
<1>2. Unstarted(g) /\ \A s \in Steps : f.steps[s].phase = "Pending" => g.steps[s] = f.steps[s]
  BY <1>1 DEF Unstarted, UnstartedStep
<1> QED
  BY <1>2 DEF g

LEMMA RetriesUnstarted ==
  ASSUME NEW f \in Flow, Unstarted(f)
  PROVE  LET g == handleStepRetries(f)
         IN  /\ Unstarted(g)
             /\ \A s \in Steps : f.steps[s].phase = "Pending" => g.steps[s] = f.steps[s]
<1> DEFINE g == handleStepRetries(f)
<1>1. ASSUME NEW s \in Steps
      PROVE  \/ g.steps[s] = f.steps[s]
             \/ f.steps[s].phase = "Failed" /\ ~g.steps[s].jobRef
  BY DEF handleStepRetries, RetryDue, NewStep, Flow
<1> HIDE DEF g
<1>2. Unstarted(g) /\ \A s \in Steps : f.steps[s].phase = "Pending" => g.steps[s] = f.steps[s]
  BY <1>1 DEF Unstarted, UnstartedStep
<1> QED
  BY <1>2 DEF g

(* What executeStep makes of one step.                                      *)
Executed(f, g, s) ==
  /\ g.steps[s].phase # "Pending"
  /\ \A t \in Steps \ {s} : g.steps[t] = f.steps[t]

LEMMA ExecutedSteps ==
  ASSUME NEW f \in Flow, NEW s \in Steps
  PROVE  /\ Executed(f, handleStepFailure(f, s), s)
         /\ Executed(f, Start(f, s), s)
         /\ Executed(f, Gate(f, s), s)
<1>1. Executed(f, handleStepFailure(f, s), s)
  BY DEF Executed, handleStepFailure, Flow, StepStatus
<1>2. Executed(f, Start(f, s), s)
  BY DEF Executed, Start, Flow, StepStatus
<1>3. Executed(f, Gate(f, s), s)
  BY DEF Executed, Gate, Approve, Flow, StepStatus
<1> QED
  BY <1>1, <1>2, <1>3

LEMMA ExecutedUnstarted ==
  ASSUME NEW f, NEW g, NEW s \in Steps, Executed(f, g, s), Unstarted(f)
  PROVE  Unstarted(g)
  BY DEF Executed, Unstarted, UnstartedStep

----------------------------------------------------------------------------
(* PlanInv is an invariant.                                                 *)

LEMMA WriteUnstarted ==
  ASSUME NEW f, Unstarted(f), Unstarted(flow), Written(f) \/ NotWritten(f) \/ Refused(f)
  PROVE  Unstarted(flow')
  BY DEF Written, NotWritten, Refused

LEMMA ReturnUnstarted ==
  ASSUME NEW requeue, Return(requeue)
  PROVE  Unstarted(local') /\ pc' = "idle"
  BY NewUnstarted DEF Return

(* What leaves the worker alone, or has it come to rest.                    *)
LEMMA PlanKept ==
  ASSUME PlanInv, Unstarted(flow'), Unstarted(cacheFlow'), Unstarted(local'),
         pc' # "execute" \/ UNCHANGED <<pc, local, plan>>
  PROVE  PlanInv'
  BY DEF PlanInv, Unstarted

LEMMA ExitPlan ==
  ASSUME PlanInv, NEW verdict, NEW f, Unstarted(f), Exit(verdict, f)
  PROVE  PlanInv'
<1>1. Unstarted(flow') /\ Unstarted(local') /\ pc' = "idle"
  BY WriteUnstarted, ReturnUnstarted DEF Exit, WriteAndReturn, PlanInv
<1>2. cacheFlow' = cacheFlow
  BY DEF Exit, caches
<1> QED
  BY <1>1, <1>2, PlanKept DEF PlanInv

LEMMA PlanStepsPlan ==
  ASSUME TypeOK, PlanInv, PlanSteps
  PROVE  PlanInv'
<1> DEFINE approved  == checkManualApprovals(local)
           refreshed == refreshStepStatuses(approved)
           checked   == checkStepTimeouts(refreshed)
           retried   == handleStepRetries(checked)
<1>1. now \in Nat /\ local \in Flow /\ approved \in Flow /\ refreshed \in Flow /\ checked \in Flow
  BY CheckApprovalsType, RefreshType, TimeoutsType DEF TypeOK
<1>2. /\ local' = retried /\ plan' = createExecutionPlan(refreshed)
      /\ flow' = flow /\ cacheFlow' = cacheFlow
  BY DEF PlanSteps, caches
<1>3. Unstarted(refreshed)
  BY <1>1, ApprovalsUnstarted, RefreshUnstarted DEF PlanInv
<1>4. /\ Unstarted(checked)
      /\ \A s \in Steps : refreshed.steps[s].phase = "Pending" =>
                            checked.steps[s] = refreshed.steps[s]
  BY <1>1, <1>3, TimeoutsUnstarted
<1>5. /\ Unstarted(retried)
      /\ \A s \in Steps : checked.steps[s].phase = "Pending" =>
                            retried.steps[s] = checked.steps[s]
  BY <1>1, <1>4, RetriesUnstarted
<1> HIDE DEF approved, refreshed, checked, retried
<1>6. \A s \in plan' : s \in Steps /\ refreshed.steps[s].phase = "Pending"
  BY <1>2 DEF createExecutionPlan, InPhase
<1>7. \A s \in plan' : ~local'.steps[s].jobRef
  BY <1>2, <1>3, <1>4, <1>5, <1>6 DEF Unstarted, UnstartedStep
<1>8. Unstarted(flow') /\ Unstarted(cacheFlow') /\ Unstarted(local')
  BY <1>2, <1>5 DEF PlanInv
<1> QED
  BY <1>7, <1>8 DEF PlanInv

(* executeStep returned to the loop.                                        *)
LEMMA StepDonePlan ==
  ASSUME PlanInv, pc = "execute", NEW s \in Steps, NEW f, StepDone(s, f),
         Executed(local, f, s), Unstarted(flow'), cacheFlow' = cacheFlow,
         plan \subseteq Steps
  PROVE  PlanInv'
<1>1. Unstarted(f)
  BY ExecutedUnstarted DEF PlanInv
<1>2. local' = f /\ plan' = plan \ {s} /\ pc' = pc
  BY DEF StepDone
<1>3. \A t \in plan' : ~local'.steps[t].jobRef
  BY <1>2 DEF Executed, PlanInv
<1> QED
  BY <1>1, <1>2, <1>3 DEF PlanInv

LEMMA ReachGatePlan ==
  ASSUME TypeOK, PlanInv, NEW s \in Steps, ReachGate(s)
  PROVE  PlanInv'
<1>1. pc = "execute" /\ cacheFlow' = cacheFlow /\ plan \subseteq Steps /\ now \in Nat
  BY DEF ReachGate, caches, TypeOK
<1>2. local \in Flow /\ Gate(local, s) \in Flow
  BY <1>1, GateType DEF TypeOK
<1>3. Executed(local, Gate(local, s), s)
  BY <1>2, ExecutedSteps
<1>4. Executed(local, handleStepFailure(Gate(local, s), s), s)
  <2>1. Executed(Gate(local, s), handleStepFailure(Gate(local, s), s), s)
    BY <1>2, ExecutedSteps
  <2> QED
    BY <1>3, <2>1 DEF Executed
<1>5. Unstarted(Gate(local, s))
  BY <1>3, ExecutedUnstarted DEF PlanInv
<1>6. Unstarted(flow')
  BY <1>5, WriteUnstarted DEF ReachGate, PlanInv
<1>7. CASE StepDone(s, Gate(local, s))
  BY <1>1, <1>3, <1>6, <1>7, StepDonePlan
<1>8. CASE Return(TRUE)
  BY <1>1, <1>6, <1>8, ReturnUnstarted, PlanKept DEF PlanInv
<1>9. CASE StepFailed(s, Gate(local, s))
  BY <1>1, <1>4, <1>6, <1>9, StepDonePlan DEF StepFailed
<1> QED
  BY <1>7, <1>8, <1>9 DEF ReachGate

LEMMA StartJobPlan ==
  ASSUME TypeOK, PlanInv, NEW s \in Steps, StartJob(s)
  PROVE  PlanInv'
<1>1. /\ pc = "execute" /\ cacheFlow' = cacheFlow /\ plan \subseteq Steps
      /\ Unstarted(flow') /\ local \in Flow
  BY DEF StartJob, caches, TypeOK, PlanInv
<1>2. Executed(local, Start(local, s), s) /\ Executed(local, handleStepFailure(local, s), s)
  BY <1>1, ExecutedSteps
<1>3. CASE StepDone(s, Start(local, s))
  BY <1>1, <1>2, <1>3, StepDonePlan
<1>4. CASE StepFailed(s, local)
  BY <1>1, <1>2, <1>4, StepDonePlan DEF StepFailed
<1>5. CASE Return(TRUE)
  BY <1>1, <1>5, ReturnUnstarted, PlanKept DEF PlanInv
<1> QED
  BY <1>3, <1>4, <1>5 DEF StartJob

LEMMA WorkerPlan ==
  ASSUME TypeOK, PlanInv, Worker \/ Crash
  PROVE  PlanInv'
<1>0. local \in Flow /\ Unstarted(local)
  BY DEF TypeOK, PlanInv
<1>1. CASE FailValidation
  BY <1>0, <1>1, WithoutSteps, ExitPlan DEF FailValidation
<1>2. CASE FailDeadline
  BY <1>0, <1>2, WithoutSteps, ExitPlan DEF FailDeadline
<1>3. CASE FailBackoff
  BY <1>0, <1>3, WithoutSteps, ExitPlan DEF FailBackoff
<1>4. CASE Initialize
  BY <1>0, <1>4, InitializeUnstarted, ExitPlan DEF Initialize
<1>5. CASE FailCycle
  BY <1>0, <1>5, WithoutSteps, ExitPlan DEF FailCycle
<1>6. CASE PlanSteps
  BY <1>6, PlanStepsPlan
<1>7. ASSUME NEW s \in Steps, ReachGate(s) PROVE PlanInv'
  BY <1>7, ReachGatePlan
<1>8. ASSUME NEW s \in Steps, StartJob(s) PROVE PlanInv'
  BY <1>8, StartJobPlan
<1>9. CASE Dequeue
  <2>1. /\ local' \in {local, cacheFlow} /\ pc' # "execute"
        /\ UNCHANGED <<flow, cacheFlow>>
    BY <1>9 DEF Dequeue, server, caches
  <2> QED
    BY <2>1, PlanKept DEF PlanInv
<1>10. CASE Finish
  <2>1. Unstarted(updateJobFlowStatus(local))
    BY <1>0, WithoutSteps
  <2>2. Unstarted(flow')
    BY <1>10, <2>1, WriteUnstarted DEF Finish, PlanInv
  <2>3. Unstarted(local') /\ pc' # "execute" /\ cacheFlow' = cacheFlow
    BY <1>10, <2>1, ReturnUnstarted DEF Finish, caches
  <2> QED
    BY <2>2, <2>3, PlanKept DEF PlanInv
<1>11. CASE CheckTTL
  <2>1. Unstarted(flow') /\ cacheFlow' = cacheFlow
    BY <1>11, NewUnstarted DEF CheckTTL, RemoveFlow, caches, PlanInv
  <2>2. Unstarted(local') /\ pc' = "idle"
    BY <1>11, ReturnUnstarted DEF CheckTTL
  <2> QED
    BY <2>1, <2>2, PlanKept DEF PlanInv
<1>12. CASE Crash
  <2>1. flow' = flow /\ cacheFlow' = flow
    BY <1>12 DEF Crash, server
  <2>2. Unstarted(local') /\ pc' = "idle"
    BY <1>12, ReturnUnstarted DEF Crash
  <2> QED
    BY <2>1, <2>2, PlanKept DEF PlanInv
<1>13. ASSUME NEW s \in Steps, StepStatusNotFound(s) PROVE PlanInv'
  <2>1. flow' = flow /\ cacheFlow' = cacheFlow
    BY <1>13 DEF StepStatusNotFound, server, caches
  <2>2. Unstarted(local') /\ pc' = "idle"
    BY <1>13, ReturnUnstarted DEF StepStatusNotFound
  <2> QED
    BY <2>1, <2>2, PlanKept DEF PlanInv
<1> QED
  BY <1>1, <1>2, <1>3, <1>4, <1>5, <1>6, <1>7, <1>8, <1>9, <1>10, <1>11, <1>12,
     <1>13 DEF Worker

(* Nobody else touches the worker, and nobody else writes a status.         *)
LEMMA OthersPlan ==
  ASSUME TypeOK, PlanInv, Informers \/ Cluster \/ UNCHANGED vars
  PROVE  PlanInv'
<1>1. UNCHANGED <<pc, local, plan>>
  BY DEF Informers, SyncFlow, SyncJob, Resync, Cluster, EditFlow, DeleteFlow, Tick,
         ApproveStep, OtherWriter, PodEnds, JobEnds, DeleteJob, CollectJob, ChangeJob,
         vars, worker
<1>2. cacheFlow' \in {cacheFlow, flow}
  BY DEF Informers, SyncFlow, SyncJob, Resync, Cluster, EditFlow, DeleteFlow, Tick,
         ApproveStep, OtherWriter, PodEnds, JobEnds, DeleteJob, CollectJob, ChangeJob,
         vars, caches
<1>3. \/ flow' \in {flow, NoFlow}
      \/ \E v : flow' = [flow EXCEPT !.valid = v]
      \/ \E s \in Steps : flow' = [flow EXCEPT !.approved = @ \cup {s}]
  BY DEF Informers, SyncFlow, SyncJob, Resync, Cluster, EditFlow, DeleteFlow, Tick,
         ApproveStep, OtherWriter, PodEnds, JobEnds, DeleteJob, CollectJob, ChangeJob,
         vars, server
<1>4. Unstarted(flow')
  BY <1>3, NewUnstarted, WithoutSteps DEF TypeOK, PlanInv
<1> QED
  BY <1>1, <1>2, <1>4, PlanKept DEF PlanInv

LEMMA PlanInvariant == Spec => [](TypeOK /\ PlanInv)
<1>1. Init => PlanInv
  <2>1. \A v : Unstarted([NewFlow EXCEPT !.valid = v])
    BY NewUnstarted, NewFlowType, WithoutSteps
  <2> QED
    BY <2>1, NewUnstarted DEF Init, PlanInv
<1>2. TypeOK /\ PlanInv /\ [Next]_vars => PlanInv'
  BY WorkerPlan, OthersPlan DEF Next
<1> QED
  BY <1>1, <1>2, TypeCorrect, PTL DEF Spec

(* executeStep never meets a planned step that has a Job, whatever the      *)
(* flow, its faults and the lag of its caches: pod failure policies and     *)
(* outputs are never looked at.                                             *)
THEOREM NoJobIsPlanned == Spec => []PlannedStepsHaveNoJob
<1>1. PlanInv => PlannedStepsHaveNoJob
  BY DEF PlanInv, PlannedStepsHaveNoJob
<1> QED
  BY <1>1, PlanInvariant, PTL

(* Steps are begun while a plan is executed.                                *)
LEMMA BegunInExecute ==
  ASSUME [Next]_vars, begun' # begun
  PROVE  pc = "execute"
<1>1. CASE Worker \/ Crash
  BY <1>1 DEF Worker, Dequeue, FailValidation, FailDeadline, FailBackoff, Initialize,
     FailCycle, Exit, PlanSteps, Finish, CheckTTL, Crash, StepStatusNotFound,
     ReachGate, StartJob, history
<1>2. CASE Informers \/ Cluster \/ UNCHANGED vars
  BY <1>2 DEF Informers, SyncFlow, SyncJob, Resync, Cluster, EditFlow, DeleteFlow,
     Tick, ApproveStep, OtherWriter, PodEnds, JobEnds, DeleteJob, CollectJob,
     ChangeJob, history, vars
<1> QED
  BY <1>1, <1>2 DEF Next
=============================================================================
