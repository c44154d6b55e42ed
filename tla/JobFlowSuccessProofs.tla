------------------------ MODULE JobFlowSuccessProofs ------------------------
(***************************************************************************)
(* A JobFlow is reported Succeeded only when every step has succeeded, for *)
(* every flow, policy and fault but the deletion of a Job by somebody else.*)
(* Where nothing is on its way, the status says what the Jobs are.         *)
(*                                                                         *)
(* The argument: a success the controller has read from a Job stays there  *)
(* to be read again.  The Jobs of a living flow are deleted by the         *)
(* controller alone, when their step has timed out, and a step whose Job   *)
(* shows a success in the cache is not Running after the refresh.  Hence   *)
(* no refresh, from however old a copy, takes a success back, and what was *)
(* Succeeded as a whole remains so.                                        *)
(***************************************************************************)
EXTENDS JobFlowOrderProofs

(* No step gives a disturbance back.                                       *)
WithinBudget == \A k \in Disturbances : left[k] <= Budget[k]

(* Whose copies are whose, and that a JobFlow that is gone stays so.        *)
Alive ==
  /\ cacheCurrent => cacheFlow = flow
  /\ localCurrent => flow.exists
  /\ pc # "idle" => local.exists
  /\ ~flow.exists => flow = NoFlow
  /\ WithinBudget
  /\ pc = "execute" => \A s \in plan : local.steps[s].phase = "Pending"

Whole(f) == f.phase = "Succeeded" /\ f.listed

(* What a copy says of its steps can still be read from the cached Jobs.    *)
TruthfulStep(st, job) ==
  /\ st.phase = "Running" => st.jobRef
  /\ st.phase = "PendingApproval" => ~st.jobRef
  /\ st.phase = "Succeeded" /\ st.jobRef => AnyPodSucceeded(job)

Truthful(f, cached) ==
  /\ \A s \in Steps : TruthfulStep(f.steps[s], cached[s])
  /\ Whole(f) => \A s \in Steps : f.steps[s].phase = "Succeeded"

JobsKept(older, newer) ==
  \A s \in Steps : AnyPodSucceeded(older[s]) => AnyPodSucceeded(newer[s])

Untouched == flow.exists /\ JobsLeftAlone

SuccessInv ==
  Untouched => /\ Truthful(flow, cacheJobs)
               /\ Truthful(cacheFlow, cacheJobs)
               /\ Truthful(local, cacheJobs)
               /\ JobsKept(cacheJobs, jobs)

----------------------------------------------------------------------------
(* The methods of the reconciler.                                           *)

LEMMA TruthfulSame ==
  ASSUME NEW f, NEW g, NEW c, Truthful(f, c), g.steps = f.steps, Whole(g) => Whole(f)
  PROVE  Truthful(g, c)
  BY DEF Truthful

LEMMA TruthfulKept ==
  ASSUME NEW f, NEW c, NEW d, Truthful(f, c), JobsKept(c, d)
  PROVE  Truthful(f, d)
  BY DEF Truthful, TruthfulStep, JobsKept

LEMMA TruthfulNew ==
  ASSUME NEW c
  PROVE  Truthful(NewFlow, c) /\ Truthful(NoFlow, c)
  BY DEF Truthful, TruthfulStep, Whole, NewFlow, NoFlow, NewStep

LEMMA TruthfulInitialize ==
  ASSUME NEW f \in Flow, NEW c
  PROVE  Truthful(initializeJobFlow(f), c)
  BY DEF Truthful, TruthfulStep, Whole, initializeJobFlow, NewStep, Flow

LEMMA TruthfulWithoutSteps ==
  ASSUME NEW f \in Flow, NEW c, Truthful(f, c)
  PROVE  /\ \A reason : /\ Truthful(Reject(f, reason), c)
                        /\ Truthful(RejectAndComplete(f, reason), c)
         /\ \A v : Truthful([f EXCEPT !.valid = v], c)
         /\ \A S : Truthful([f EXCEPT !.approved = S], c)
<1>1. ASSUME NEW reason
      PROVE  Truthful(Reject(f, reason), c) /\ Truthful(RejectAndComplete(f, reason), c)
  <2>1. /\ Reject(f, reason).steps = f.steps
        /\ RejectAndComplete(f, reason).steps = f.steps
        /\ ~Whole(Reject(f, reason)) /\ ~Whole(RejectAndComplete(f, reason))
    BY DEF Reject, RejectAndComplete, Whole, Flow
  <2> QED
    BY <2>1, TruthfulSame
<1>2. ASSUME NEW v
      PROVE  Truthful([f EXCEPT !.valid = v], c)
  <2>1. /\ [f EXCEPT !.valid = v].steps = f.steps
        /\ Whole([f EXCEPT !.valid = v]) => Whole(f)
    BY DEF Flow, Whole
  <2> QED
    BY <2>1, TruthfulSame
<1>3. ASSUME NEW S
      PROVE  Truthful([f EXCEPT !.approved = S], c)
  <2>1. /\ [f EXCEPT !.approved = S].steps = f.steps
        /\ Whole([f EXCEPT !.approved = S]) => Whole(f)
    BY DEF Flow, Whole
  <2> QED
    BY <2>1, TruthfulSame
<1> QED
  BY <1>1, <1>2, <1>3

LEMMA TruthfulUpdate ==
  ASSUME NEW f \in Flow, NEW c, Truthful(f, c)
  PROVE  Truthful(updateJobFlowStatus(f), c)
<1> DEFINE g == updateJobFlowStatus(f)
           done == InPhase(f, {"Succeeded"})
           bad == InPhase(f, {"Failed"})
<1>1. g.steps = f.steps /\ g.listed = f.listed
  BY DEF updateJobFlowStatus, updateConditions, Flow
<1>2. \/ g.phase = "Succeeded" /\ bad = {} /\ (f.listed => done \cup bad = Steps)
      \/ g.phase = f.phase
      \/ g.phase \in {"Failed", "Running"}
  BY DEF updateJobFlowStatus, updateConditions, Flow
<1> HIDE DEF g
<1>3. Whole(g) => \A s \in Steps : f.steps[s].phase = "Succeeded"
  BY <1>1, <1>2 DEF Whole, Truthful, InPhase
<1>4. Truthful(g, c)
  BY <1>1, <1>3 DEF Truthful
<1> QED
  BY <1>4 DEF g

LEMMA TruthfulApprovals ==
  ASSUME NEW f \in Flow, NEW c, Truthful(f, c)
  PROVE  Truthful(checkManualApprovals(f), c)
<1> DEFINE g == checkManualApprovals(f)
<1>1. g.listed = f.listed /\ (g.phase = "Succeeded" => f.phase = "Succeeded")
  BY DEF checkManualApprovals, Flow
<1>2. ASSUME NEW s \in Steps
      PROVE  \/ g.steps[s] = f.steps[s]
             \/ /\ f.steps[s].phase = "PendingApproval"
                /\ g.steps[s] = Approve(f.steps[s])
  BY DEF checkManualApprovals, Flow, InPhase
<1>3. \A s \in Steps : /\ Approve(f.steps[s]).phase = "Succeeded"
                       /\ Approve(f.steps[s]).jobRef = f.steps[s].jobRef
  BY DEF Approve, Flow, StepStatus
<1> HIDE DEF g
<1>4. \A s \in Steps : TruthfulStep(g.steps[s], c[s])
  BY <1>2, <1>3 DEF Truthful, TruthfulStep
<1>5. Whole(g) => \A s \in Steps : g.steps[s].phase = "Succeeded"
  BY <1>1, <1>2, <1>3 DEF Truthful, Whole
<1>6. Truthful(g, c)
  BY <1>4, <1>5 DEF Truthful
<1> QED
  BY <1>6 DEF g

(* No success is taken back, and no step with one is Running.               *)
LEMMA TruthfulRefresh ==
  ASSUME NEW f \in Flow, Truthful(f, cacheJobs)
  PROVE  LET g == refreshStepStatuses(f)
         IN  /\ Truthful(g, cacheJobs)
             /\ \A s \in Steps : g.steps[s].phase = "Running" => ~AnyPodSucceeded(cacheJobs[s])
<1> DEFINE g == refreshStepStatuses(f)
<1>1. g.listed = f.listed /\ g.phase = f.phase
  BY DEF refreshStepStatuses, Flow
<1>2. \A s \in Steps : g.steps[s] = refreshStep(f.steps[s], cacheJobs[s])
  BY DEF refreshStepStatuses, Flow
<1>3. ASSUME NEW st \in StepStatus, NEW job, TruthfulStep(st, job)
      PROVE  LET r == refreshStep(st, job)
             IN  /\ TruthfulStep(r, job)
                 /\ st.phase = "Succeeded" => r.phase = "Succeeded"
                 /\ r.phase = "Running" => ~AnyPodSucceeded(job)
  BY <1>3 DEF TruthfulStep, refreshStep, refreshStepStatusFromJob, StepStatus,
              AnyPodSucceeded
<1>4. \A s \in Steps : f.steps[s] \in StepStatus
  BY DEF Flow
<1> HIDE DEF g
<1>5. ASSUME NEW s \in Steps
      PROVE  /\ TruthfulStep(g.steps[s], cacheJobs[s])
             /\ f.steps[s].phase = "Succeeded" => g.steps[s].phase = "Succeeded"
             /\ g.steps[s].phase = "Running" => ~AnyPodSucceeded(cacheJobs[s])
  BY <1>2, <1>3, <1>4 DEF Truthful
<1>6. Truthful(g, cacheJobs)
  BY <1>1, <1>5 DEF Truthful, Whole
<1> QED
  BY <1>5, <1>6 DEF g

LEMMA TruthfulTimeouts ==
  ASSUME NEW f \in Flow, NEW c, Truthful(f, c)
  PROVE  Truthful(checkStepTimeouts(f), c)
<1> DEFINE g == checkStepTimeouts(f)
<1>1. g.listed = f.listed /\ g.phase \in {f.phase, "Failed"}
  BY DEF checkStepTimeouts, Flow
<1>2. ASSUME NEW s \in Steps
      PROVE  \/ g.steps[s] = f.steps[s]
             \/ f.steps[s].phase = "Running" /\ g.steps[s].phase = "Failed"
  BY DEF checkStepTimeouts, TimedOut, InPhase, Flow, StepStatus
<1> HIDE DEF g
<1>3. Truthful(g, c)
  BY <1>1, <1>2 DEF Truthful, TruthfulStep, Whole
<1> QED
  BY <1>3 DEF g

LEMMA TruthfulRetries ==
  ASSUME NEW f \in Flow, NEW c, Truthful(f, c)
  PROVE  Truthful(handleStepRetries(f), c)
<1> DEFINE g == handleStepRetries(f)
<1>1. g.listed = f.listed /\ g.phase = f.phase
  BY DEF handleStepRetries, Flow
<1>2. ASSUME NEW s \in Steps
      PROVE  \/ g.steps[s] = f.steps[s]
             \/ f.steps[s].phase = "Failed" /\ g.steps[s].phase = "Pending"
  BY DEF handleStepRetries, RetryDue, NewStep, Flow
<1> HIDE DEF g
<1>3. Truthful(g, c)
  BY <1>1, <1>2 DEF Truthful, TruthfulStep, Whole
<1> QED
  BY <1>3 DEF g

(* What executeStep makes of a step that has no Job, in a flow that is not  *)
(* Succeeded as a whole.                                                    *)
LEMMA TruthfulExecuted ==
  ASSUME NEW f, NEW g, NEW c, NEW s \in Steps, Truthful(f, c), ~Whole(g),
         \A t \in Steps \ {s} : g.steps[t] = f.steps[t],
         TruthfulStep(g.steps[s], c[s])
  PROVE  Truthful(g, c)
  BY DEF Truthful

LEMMA TruthfulFailure ==
  ASSUME NEW f \in Flow, NEW c, NEW s \in Steps, Truthful(f, c), ~Whole(f)
  PROVE  Truthful(handleStepFailure(f, s), c)
<1> DEFINE g == handleStepFailure(f, s)
<1>1. g.listed = f.listed /\ g.phase \in {f.phase, "Failed"}
  BY DEF handleStepFailure, Flow
<1>2. \A t \in Steps \ {s} : g.steps[t] = f.steps[t]
  BY DEF handleStepFailure, Flow
<1>3. g.steps[s].phase = "Failed"
  BY DEF handleStepFailure, Flow, StepStatus
<1> HIDE DEF g
<1>4. ~Whole(g) /\ TruthfulStep(g.steps[s], c[s])
  BY <1>1, <1>3 DEF Whole, TruthfulStep
<1>5. Truthful(g, c)
  BY <1>2, <1>4, TruthfulExecuted
<1> QED
  BY <1>5 DEF g

LEMMA TruthfulStart ==
  ASSUME NEW f \in Flow, NEW c, NEW s \in Steps, Truthful(f, c), ~Whole(f)
  PROVE  Truthful(Start(f, s), c)
<1> DEFINE g == Start(f, s)
<1>1. g.listed = f.listed /\ g.phase = f.phase
  BY DEF Start, Flow
<1>2. \A t \in Steps \ {s} : g.steps[t] = f.steps[t]
  BY DEF Start, Flow
<1>3. g.steps[s].phase = "Running" /\ g.steps[s].jobRef
  BY DEF Start, Flow, StepStatus
<1> HIDE DEF g
<1>4. ~Whole(g) /\ TruthfulStep(g.steps[s], c[s])
  BY <1>1, <1>3 DEF Whole, TruthfulStep
<1>5. Truthful(g, c)
  BY <1>2, <1>4, TruthfulExecuted
<1> QED
  BY <1>5 DEF g

LEMMA TruthfulGate ==
  ASSUME NEW f \in Flow, NEW c, NEW s \in Steps, Truthful(f, c), ~Whole(f),
         ~f.steps[s].jobRef
  PROVE  Truthful(Gate(f, s), c) /\ ~Whole(Gate(f, s))
<1> DEFINE g == Gate(f, s)
<1>1. g.listed = f.listed /\ g.phase \in {f.phase, "Paused"}
  BY DEF Gate, Flow
<1>2. \A t \in Steps \ {s} : g.steps[t] = f.steps[t]
  BY DEF Gate, Flow
<1>3. g.steps[s].phase \in {"Succeeded", "PendingApproval"} /\ ~g.steps[s].jobRef
  BY DEF Gate, Approve, Flow, StepStatus
<1> HIDE DEF g
<1>4. ~Whole(g) /\ TruthfulStep(g.steps[s], c[s])
  BY <1>1, <1>3 DEF Whole, TruthfulStep
<1>5. Truthful(g, c)
  BY <1>2, <1>4, TruthfulExecuted
<1> QED
  BY <1>4, <1>5 DEF g
----------------------------------------------------------------------------
(* Alive is an invariant.                                                   *)

LEMMA ExistsKept ==
  ASSUME NEW f \in Flow
  PROVE  /\ \A reason : /\ Reject(f, reason).exists = f.exists
                        /\ RejectAndComplete(f, reason).exists = f.exists
         /\ initializeJobFlow(f).exists = f.exists
         /\ checkManualApprovals(f).exists = f.exists
         /\ refreshStepStatuses(f).exists = f.exists
         /\ checkStepTimeouts(f).exists = f.exists
         /\ handleStepRetries(f).exists = f.exists
         /\ updateJobFlowStatus(f).exists = f.exists
         /\ \A s \in Steps : /\ handleStepFailure(f, s).exists = f.exists
                             /\ Start(f, s).exists = f.exists
                             /\ Gate(f, s).exists = f.exists
<1>1. \A reason : /\ Reject(f, reason).exists = f.exists
                  /\ RejectAndComplete(f, reason).exists = f.exists
  BY DEF Reject, RejectAndComplete, Flow
<1>2. /\ initializeJobFlow(f).exists = f.exists
      /\ checkManualApprovals(f).exists = f.exists
      /\ refreshStepStatuses(f).exists = f.exists
  BY DEF initializeJobFlow, checkManualApprovals, refreshStepStatuses, Flow
<1>3. /\ checkStepTimeouts(f).exists = f.exists
      /\ handleStepRetries(f).exists = f.exists
  BY DEF checkStepTimeouts, handleStepRetries, Flow
<1>4. updateJobFlowStatus(f).exists = f.exists
  BY DEF updateJobFlowStatus, updateConditions, Flow
<1>5. \A s \in Steps : /\ handleStepFailure(f, s).exists = f.exists
                      /\ Start(f, s).exists = f.exists
                      /\ Gate(f, s).exists = f.exists
  BY DEF handleStepFailure, Start, Gate, Flow
<1> QED
  BY <1>1, <1>2, <1>3, <1>4, <1>5

(* No step of the model gives a disturbance back.                           *)
Spent == UNCHANGED left \/ \E k \in Disturbances : Spend(k)

LEMMA LeftFalls ==
  ASSUME TypeOK, [Next]_vars
  PROVE  \A k \in Disturbances : left'[k] \in 0 .. left[k]
<1>1. ASSUME FailValidation \/ FailDeadline \/ FailBackoff \/ Initialize \/ FailCycle
      PROVE  Spent
  BY <1>1 DEF Spent, Disturbances, FailValidation, FailDeadline, FailBackoff, Initialize,
     FailCycle, Exit, WriteAndReturn, NotWritten, Refused
<1>2. ASSUME Dequeue \/ PlanSteps \/ Crash \/ \E s \in Steps : StepStatusNotFound(s)
      PROVE  Spent
  BY <1>2 DEF Spent, Disturbances, Dequeue, PlanSteps, Crash, StepStatusNotFound
<1>3. ASSUME Finish \/ CheckTTL PROVE Spent
  BY <1>3 DEF Spent, Disturbances, Finish, CheckTTL, NotWritten, Refused
<1>4. ASSUME NEW s \in Steps, ReachGate(s) PROVE Spent
  BY <1>4 DEF Spent, Disturbances, ReachGate, NotWritten, Refused
<1>5. ASSUME NEW s \in Steps, StartJob(s) PROVE Spent
  BY <1>5 DEF Spent, Disturbances, StartJob
<1>6. ASSUME Informers \/ Cluster \/ UNCHANGED vars PROVE Spent
  BY <1>6 DEF Spent, Disturbances, Informers, SyncFlow, SyncJob, Resync, Cluster, EditFlow,
     DeleteFlow, Tick, ApproveStep, PodEnds, JobEnds, DeleteJob, CollectJob, vars
<1>7. Spent
  BY <1>1, <1>2, <1>3, <1>4, <1>5, <1>6 DEF Next, Worker
<1> QED
  BY <1>7 DEF Spent, Spend, TypeOK

LEMMA BudgetKept ==
  ASSUME TypeOK, Alive, [Next]_vars
  PROVE  WithinBudget'
  BY LeftFalls, BoundsAssumption DEF Alive, WithinBudget, TypeOK

LEMMA WriteAlive ==
  ASSUME Alive, NEW f, f.exists, Written(f) \/ NotWritten(f) \/ Refused(f),
         cacheFlow' = cacheFlow
  PROVE  /\ cacheCurrent' => cacheFlow' = flow'
         /\ flow'.exists <=> flow.exists
         /\ ~flow'.exists => flow' = NoFlow
<1>1. CASE Written(f)
  <2>1. flow' = f /\ (cacheCurrent' => cacheCurrent /\ f = flow) /\ flow.exists
    BY <1>1 DEF Written, Alive
  <2> QED
    BY <2>1 DEF Alive
<1>2. CASE UNCHANGED <<flow, cacheCurrent>>
  BY <1>2 DEF Alive
<1> QED
  BY <1>1, <1>2 DEF NotWritten, Refused

LEMMA ReturnAlive ==
  ASSUME NEW requeue, Return(requeue)
  PROVE  pc' = "idle" /\ localCurrent' = FALSE
  BY DEF Return

LEMMA RemoveAlive ==
  ASSUME RemoveFlow
  PROVE  ~cacheCurrent' /\ flow' = NoFlow /\ ~flow'.exists
  BY DEF RemoveFlow, NoFlow, NewFlow

LEMMA ExitAlive ==
  ASSUME TypeOK, Alive, [Next]_vars, NEW verdict, NEW f, Exit(verdict, f),
         f.exists = local.exists
  PROVE  Alive'
<1>1. f.exists /\ cacheFlow' = cacheFlow
  BY DEF Exit, Alive, caches
<1>2. pc' = "idle" /\ localCurrent' = FALSE
  BY ReturnAlive DEF Exit, WriteAndReturn
<1>3. Written(f) \/ NotWritten(f) \/ Refused(f)
  BY DEF Exit, WriteAndReturn
<1>4. WithinBudget'
  BY BudgetKept
<1> QED
  BY <1>1, <1>2, <1>3, <1>4, WriteAlive DEF Alive
LEMMA PlanStepsAlive ==
  ASSUME TypeOK, PlanInv, Alive, PlanSteps, [Next]_vars
  PROVE  Alive'
<1> DEFINE approved  == checkManualApprovals(local)
           refreshed == refreshStepStatuses(approved)
           checked   == checkStepTimeouts(refreshed)
           retried   == handleStepRetries(checked)
<1>1. now \in Nat /\ local \in Flow /\ approved \in Flow /\ refreshed \in Flow /\ checked \in Flow
  BY CheckApprovalsType, RefreshType, TimeoutsType DEF TypeOK
<1>2. /\ local' = retried /\ plan' = createExecutionPlan(refreshed)
      /\ UNCHANGED <<flow, cacheFlow, cacheCurrent, localCurrent>>
      /\ local.exists
  BY DEF PlanSteps, caches, Alive
<1>3. Unstarted(refreshed)
  BY <1>1, ApprovalsUnstarted, RefreshUnstarted DEF PlanInv
<1>4. /\ Unstarted(checked)
      /\ \A s \in Steps : refreshed.steps[s].phase = "Pending" =>
                            checked.steps[s] = refreshed.steps[s]
  BY <1>1, <1>3, TimeoutsUnstarted
<1>5. \A s \in Steps : checked.steps[s].phase = "Pending" =>
                         retried.steps[s] = checked.steps[s]
  BY <1>1, <1>4, RetriesUnstarted
<1>6. retried.exists = local.exists
  BY <1>1, ExistsKept
<1> HIDE DEF approved, refreshed, checked, retried
<1>7. \A s \in plan' : local'.steps[s].phase = "Pending"
  BY <1>2, <1>4, <1>5 DEF createExecutionPlan, InPhase
<1>8. WithinBudget'
  BY BudgetKept
<1> QED
  BY <1>2, <1>6, <1>7, <1>8 DEF Alive

(* executeStep returned to the loop, or to the queue.                       *)
LEMMA ExecutedAlive ==
  ASSUME TypeOK, Alive, [Next]_vars, pc = "execute", NEW s \in Steps, NEW f,
         \/ StepDone(s, f) /\ Executed(local, f, s) /\ f.exists
            /\ UNCHANGED localCurrent
         \/ Return(TRUE),
         cacheFlow' = cacheFlow, cacheCurrent' => cacheFlow' = flow',
         flow'.exists <=> flow.exists, ~flow'.exists => flow' = NoFlow
  PROVE  Alive'
<1>1. WithinBudget'
  BY BudgetKept
<1>2. CASE Return(TRUE)
  BY <1>1, <1>2, ReturnAlive DEF Alive
<1>3. CASE StepDone(s, f) /\ Executed(local, f, s) /\ f.exists /\ UNCHANGED localCurrent
  <2>1. \A t \in plan' : t \in plan /\ t \in Steps \ {s} /\ f.steps[t] = local.steps[t]
    BY <1>3 DEF StepDone, Executed, TypeOK
  <2>2. local' = f /\ pc' = pc
    BY <1>3 DEF StepDone
  <2>3. \A t \in plan' : local'.steps[t].phase = "Pending"
    BY <2>1, <2>2 DEF Alive
  <2> QED
    BY <1>1, <1>3, <2>2, <2>3 DEF Alive
<1> QED
  BY <1>2, <1>3

LEMMA ReachGateAlive ==
  ASSUME TypeOK, Alive, [Next]_vars, NEW s \in Steps, ReachGate(s)
  PROVE  Alive'
<1> DEFINE g == Gate(local, s)
           failed == handleStepFailure(g, s)
<1>1. pc = "execute" /\ cacheFlow' = cacheFlow /\ now \in Nat /\ local.exists
  BY DEF ReachGate, caches, TypeOK, Alive
<1>2. local \in Flow /\ g \in Flow
  BY <1>1, GateType DEF TypeOK
<1>3. Executed(local, g, s) /\ Executed(g, failed, s) /\ g.exists /\ failed.exists
  BY <1>1, <1>2, ExecutedSteps, ExistsKept
<1>4. Executed(local, failed, s)
  BY <1>3 DEF Executed
<1>5. \/ StepDone(s, g) /\ UNCHANGED localCurrent
      \/ Return(TRUE)
      \/ StepDone(s, failed) /\ UNCHANGED localCurrent
  BY DEF ReachGate, StepFailed
<1>6. Written(g) \/ NotWritten(g) \/ Refused(g) \/ UNCHANGED <<flow, cacheCurrent>>
  BY DEF ReachGate
<1> HIDE DEF g, failed
<1>7. /\ cacheCurrent' => cacheFlow' = flow'
      /\ flow'.exists <=> flow.exists
      /\ ~flow'.exists => flow' = NoFlow
  BY <1>1, <1>3, <1>6, WriteAlive DEF Alive
<1> QED
  BY <1>1, <1>3, <1>4, <1>5, <1>7, ExecutedAlive

LEMMA StartJobAlive ==
  ASSUME TypeOK, Alive, [Next]_vars, NEW s \in Steps, StartJob(s)
  PROVE  Alive'
<1> DEFINE started == Start(local, s)
           failed == handleStepFailure(local, s)
<1>1. /\ pc = "execute" /\ local \in Flow /\ local.exists
      /\ UNCHANGED <<flow, cacheFlow, cacheCurrent>>
  BY DEF StartJob, caches, TypeOK, Alive
<1>2. /\ Executed(local, started, s) /\ Executed(local, failed, s)
      /\ started.exists /\ failed.exists
  BY <1>1, ExecutedSteps, ExistsKept
<1>3. \/ StepDone(s, started) /\ UNCHANGED localCurrent
      \/ Return(TRUE)
      \/ StepDone(s, failed) /\ UNCHANGED localCurrent
  BY DEF StartJob, StepFailed
<1> HIDE DEF started, failed
<1>4. /\ cacheCurrent' => cacheFlow' = flow'
      /\ flow'.exists <=> flow.exists
      /\ ~flow'.exists => flow' = NoFlow
  BY <1>1 DEF Alive
<1> QED
  BY <1>1, <1>2, <1>3, <1>4, ExecutedAlive

LEMMA WorkerAlive ==
  ASSUME TypeOK, PlanInv, Alive, [Next]_vars, Worker \/ Crash
  PROVE  Alive'
<1>0. WithinBudget' /\ local \in Flow
  BY BudgetKept DEF TypeOK
<1>1. CASE FailValidation
  BY <1>0, <1>1, ExistsKept, ExitAlive DEF FailValidation
<1>2. CASE FailDeadline
  BY <1>0, <1>2, ExistsKept, ExitAlive DEF FailDeadline
<1>3. CASE FailBackoff
  BY <1>0, <1>3, ExistsKept, ExitAlive DEF FailBackoff
<1>4. CASE Initialize
  BY <1>0, <1>4, ExistsKept, ExitAlive DEF Initialize
<1>5. CASE FailCycle
  BY <1>0, <1>5, ExistsKept, ExitAlive DEF FailCycle
<1>6. CASE PlanSteps
  BY <1>6, PlanStepsAlive
<1>7. ASSUME NEW s \in Steps, ReachGate(s) PROVE Alive'
  BY <1>7, ReachGateAlive
<1>8. ASSUME NEW s \in Steps, StartJob(s) PROVE Alive'
  BY <1>8, StartJobAlive
<1>9. CASE Dequeue
  <2>1. CASE cacheFlow.exists
    <3>1. /\ pc' = "check" /\ local' = cacheFlow /\ localCurrent' = cacheCurrent
          /\ UNCHANGED <<flow, cacheFlow, cacheCurrent>>
      BY <1>9, <2>1 DEF Dequeue, server, caches
    <3> QED
      BY <1>0, <2>1, <3>1 DEF Alive
  <2>2. CASE ~cacheFlow.exists
    <3>1. UNCHANGED <<pc, local, localCurrent, plan, flow, cacheFlow, cacheCurrent>>
      BY <1>9, <2>2 DEF Dequeue, server, caches
    <3> QED
      BY <1>0, <3>1 DEF Alive
  <2> QED
    BY <2>1, <2>2
<1>10. CASE Finish
  <2> DEFINE f == updateJobFlowStatus(local)
  <2>1. f.exists /\ cacheFlow' = cacheFlow
    BY <1>0, <1>10, ExistsKept DEF Finish, Alive, caches
  <2>2. /\ Written(f) \/ NotWritten(f) \/ Refused(f)
        /\ \/ pc' = "ttl" /\ local' = f /\ UNCHANGED localCurrent
           \/ pc' = "idle" /\ localCurrent' = FALSE
    BY <1>10, ReturnAlive DEF Finish
  <2> HIDE DEF f
  <2> QED
    BY <1>0, <2>1, <2>2, WriteAlive DEF Alive
<1>11. CASE CheckTTL
  <2>1. pc' = "idle" /\ localCurrent' = FALSE /\ cacheFlow' = cacheFlow
    BY <1>11, ReturnAlive DEF CheckTTL, caches
  <2>2. RemoveFlow \/ UNCHANGED <<flow, cacheCurrent>>
    BY <1>11 DEF CheckTTL
  <2> QED
    BY <1>0, <2>1, <2>2, RemoveAlive DEF Alive
<1>12. CASE Crash
  <2>1. pc' = "idle" /\ localCurrent' = FALSE /\ cacheFlow' = flow /\ flow' = flow
    BY <1>12, ReturnAlive DEF Crash, server
  <2> QED
    BY <1>0, <2>1 DEF Alive
<1>13. ASSUME NEW s \in Steps, StepStatusNotFound(s) PROVE Alive'
  <2>1. pc' = "idle" /\ localCurrent' = FALSE
    BY <1>13, ReturnAlive DEF StepStatusNotFound
  <2>2. UNCHANGED <<flow, cacheFlow, cacheCurrent>>
    BY <1>13 DEF StepStatusNotFound, server, caches
  <2> QED
    BY <1>0, <2>1, <2>2 DEF Alive
<1> QED
  BY <1>1, <1>2, <1>3, <1>4, <1>5, <1>6, <1>7, <1>8, <1>9, <1>10, <1>11, <1>12,
     <1>13 DEF Worker

LEMMA OthersAlive ==
  ASSUME TypeOK, Alive, [Next]_vars, Informers \/ Cluster \/ UNCHANGED vars
  PROVE  Alive'
<1>1. UNCHANGED <<pc, local, plan>>
  BY DEF Informers, SyncFlow, SyncJob, Resync, Cluster, EditFlow, DeleteFlow, Tick,
         ApproveStep, OtherWriter, PodEnds, JobEnds, DeleteJob, CollectJob, ChangeJob,
         vars, worker
<1>2. \/ cacheFlow' = flow /\ UNCHANGED <<flow, localCurrent>>
      \/ UNCHANGED <<flow, cacheFlow, cacheCurrent, localCurrent>>
      \/ ~cacheCurrent' /\ ~localCurrent' /\ flow.exists /\ cacheFlow' = cacheFlow
  BY DEF Informers, SyncFlow, SyncJob, Resync, Cluster, EditFlow, DeleteFlow, Tick,
         ApproveStep, OtherWriter, PodEnds, JobEnds, DeleteJob, CollectJob, ChangeJob,
         vars, caches, server, worker
<1>3. \/ flow' \in {flow, NoFlow}
      \/ \E v : flow' = [flow EXCEPT !.valid = v]
      \/ \E s \in Steps : flow' = [flow EXCEPT !.approved = @ \cup {s}]
  BY DEF Informers, SyncFlow, SyncJob, Resync, Cluster, EditFlow, DeleteFlow, Tick,
         ApproveStep, OtherWriter, PodEnds, JobEnds, DeleteJob, CollectJob, ChangeJob,
         vars, server
<1>4. flow' = NoFlow \/ (flow'.exists <=> flow.exists)
  BY <1>3 DEF TypeOK, Flow
<1>5. WithinBudget'
  BY BudgetKept
<1>6. ~flow'.exists => flow' = NoFlow
  BY <1>2, <1>4 DEF Alive
<1> QED
  BY <1>1, <1>2, <1>5, <1>6 DEF Alive

LEMMA AliveInvariant == Spec => [](TypeOK /\ PlanInv /\ Alive)
<1>1. Init => Alive
  <2>1. \A v : [NewFlow EXCEPT !.valid = v].exists
    BY DEF NewFlow
  <2>2. \A k \in Disturbances : Budget[k] <= Budget[k]
    BY BoundsAssumption
  <2> QED
    BY <2>1, <2>2 DEF Init, Alive, WithinBudget
<1>2. TypeOK /\ PlanInv /\ Alive /\ [Next]_vars => Alive'
  BY WorkerAlive, OthersAlive DEF Next
<1> QED
  BY <1>1, <1>2, PlanInvariant, PTL DEF Spec
----------------------------------------------------------------------------
(* SuccessInv is an invariant.                                              *)

(* Neither a JobFlow nor the trust in its Jobs comes back.                  *)
LEMMA UntouchedBefore ==
  ASSUME TypeOK, Alive, [Next]_vars, Untouched'
  PROVE  Untouched
<1>1. flow'.exists /\ left'["jobDeletion"] = Budget["jobDeletion"]
  BY DEF Untouched, JobsLeftAlone
<1>2. JobsLeftAlone
  BY <1>1, LeftFalls, BoundsAssumption
     DEF Alive, WithinBudget, JobsLeftAlone, TypeOK, Disturbances
<1>3. CASE Worker \/ Crash
  <2>1. \/ flow' = flow
        \/ flow.exists
        \/ \E f : Written(f) \/ NotWritten(f) \/ Refused(f)
    BY <1>3 DEF Worker, Dequeue, FailValidation, FailDeadline, FailBackoff, Initialize,
       FailCycle, Exit, WriteAndReturn, PlanSteps, Finish, CheckTTL, RemoveFlow, Crash,
       StepStatusNotFound, ReachGate, StartJob, server
  <2>2. flow' = flow \/ flow.exists
    BY <2>1 DEF Written, NotWritten, Refused, Alive
  <2> QED
    BY <1>1, <1>2, <2>2 DEF Untouched
<1>4. CASE Informers \/ Cluster \/ UNCHANGED vars
  <2>1. flow' = flow \/ flow.exists
    BY <1>4 DEF Informers, SyncFlow, SyncJob, Resync, Cluster, EditFlow, DeleteFlow, Tick,
         ApproveStep, OtherWriter, PodEnds, JobEnds, DeleteJob, CollectJob, ChangeJob,
         vars, server
  <2> QED
    BY <1>1, <1>2, <2>1 DEF Untouched
<1> QED
  BY <1>3, <1>4 DEF Next

(* A success that the cache shows is never lost: not by a timeout, since    *)
(* its step is not Running after the refresh, nor by a new Job, since its   *)
(* Job is there.                                                            *)
LEMMA TimeoutsSpareSuccess ==
  ASSUME TypeOK, Truthful(local, cacheJobs), JobsKept(cacheJobs, jobs), PlanSteps
  PROVE  JobsKept(cacheJobs, jobs')
<1> DEFINE approved  == checkManualApprovals(local)
           refreshed == refreshStepStatuses(approved)
<1>1. now \in Nat /\ local \in Flow /\ approved \in Flow
  BY CheckApprovalsType DEF TypeOK
<1>2. Truthful(approved, cacheJobs)
  BY <1>1, TruthfulApprovals
<1>3. \A s \in Steps : refreshed.steps[s].phase = "Running" => ~AnyPodSucceeded(cacheJobs[s])
  BY <1>1, <1>2, TruthfulRefresh
<1>4. \E kept \in SUBSET TimedOut(refreshed) :
        jobs' = [s \in Steps |-> IF s \in TimedOut(refreshed) \ kept
                                   THEN "absent" ELSE jobs[s]]
  BY DEF PlanSteps
<1> HIDE DEF approved, refreshed
<1>5. \A s \in TimedOut(refreshed) : refreshed.steps[s].phase = "Running"
  BY DEF TimedOut, InPhase
<1> QED
  BY <1>3, <1>4, <1>5 DEF JobsKept

LEMMA JobsOfUntouched ==
  ASSUME TypeOK, Alive, SuccessInv, [Next]_vars, Untouched, Untouched'
  PROVE  JobsKept(cacheJobs, cacheJobs') /\ JobsKept(cacheJobs', jobs')
<1>0. /\ JobsKept(cacheJobs, jobs) /\ JobsKept(cacheJobs, cacheJobs)
      /\ Truthful(local, cacheJobs)
  BY DEF SuccessInv, JobsKept
<1>1. CASE UNCHANGED <<jobs, cacheJobs>>
  BY <1>0, <1>1
<1>2. CASE PlanSteps
  <2>1. cacheJobs' = cacheJobs
    BY <1>2 DEF PlanSteps, caches
  <2> QED
    BY <1>0, <1>2, <2>1, TimeoutsSpareSuccess
<1>3. ASSUME NEW s \in Steps, Create(s), cacheJobs' = cacheJobs
      PROVE  JobsKept(cacheJobs, cacheJobs') /\ JobsKept(cacheJobs', jobs')
  BY <1>0, <1>3 DEF Create, JobsKept, AnyPodSucceeded, TypeOK
<1>4. CASE Crash
  BY <1>0, <1>4 DEF Crash, server, JobsKept
<1>5. ASSUME NEW s \in Steps, SyncJob(s)
      PROVE  JobsKept(cacheJobs, cacheJobs') /\ JobsKept(cacheJobs', jobs')
  BY <1>0, <1>5 DEF SyncJob, server, JobsKept, TypeOK
<1>6. ASSUME NEW s \in Steps, PodEnds(s) \/ JobEnds(s)
      PROVE  JobsKept(cacheJobs, cacheJobs') /\ JobsKept(cacheJobs', jobs')
  <2>1. \E state : /\ jobs' = [jobs EXCEPT ![s] = state]
                   /\ AnyPodSucceeded(jobs[s]) => AnyPodSucceeded(state)
    BY <1>6 DEF PodEnds, JobEnds, ChangeJob, AnyPodSucceeded
  <2>2. cacheJobs' = cacheJobs
    BY <1>6 DEF PodEnds, JobEnds, ChangeJob, caches
  <2> QED
    BY <1>0, <2>1, <2>2 DEF JobsKept, TypeOK
<1>7. ASSUME NEW s \in Steps, DeleteJob(s) PROVE FALSE
  <2>1. Spend("jobDeletion")
    BY <1>7 DEF DeleteJob
  <2> QED
    BY <2>1 DEF Spend, Untouched, JobsLeftAlone, TypeOK, Disturbances
<1>8. ASSUME NEW s \in Steps, CollectJob(s) PROVE FALSE
  BY <1>8 DEF CollectJob, Untouched
<1>9. CASE Worker
  BY <1>1, <1>2, <1>3, <1>9 DEF Worker, Dequeue, FailValidation, FailDeadline, FailBackoff,
     Initialize, FailCycle, Exit, Finish, CheckTTL, StepStatusNotFound, ReachGate,
     StartJob, server, caches
<1>10. CASE Informers \/ Cluster \/ UNCHANGED vars
  BY <1>1, <1>5, <1>6, <1>7, <1>8, <1>10 DEF Informers, SyncFlow, Resync, Cluster, EditFlow,
     DeleteFlow, Tick, ApproveStep, OtherWriter, vars, server, caches
<1> QED
  BY <1>4, <1>9, <1>10 DEF Next

(* The copies of the JobFlow after a step, by the Jobs the cache showed     *)
(* before it.                                                               *)
Copies ==
  /\ Truthful(flow, cacheJobs) /\ Truthful(cacheFlow, cacheJobs)
  /\ Truthful(local, cacheJobs)
CopiesNext ==
  /\ Truthful(flow', cacheJobs) /\ Truthful(cacheFlow', cacheJobs)
  /\ Truthful(local', cacheJobs)

LEMMA WriteTruthful ==
  ASSUME Copies, NEW f, Truthful(f, cacheJobs), Written(f) \/ NotWritten(f) \/ Refused(f)
  PROVE  Truthful(flow', cacheJobs)
  BY DEF Copies, Written, NotWritten, Refused

LEMMA ReturnTruthful ==
  ASSUME NEW requeue, Return(requeue)
  PROVE  Truthful(local', cacheJobs)
  BY TruthfulNew DEF Return

LEMMA ExitTruthful ==
  ASSUME Copies, NEW verdict, NEW f, Truthful(f, cacheJobs), Exit(verdict, f)
  PROVE  CopiesNext
  BY WriteTruthful, ReturnTruthful
     DEF Exit, WriteAndReturn, Copies, CopiesNext, caches

LEMMA PlanStepsTruthful ==
  ASSUME TypeOK, Copies, PlanSteps
  PROVE  CopiesNext
<1> DEFINE approved  == checkManualApprovals(local)
           refreshed == refreshStepStatuses(approved)
           checked   == checkStepTimeouts(refreshed)
           retried   == handleStepRetries(checked)
<1>1. now \in Nat /\ local \in Flow /\ approved \in Flow /\ refreshed \in Flow /\ checked \in Flow
  BY CheckApprovalsType, RefreshType, TimeoutsType DEF TypeOK
<1>2. local' = retried /\ flow' = flow /\ cacheFlow' = cacheFlow
  BY DEF PlanSteps, caches
<1>3. Truthful(approved, cacheJobs)
  BY <1>1, TruthfulApprovals DEF Copies
<1>4. Truthful(refreshed, cacheJobs)
  BY <1>1, <1>3, TruthfulRefresh
<1>5. Truthful(checked, cacheJobs)
  BY <1>1, <1>4, TruthfulTimeouts
<1>6. Truthful(retried, cacheJobs)
  BY <1>1, <1>5, TruthfulRetries
<1> HIDE DEF approved, refreshed, checked, retried
<1> QED
  BY <1>2, <1>6 DEF Copies, CopiesNext

(* A flow that plans a step is not Succeeded as a whole.                    *)
LEMMA PlannedIsNotWhole ==
  ASSUME PlanInv, Alive, Copies, pc = "execute", NEW s \in plan, s \in Steps
  PROVE  ~Whole(local) /\ ~local.steps[s].jobRef
  BY DEF PlanInv, Alive, Copies, Truthful

LEMMA ReachGateTruthful ==
  ASSUME TypeOK, PlanInv, Alive, Copies, NEW s \in Steps, ReachGate(s)
  PROVE  CopiesNext
<1> DEFINE g == Gate(local, s)
           failed == handleStepFailure(g, s)
<1>1. now \in Nat /\ local \in Flow /\ g \in Flow /\ cacheFlow' = cacheFlow
  BY GateType DEF TypeOK, ReachGate, caches
<1>2. ~Whole(local) /\ ~local.steps[s].jobRef
  BY PlannedIsNotWhole DEF ReachGate
<1>3. Truthful(g, cacheJobs) /\ ~Whole(g)
  BY <1>1, <1>2, TruthfulGate DEF Copies
<1>4. Truthful(failed, cacheJobs)
  BY <1>1, <1>3, TruthfulFailure
<1>5. local' = g \/ local' = failed \/ Return(TRUE)
  BY DEF ReachGate, StepFailed, StepDone
<1>6. Written(g) \/ NotWritten(g) \/ Refused(g) \/ flow' = flow
  BY DEF ReachGate
<1> HIDE DEF g, failed
<1>7. Truthful(flow', cacheJobs)
  BY <1>3, <1>6, WriteTruthful DEF Copies
<1> QED
  BY <1>1, <1>3, <1>4, <1>5, <1>7, ReturnTruthful DEF Copies, CopiesNext

LEMMA StartJobTruthful ==
  ASSUME TypeOK, PlanInv, Alive, Copies, NEW s \in Steps, StartJob(s)
  PROVE  CopiesNext
<1>1. local \in Flow /\ cacheFlow' = cacheFlow /\ flow' = flow
  BY DEF TypeOK, StartJob, caches
<1>2. ~Whole(local)
  BY PlannedIsNotWhole DEF StartJob
<1>3. Truthful(Start(local, s), cacheJobs) /\ Truthful(handleStepFailure(local, s), cacheJobs)
  BY <1>1, <1>2, TruthfulStart, TruthfulFailure DEF Copies
<1>4. local' = Start(local, s) \/ local' = handleStepFailure(local, s) \/ Return(TRUE)
  BY DEF StartJob, StepFailed, StepDone
<1> QED
  BY <1>1, <1>3, <1>4, ReturnTruthful DEF Copies, CopiesNext

LEMMA WorkerTruthful ==
  ASSUME TypeOK, PlanInv, Alive, Copies, Worker \/ Crash
  PROVE  CopiesNext
<1>0. local \in Flow /\ Truthful(local, cacheJobs)
  BY DEF TypeOK, Copies
<1>1. CASE FailValidation
  BY <1>0, <1>1, TruthfulWithoutSteps, ExitTruthful DEF FailValidation
<1>2. CASE FailDeadline
  BY <1>0, <1>2, TruthfulWithoutSteps, ExitTruthful DEF FailDeadline
<1>3. CASE FailBackoff
  BY <1>0, <1>3, TruthfulWithoutSteps, ExitTruthful DEF FailBackoff
<1>4. CASE Initialize
  BY <1>0, <1>4, TruthfulInitialize, ExitTruthful DEF Initialize
<1>5. CASE FailCycle
  BY <1>0, <1>5, TruthfulWithoutSteps, ExitTruthful DEF FailCycle
<1>6. CASE PlanSteps
  BY <1>6, PlanStepsTruthful
<1>7. ASSUME NEW s \in Steps, ReachGate(s) PROVE CopiesNext
  BY <1>7, ReachGateTruthful
<1>8. ASSUME NEW s \in Steps, StartJob(s) PROVE CopiesNext
  BY <1>8, StartJobTruthful
<1>9. CASE Dequeue
  <2>1. local' \in {local, cacheFlow} /\ UNCHANGED <<flow, cacheFlow>>
    BY <1>9 DEF Dequeue, server, caches
  <2> QED
    BY <2>1 DEF Copies, CopiesNext
<1>10. CASE Finish
  <2> DEFINE f == updateJobFlowStatus(local)
  <2>1. Truthful(f, cacheJobs)
    BY <1>0, TruthfulUpdate
  <2>2. /\ Written(f) \/ NotWritten(f) \/ Refused(f)
        /\ local' = f \/ \E requeue : Return(requeue)
        /\ cacheFlow' = cacheFlow
    BY <1>10 DEF Finish, caches
  <2> HIDE DEF f
  <2> QED
    BY <2>1, <2>2, WriteTruthful, ReturnTruthful DEF Copies, CopiesNext
<1>11. CASE CheckTTL
  <2>1. Truthful(local', cacheJobs) /\ cacheFlow' = cacheFlow
    BY <1>11, ReturnTruthful DEF CheckTTL, caches
  <2>2. flow' \in {flow, NoFlow}
    BY <1>11 DEF CheckTTL, RemoveFlow
  <2> QED
    BY <2>1, <2>2, TruthfulNew DEF Copies, CopiesNext
<1>12. CASE Crash
  <2>1. Truthful(local', cacheJobs) /\ flow' = flow /\ cacheFlow' = flow
    BY <1>12, ReturnTruthful DEF Crash, server
  <2> QED
    BY <2>1 DEF Copies, CopiesNext
<1>13. ASSUME NEW s \in Steps, StepStatusNotFound(s) PROVE CopiesNext
  <2>1. Truthful(local', cacheJobs) /\ flow' = flow /\ cacheFlow' = cacheFlow
    BY <1>13, ReturnTruthful DEF StepStatusNotFound, server, caches
  <2> QED
    BY <2>1 DEF Copies, CopiesNext
<1> QED
  BY <1>1, <1>2, <1>3, <1>4, <1>5, <1>6, <1>7, <1>8, <1>9, <1>10, <1>11, <1>12,
     <1>13 DEF Worker

LEMMA OthersTruthful ==
  ASSUME TypeOK, Copies, Informers \/ Cluster \/ UNCHANGED vars
  PROVE  CopiesNext
<1>1. local' = local
  BY DEF Informers, SyncFlow, SyncJob, Resync, Cluster, EditFlow, DeleteFlow, Tick,
         ApproveStep, OtherWriter, PodEnds, JobEnds, DeleteJob, CollectJob, ChangeJob,
         vars, worker
<1>2. cacheFlow' \in {cacheFlow, flow}
  BY DEF Informers, SyncFlow, SyncJob, Resync, Cluster, EditFlow, DeleteFlow, Tick,
         ApproveStep, OtherWriter, PodEnds, JobEnds, DeleteJob, CollectJob, ChangeJob,
         vars, caches
<1>3. \/ flow' \in {flow, NoFlow}
      \/ \E v : flow' = [flow EXCEPT !.valid = v]
      \/ \E s \in Steps : flow' = [flow EXCEPT !.approved = @ \cup {s}]
  BY DEF Informers, SyncFlow, SyncJob, Resync, Cluster, EditFlow, DeleteFlow, Tick,
         ApproveStep, OtherWriter, PodEnds, JobEnds, DeleteJob, CollectJob, ChangeJob,
         vars, server
<1>4. Truthful(flow', cacheJobs)
  BY <1>3, TruthfulNew, TruthfulWithoutSteps DEF TypeOK, Copies
<1> QED
  BY <1>1, <1>2, <1>4 DEF Copies, CopiesNext

LEMMA SuccessStep ==
  ASSUME TypeOK, PlanInv, Alive, SuccessInv, [Next]_vars
  PROVE  SuccessInv'
<1> SUFFICES ASSUME Untouched'
             PROVE  /\ Truthful(flow', cacheJobs')
                    /\ Truthful(cacheFlow', cacheJobs')
                    /\ Truthful(local', cacheJobs')
                    /\ JobsKept(cacheJobs', jobs')
  BY DEF SuccessInv, Truthful, TruthfulStep, Whole, JobsKept, AnyPodSucceeded
<1>1. Untouched /\ Copies
  BY UntouchedBefore DEF SuccessInv, Copies
<1>2. JobsKept(cacheJobs, cacheJobs') /\ JobsKept(cacheJobs', jobs')
  BY <1>1, JobsOfUntouched
<1>3. CopiesNext
  BY <1>1, WorkerTruthful, OthersTruthful DEF Next
<1> QED
  BY <1>2, <1>3, TruthfulKept DEF CopiesNext

LEMMA SuccessInit == Init => SuccessInv
<1> SUFFICES ASSUME Init PROVE SuccessInv
  OBVIOUS
<1>1. \A v : Truthful([NewFlow EXCEPT !.valid = v], cacheJobs)
  BY NewFlowType, TruthfulNew, TruthfulWithoutSteps
<1>2. Truthful(flow, cacheJobs) /\ cacheFlow = flow /\ local = NoFlow /\ cacheJobs = jobs
  BY <1>1 DEF Init
<1> QED
  BY <1>2, TruthfulNew DEF SuccessInv, JobsKept

(* A JobFlow that is reported Succeeded, and whose Jobs nobody has deleted, *)
(* has a success behind every one of its steps, whatever the lag of the     *)
(* caches, the timeouts, retries, refused writes and crashes before.        *)
THEOREM SuccessIsTrue == Spec => []SuccessIsReal
<1>1. Alive /\ SuccessInv /\ OrderInv => SuccessIsReal
  <2> SUFFICES ASSUME Alive, SuccessInv, OrderInv,
                      flow.phase = "Succeeded", flow.listed, JobsLeftAlone, NEW s \in Steps
               PROVE  s \in succeeded /\ flow.steps[s].phase = "Succeeded"
    BY DEF SuccessIsReal
  <2>1. flow.exists
    BY DEF Alive, NoFlow, NewFlow
  <2>2. flow.steps[s].phase = "Succeeded"
    BY <2>1 DEF SuccessInv, Untouched, Truthful, Whole
  <2> QED
    BY <2>2 DEF OrderInv, Evidence
<1>2. TypeOK /\ PlanInv /\ Alive /\ SuccessInv /\ [Next]_vars => SuccessInv'
  BY SuccessStep
<1> QED
  BY <1>1, <1>2, SuccessInit, AliveInvariant, OrderInvariant, PTL DEF Spec
----------------------------------------------------------------------------
(* What the controller has come to rest on.                                 *)

(* Deletes are not refused, or there are none to refuse.                    *)
DeletesGoThrough ==
  (\A s \in Steps : Timeout[s] = Unset) \/ left["apiError"] = Budget["apiError"]

PhaseByJob(job) ==
  IF AnyPodSucceeded(job) THEN "Succeeded"
  ELSE IF job = "absent" \/ AnyPodFailed(job) THEN "Failed" ELSE "Running"

(* There is nothing to do for the step, by the Jobs in the cache.           *)
StepAtRest(f, s) ==
  /\ f.steps[s].jobRef => f.steps[s].phase = PhaseByJob(cacheJobs[s])
  /\ f.steps[s].phase = "Pending" => ~ReadyStep(f, s)
  /\ f.steps[s].phase = "PendingApproval" => s \notin f.approved
StepsAtRest(f) == \A s \in Steps : StepAtRest(f, s)

PausedAtGate(phase, f) == phase = "Paused" <=> InPhase(f, {"PendingApproval"}) # {}

(* The phase and the progress are those of the steps.                       *)
FlowAtRest(f) ==
  /\ InPhase(f, {"Succeeded"}) = Steps => f.phase = "Succeeded"
  /\ InPhase(f, {"Succeeded", "Failed"}) = Steps => f.phase \in {"Succeeded", "Failed"}
  /\ PausedAtGate(f.phase, f)
  /\ f.progress = [successful |-> Cardinality(InPhase(f, {"Succeeded"})),
                   failed |-> Cardinality(InPhase(f, {"Failed"}))]

(* A deletion of the controller's that the cache has yet to hear of.        *)
JobGone == \E s \in Steps \ plan : jobs[s] = "absent" /\ cacheJobs[s] # "absent"

(* The worker will change the status, or it has found nothing to change.    *)
StepChanged == \E s \in Steps \ plan : local.steps[s] # flow.steps[s]
NothingToDo ==
  /\ local.steps = flow.steps /\ StepsAtRest(flow)
  /\ PausedAtGate(local.phase, flow)

(* Nothing is on its way that would have the flow reconciled again.         *)
Unqueued == Untouched /\ DeletesGoThrough /\ ~queued /\ cacheCurrent

Resting ==
  /\ pc = "check" => local = flow
  /\ pc = "execute" =>
       /\ \A s \in plan : flow.steps[s].phase = "Pending"
       /\ JobGone \/ plan # {} \/ StepChanged \/ NothingToDo
  /\ pc \in {"idle", "ttl"} /\ flow.listed =>
       JobGone \/ (FlowAtRest(flow) /\ StepsAtRest(flow))

RestInv == Unqueued => Resting

----------------------------------------------------------------------------
(* The methods of the reconciler.                                           *)

LEMMA RefreshedPhase ==
  ASSUME NEW st \in StepStatus, NEW job
  PROVE  /\ st.jobRef => refreshStep(st, job).phase = PhaseByJob(job)
         /\ ~st.jobRef => refreshStep(st, job) = st
         /\ refreshStep(st, job).jobRef = st.jobRef
         /\ refreshStep(st, job).retryCount = st.retryCount
  BY DEF refreshStep, refreshStepStatusFromJob, PhaseByJob, StepStatus,
         AnyPodSucceeded, AnyPodFailed

LEMMA PhaseByJobIs ==
  ASSUME NEW job
  PROVE  /\ PhaseByJob(job) \in {"Succeeded", "Failed", "Running"}
         /\ PhaseByJob("absent") = "Failed"
  BY DEF PhaseByJob, AnyPodSucceeded

(* Readiness depends on the steps alone.                                    *)
LEMMA ReadyBySteps ==
  ASSUME NEW f, NEW g, g.steps = f.steps, g.listed = f.listed, NEW s \in Steps
  PROVE  ReadyStep(g, s) <=> ReadyStep(f, s)
<1>1. CompletedSteps(g) = CompletedSteps(f)
  BY DEF CompletedSteps, InPhase
<1>2. evaluateWhenCondition(g, When[s]) <=> evaluateWhenCondition(f, When[s])
  BY DEF evaluateWhenCondition
<1> QED
  BY <1>1, <1>2 DEF ReadyStep

(* The final update makes phase and progress those of the steps.            *)
LEMMA UpdateAtRest ==
  ASSUME NEW f \in Flow, f.listed, PausedAtGate(f.phase, f)
  PROVE  FlowAtRest(updateJobFlowStatus(f))
<1> DEFINE g == updateJobFlowStatus(f)
           done == InPhase(f, {"Succeeded"})
           bad  == InPhase(f, {"Failed"})
<1>1. \A P : InPhase(g, P) = InPhase(f, P)
  BY DEF updateJobFlowStatus, updateConditions, InPhase, Flow
<1>2. /\ done \cup bad = InPhase(f, {"Succeeded", "Failed"})
      /\ done = Steps => bad = {}
      /\ InPhase(f, {"Succeeded", "Failed"}) = Steps => InPhase(f, {"PendingApproval"}) = {}
  BY DEF InPhase
<1>3. g.progress = [successful |-> Cardinality(done), failed |-> Cardinality(bad)]
  BY DEF updateJobFlowStatus, updateConditions, Flow
<1>4. g.phase = IF done \cup bad = Steps
                  THEN (IF bad = {} THEN "Succeeded" ELSE "Failed")
                  ELSE IF f.phase = "Pending" THEN "Running" ELSE f.phase
  BY DEF updateJobFlowStatus, updateConditions, Flow
<1>5. done = Steps => done \cup bad = Steps
  BY DEF InPhase
<1> HIDE DEF g, done, bad
<1>6. /\ done = Steps => g.phase = "Succeeded"
      /\ done \cup bad = Steps => g.phase \in {"Succeeded", "Failed"}
  BY <1>2, <1>4, <1>5
<1>7. g.phase = "Paused" <=> InPhase(f, {"PendingApproval"}) # {}
  BY <1>2, <1>4 DEF PausedAtGate
<1>8. FlowAtRest(g)
  BY <1>1, <1>2, <1>3, <1>6, <1>7 DEF FlowAtRest, PausedAtGate, done, bad
<1> QED
  BY <1>8 DEF g

(* The early exits change the status.                                       *)
LEMMA ExitChanges ==
  ASSUME NEW f \in Flow
  PROVE  /\ \A reason : Reject(f, reason) # f /\ RejectAndComplete(f, reason) # f
         /\ ~hasInitialized(f) => initializeJobFlow(f) # f
<1>1. ASSUME NEW reason
      PROVE  Reject(f, reason) # f /\ RejectAndComplete(f, reason) # f
  <2> DEFINE more == Append(f.conditions, [reason |-> reason, at |-> now])
  <2>1. f.conditions \in Seq(Condition)
    BY DEF Flow
  <2>2. Len(more) = Len(f.conditions) + 1 /\ Len(f.conditions) \in Nat
    BY <2>1
  <2>3. more # f.conditions
    BY <2>2
  <2>4. /\ Reject(f, reason).conditions = more
        /\ RejectAndComplete(f, reason).conditions = more
    BY DEF Reject, RejectAndComplete, Flow
  <2> HIDE DEF more
  <2> QED
    BY <2>3, <2>4
<1>2. ~hasInitialized(f) => initializeJobFlow(f) # f
  BY DEF hasInitialized, initializeJobFlow, Flow
<1> QED
  BY <1>1, <1>2

----------------------------------------------------------------------------
(* RestInv is an invariant.                                                 *)

LEMMA CalmBefore ==
  ASSUME TypeOK, Alive, [Next]_vars, Untouched', DeletesGoThrough'
  PROVE  Untouched /\ DeletesGoThrough
<1>1. Untouched
  BY UntouchedBefore
<1>2. left'["apiError"] \in 0 .. left["apiError"] /\ left["apiError"] <= Budget["apiError"]
  BY LeftFalls DEF Alive, WithinBudget, Disturbances
<1>3. DeletesGoThrough
  BY <1>2, BoundsAssumption DEF DeletesGoThrough, TypeOK, Disturbances
<1> QED
  BY <1>1, <1>3

LEMMA ReturnQueues ==
  ASSUME NEW requeue, Return(requeue)
  PROVE  /\ pc' = "idle" /\ plan' = {}
         /\ queued => queued'
         /\ requeue => queued'
  BY DEF Return

(* What leaves the worker and its copies alone, and makes no new Job.       *)
LEMMA RestKept ==
  ASSUME Resting, UNCHANGED <<flow, local, plan, pc, cacheJobs>>,
         \A s \in Steps : jobs[s] = "absent" => jobs'[s] = "absent"
  PROVE  Resting'
<1>1. JobGone => JobGone'
  BY DEF JobGone
<1>2. StepsAtRest(flow) => StepsAtRest(flow)'
  BY DEF StepsAtRest, StepAtRest
<1>3. (StepChanged => StepChanged') /\ (NothingToDo => NothingToDo')
  BY <1>2 DEF StepChanged, NothingToDo
<1> QED
  BY <1>1, <1>2, <1>3 DEF Resting

LEMMA DequeueRests ==
  ASSUME TypeOK, Alive, Unqueued', Dequeue
  PROVE  Resting'
<1>1. UNCHANGED <<flow, cacheFlow, cacheCurrent>>
  BY DEF Dequeue, server, caches
<1>2. cacheFlow = flow /\ flow.exists
  BY <1>1 DEF Unqueued, Untouched, Alive
<1>3. pc' = "check" /\ local' = cacheFlow
  BY <1>2 DEF Dequeue
<1> QED
  BY <1>1, <1>2, <1>3 DEF Resting

(* An early exit writes something, or has the key queued again.             *)
LEMMA ExitRests ==
  ASSUME TypeOK, Resting, Unqueued',
         FailValidation \/ FailDeadline \/ FailBackoff \/ Initialize \/ FailCycle
  PROVE  FALSE
<1>1. PICK verdict, f : Exit(verdict, f) /\ f # local
  <2>1. local \in Flow
    BY DEF TypeOK
  <2>2. CASE FailValidation
    BY <2>1, <2>2, ExitChanges DEF FailValidation
  <2>3. CASE FailDeadline
    BY <2>1, <2>3, ExitChanges DEF FailDeadline
  <2>4. CASE FailBackoff
    BY <2>1, <2>4, ExitChanges DEF FailBackoff
  <2>5. CASE FailCycle
    BY <2>1, <2>5, ExitChanges DEF FailCycle
  <2>6. CASE Initialize
    <3>1. ~hasInitialized(local)
      BY <2>6 DEF Initialize, Exit, Verdict
    <3> QED
      BY <2>1, <2>6, <3>1, ExitChanges DEF Initialize
  <2> QED
    BY <2>2, <2>3, <2>4, <2>5, <2>6
<1>2. local = flow /\ WriteAndReturn(f)
  BY <1>1 DEF Exit, Resting
<1>3. queued' \/ ~cacheCurrent'
  BY <1>1, <1>2, ReturnQueues DEF WriteAndReturn, Written
<1> QED
  BY <1>3 DEF Unqueued

(* The plan is empty, nothing is late and nothing is retried: then the      *)
(* steps are at rest.                                                       *)
LEMMA PlanStepsRests ==
  ASSUME TypeOK, SuccessInv, Resting, Unqueued, Unqueued', PlanSteps
  PROVE  Resting'
<1> DEFINE approved  == checkManualApprovals(flow)
           refreshed == refreshStepStatuses(approved)
           late      == TimedOut(refreshed)
           checked   == checkStepTimeouts(refreshed)
           retried   == handleStepRetries(checked)
<1>1. /\ now \in Nat /\ flow \in Flow /\ approved \in Flow
      /\ refreshed \in Flow /\ checked \in Flow
  BY CheckApprovalsType, RefreshType, TimeoutsType DEF TypeOK
<1>2. local = flow
  BY DEF PlanSteps, Resting
<1>3. /\ local' = retried /\ plan' = createExecutionPlan(refreshed) /\ pc' = "execute"
      /\ UNCHANGED <<flow, cacheJobs>>
      /\ \E kept \in SUBSET late :
           /\ kept # {} => Spend("apiError")
           /\ jobs' = [s \in Steps |-> IF s \in late \ kept THEN "absent" ELSE jobs[s]]
  BY <1>2 DEF PlanSteps, caches
<1>4. Truthful(flow, cacheJobs) /\ Truthful(refreshed, cacheJobs)
  <2>1. Truthful(flow, cacheJobs)
    BY DEF SuccessInv, Unqueued
  <2> QED
    BY <1>1, <2>1, TruthfulApprovals, TruthfulRefresh
(* The methods, step by step.                                               *)
<1>5. /\ \A s \in Steps :
           approved.steps[s] =
             IF flow.steps[s].phase = "PendingApproval" /\ s \in flow.approved
               THEN Approve(flow.steps[s]) ELSE flow.steps[s]
      /\ approved.phase = "Paused" <=> InPhase(flow, {"PendingApproval"}) # {}
  BY <1>1 DEF checkManualApprovals, InPhase, Flow
<1>6. \A s \in Steps : LET st == flow.steps[s]
                       IN  /\ Approve(st).phase = "Succeeded"
                           /\ Approve(st).jobRef = st.jobRef
                           /\ Approve(st).retryCount = st.retryCount
  BY <1>1 DEF Approve, Flow, StepStatus
<1>7. /\ \A s \in Steps : refreshed.steps[s] = refreshStep(approved.steps[s], cacheJobs[s])
      /\ refreshed.phase = approved.phase /\ refreshed.listed = flow.listed
  BY <1>1 DEF refreshStepStatuses, checkManualApprovals, Flow
<1>8. \A s \in Steps :
        /\ approved.steps[s] \in StepStatus
        /\ approved.steps[s].jobRef = flow.steps[s].jobRef
        /\ approved.steps[s].retryCount = flow.steps[s].retryCount
  BY <1>1, <1>5, <1>6 DEF Flow
<1>9. \A s \in Steps :
        /\ flow.steps[s].jobRef => refreshed.steps[s].phase = PhaseByJob(cacheJobs[s])
        /\ ~flow.steps[s].jobRef => refreshed.steps[s] = approved.steps[s]
        /\ refreshed.steps[s].jobRef = flow.steps[s].jobRef
        /\ refreshed.steps[s].retryCount = flow.steps[s].retryCount
  BY <1>7, <1>8, RefreshedPhase
<1>10. \A s \in Steps : refreshed.steps[s].phase = "Pending" => flow.steps[s].phase = "Pending"
  BY <1>5, <1>6, <1>9, PhaseByJobIs
<1>11. late = {} => checked.steps = refreshed.steps /\ checked.phase = refreshed.phase
  BY <1>1 DEF checkStepTimeouts, Flow
<1>12. /\ retried.phase = checked.phase
       /\ \A s \in Steps :
            \/ retried.steps[s] = checked.steps[s]
            \/ retried.steps[s].retryCount = checked.steps[s].retryCount + 1
  BY <1>1 DEF handleStepRetries, NewStep, Flow
<1>13. plan' = {s \in Steps : refreshed.steps[s].phase = "Pending" /\ ReadyStep(refreshed, s)}
  BY <1>3 DEF createExecutionPlan, InPhase
<1>14. \A s \in late : /\ s \in Steps /\ Timeout[s] # Unset
                       /\ refreshed.steps[s].phase = "Running"
  BY DEF TimedOut, InPhase, After
<1> HIDE DEF approved, refreshed, late, checked, retried
<1>15. \A s \in plan' : flow'.steps[s].phase = "Pending"
  BY <1>3, <1>10, <1>13
<1>16. ASSUME late # {} PROVE JobGone'
  <2>1. PICK s \in late : TRUE
    BY <1>16
  <2>2. PICK kept \in SUBSET late :
          /\ kept # {} => Spend("apiError")
          /\ jobs' = [t \in Steps |-> IF t \in late \ kept THEN "absent" ELSE jobs[t]]
    BY <1>3
  <2>3. kept = {}
    <3> SUFFICES ASSUME Spend("apiError") PROVE FALSE
      BY <2>2
    <3>1. left'["apiError"] = Budget["apiError"]
      BY <1>14, <2>1 DEF Unqueued, DeletesGoThrough
    <3>2. left["apiError"] = Budget["apiError"]
      BY <1>14, <2>1 DEF Unqueued, DeletesGoThrough
    <3> QED
      BY <3>1, <3>2, BoundsAssumption DEF Spend, TypeOK, Disturbances
  <2>4. jobs'[s] = "absent" /\ s \notin plan'
    BY <1>13, <1>14, <2>1, <2>2, <2>3
  <2>5. cacheJobs'[s] # "absent"
    BY <1>3, <1>4, <1>9, <1>14, <2>1, PhaseByJobIs DEF Truthful, TruthfulStep
  <2> QED
    BY <1>14, <2>1, <2>4, <2>5 DEF JobGone
<1>17. ASSUME late = {}, plan' = {}, ~StepChanged' PROVE NothingToDo'
  <2>1. \A s \in Steps : retried.steps[s] = flow.steps[s]
    BY <1>3, <1>17 DEF StepChanged
  <2>2. \A s \in Steps : flow.steps[s].retryCount \in Nat
    BY <1>1 DEF Flow, StepStatus
  <2>3. \A s \in Steps : refreshed.steps[s] = flow.steps[s]
    BY <1>9, <1>11, <1>12, <1>17, <2>1, <2>2
  <2>4. refreshed.steps = flow.steps /\ retried.steps = flow.steps
    <3>1. retried \in Flow
      BY <1>1, RetriesType DEF retried
    <3> QED
      BY <1>1, <2>1, <2>3, <3>1 DEF Flow
  <2>5. \A s \in Steps : flow.steps[s].jobRef => flow.steps[s].phase = PhaseByJob(cacheJobs[s])
    BY <1>9, <2>3
  <2>6. \A s \in Steps : flow.steps[s].phase = "Pending" => ~ReadyStep(flow, s)
    BY <1>7, <1>13, <1>17, <2>3, <2>4, ReadyBySteps
  <2>7. \A s \in Steps : flow.steps[s].phase = "PendingApproval" => s \notin flow.approved
    BY <1>4, <1>5, <1>6, <1>9, <2>3 DEF Truthful, TruthfulStep
  <2>8. StepsAtRest(flow)'
    BY <1>3, <2>5, <2>6, <2>7 DEF StepsAtRest, StepAtRest
  <2>9. PausedAtGate(local'.phase, flow')
    BY <1>3, <1>5, <1>7, <1>11, <1>12, <1>17 DEF PausedAtGate
  <2> QED
    BY <1>3, <2>4, <2>8, <2>9 DEF NothingToDo
<1> QED
  BY <1>3, <1>15, <1>16, <1>17 DEF Resting

(* executeStep changes the step it was called for.                          *)
LEMMA ExecutedRests ==
  ASSUME TypeOK, Resting, pc = "execute", NEW s \in plan, NEW f,
         Executed(local, f, s), StepDone(s, f), flow' = flow
  PROVE  Resting'
<1>1. local' = f /\ plan' = plan \ {s} /\ pc' = "execute" /\ s \in Steps
  BY DEF StepDone, TypeOK
<1>2. \A t \in plan' : flow'.steps[t].phase = "Pending"
  BY <1>1 DEF Resting
<1>3. local'.steps[s] # flow'.steps[s]
  BY <1>1 DEF Resting, Executed
<1>4. StepChanged'
  BY <1>1, <1>3 DEF StepChanged
<1> QED
  BY <1>1, <1>2, <1>4 DEF Resting

LEMMA ReachGateRests ==
  ASSUME TypeOK, Resting, Unqueued', NEW s \in Steps, ReachGate(s)
  PROVE  Resting'
<1> DEFINE g == Gate(local, s)
           failed == handleStepFailure(g, s)
<1>1. pc = "execute" /\ s \in plan /\ now \in Nat /\ local \in Flow /\ g \in Flow
  BY GateType DEF ReachGate, TypeOK
<1>2. Executed(local, g, s) /\ Executed(g, failed, s)
  BY <1>1, ExecutedSteps
<1>3. Executed(local, failed, s)
  BY <1>2 DEF Executed
<1>4. \/ Written(g) /\ StepDone(s, g)
      \/ Return(TRUE)
      \/ StepDone(s, failed) /\ flow' = flow
  BY DEF ReachGate, StepFailed, Refused
<1> HIDE DEF g, failed
<1>5. ~Written(g)
  <2>1. flow.steps[s].phase = "Pending"
    BY <1>1 DEF Resting
  <2> QED
    BY <1>2, <2>1 DEF Written, Executed, Unqueued
<1>6. ~Return(TRUE)
  BY ReturnQueues DEF Unqueued
<1> QED
  BY <1>1, <1>3, <1>4, <1>5, <1>6, ExecutedRests

LEMMA StartJobRests ==
  ASSUME TypeOK, Resting, Unqueued', NEW s \in Steps, StartJob(s)
  PROVE  Resting'
<1>1. pc = "execute" /\ s \in plan /\ local \in Flow /\ flow' = flow
  BY DEF StartJob, TypeOK
<1>2. Executed(local, Start(local, s), s) /\ Executed(local, handleStepFailure(local, s), s)
  BY <1>1, ExecutedSteps
<1>3. ~Return(TRUE)
  BY ReturnQueues DEF Unqueued
<1>4. StepDone(s, Start(local, s)) \/ StepDone(s, handleStepFailure(local, s))
  BY <1>3 DEF StartJob, StepFailed
<1> QED
  BY <1>1, <1>2, <1>4, ExecutedRests

(* The final write changes nothing only where all is at rest.               *)
LEMMA FinishRests ==
  ASSUME TypeOK, Resting, Unqueued', Finish
  PROVE  Resting'
<1> DEFINE f == updateJobFlowStatus(local)
<1>1. /\ pc = "execute" /\ plan = {} /\ plan' = {} /\ local \in Flow
      /\ pc' \in {"idle", "ttl"} /\ UNCHANGED <<jobs, cacheJobs>>
  BY ReturnQueues DEF Finish, TypeOK, caches
<1>2. Written(f)
  BY ReturnQueues DEF Finish, Unqueued
<1>3. f.steps = local.steps /\ f.listed = local.listed
  BY <1>1 DEF updateJobFlowStatus, updateConditions, Flow
<1>4. FlowAtRest(f) \/ ~local.listed \/ ~PausedAtGate(local.phase, local)
  BY <1>1, UpdateAtRest
<1> HIDE DEF f
<1>5. flow' = f /\ flow = f
  BY <1>2 DEF Written, Unqueued
<1>6. JobGone => JobGone'
  BY <1>1 DEF JobGone
<1>7. ASSUME NothingToDo, flow.listed
      PROVE  (FlowAtRest(flow) /\ StepsAtRest(flow))'
  <2>1. StepsAtRest(flow)' /\ PausedAtGate(local.phase, local)
    BY <1>1, <1>3, <1>5, <1>7 DEF NothingToDo, StepsAtRest, StepAtRest, PausedAtGate, InPhase
  <2> QED
    BY <1>3, <1>4, <1>5, <1>7, <2>1
<1>8. JobGone \/ NothingToDo
  BY <1>1, <1>3, <1>5 DEF Resting, StepChanged
<1> QED
  BY <1>1, <1>5, <1>6, <1>7, <1>8 DEF Resting

LEMMA CheckTTLRests ==
  ASSUME TypeOK, Resting, Unqueued', CheckTTL
  PROVE  Resting'
<1>1. /\ pc = "ttl" /\ pc' = "idle" /\ plan' = {} /\ UNCHANGED <<jobs, cacheJobs>>
  BY ReturnQueues DEF CheckTTL, caches
<1>2. flow' = flow
  BY ReturnQueues DEF CheckTTL, RemoveFlow, Unqueued
<1>3. JobGone => JobGone'
  BY <1>1 DEF JobGone
<1>4. StepsAtRest(flow) => StepsAtRest(flow)'
  BY <1>1, <1>2 DEF StepsAtRest, StepAtRest
<1> QED
  BY <1>1, <1>2, <1>3, <1>4 DEF Resting

LEMMA OthersRest ==
  ASSUME TypeOK, Resting, Unqueued, Unqueued', Informers \/ Cluster \/ UNCHANGED vars
  PROVE  Resting'
<1>1. ASSUME SyncFlow \/ Resync \/ \E s \in Steps : SyncJob(s) PROVE FALSE
  BY <1>1 DEF SyncFlow, Resync, SyncJob, Unqueued
<1>2. ASSUME EditFlow \/ DeleteFlow \/ \E s \in Steps : ApproveStep(s) PROVE FALSE
  BY <1>2 DEF EditFlow, DeleteFlow, ApproveStep, OtherWriter, Unqueued
<1>3. ASSUME NEW s \in Steps, DeleteJob(s) PROVE FALSE
  <2>1. Spend("jobDeletion")
    BY <1>3 DEF DeleteJob
  <2> QED
    BY <2>1 DEF Spend, Unqueued, Untouched, JobsLeftAlone, TypeOK, Disturbances
<1>4. ASSUME NEW s \in Steps, CollectJob(s) PROVE FALSE
  BY <1>4 DEF CollectJob, Unqueued, Untouched
<1>5. ASSUME NEW s \in Steps, PodEnds(s) \/ JobEnds(s) PROVE Resting'
  <2>1. UNCHANGED <<flow, local, plan, pc, cacheJobs>>
    BY <1>5 DEF PodEnds, JobEnds, ChangeJob, caches, worker
  <2>2. jobs[s] # "absent" /\ \E state : jobs' = [jobs EXCEPT ![s] = state]
    BY <1>5 DEF PodEnds, JobEnds, ChangeJob
  <2>3. \A t \in Steps : jobs[t] = "absent" => jobs'[t] = "absent"
    BY <2>2 DEF TypeOK
  <2> QED
    BY <2>1, <2>3, RestKept
<1>6. CASE Tick \/ UNCHANGED vars
  <2>1. UNCHANGED <<flow, local, plan, pc, cacheJobs, jobs>>
    BY <1>6 DEF Tick, vars, server, caches, worker
  <2> QED
    BY <2>1, RestKept
<1> QED
  BY <1>1, <1>2, <1>3, <1>4, <1>5, <1>6 DEF Informers, Cluster

LEMMA RestStep ==
  ASSUME TypeOK, Alive, SuccessInv, RestInv, [Next]_vars
  PROVE  RestInv'
<1> SUFFICES ASSUME Unqueued' PROVE Resting'
  BY DEF RestInv
<1>1. Untouched /\ DeletesGoThrough
  BY CalmBefore DEF Unqueued
<1>2. CASE Dequeue
  BY <1>2, DequeueRests
<1>3. ASSUME Crash \/ \E s \in Steps : StepStatusNotFound(s) PROVE FALSE
  BY <1>3, ReturnQueues DEF Crash, StepStatusNotFound, Unqueued
<1>4. CASE ~Dequeue
  <2>1. (queued => queued') /\ (cacheCurrent' => cacheCurrent \/ queued')
    <3>1. CASE Worker
      <4>1. \/ \E f : Written(f) \/ NotWritten(f) \/ Refused(f)
            \/ RemoveFlow
            \/ cacheCurrent' = cacheCurrent
        BY <1>3, <1>4, <3>1
           DEF Worker, FailValidation, FailDeadline, FailBackoff, Initialize, FailCycle,
               Exit, WriteAndReturn, PlanSteps, Finish, CheckTTL, ReachGate, StartJob
      <4>2. queued' = queued \/ \E requeue : Return(requeue)
        BY <1>3, <1>4, <3>1
           DEF Worker, FailValidation, FailDeadline, FailBackoff, Initialize, FailCycle,
               Exit, WriteAndReturn, PlanSteps, Finish, CheckTTL, ReachGate, StartJob,
               StepDone, StepFailed
      <4>3. cacheCurrent' => cacheCurrent
        BY <4>1 DEF Written, NotWritten, Refused, RemoveFlow
      <4>4. queued => queued'
        BY <4>2, ReturnQueues
      <4> QED
        BY <4>3, <4>4
    <3>2. CASE Informers \/ Cluster \/ UNCHANGED vars
      BY <3>2 DEF Informers, SyncFlow, SyncJob, Resync, Cluster, EditFlow, DeleteFlow, Tick,
         ApproveStep, OtherWriter, PodEnds, JobEnds, DeleteJob, CollectJob, ChangeJob, vars
    <3> QED
      BY <1>3, <3>1, <3>2 DEF Next
  <2>2. Unqueued /\ Resting
    BY <1>1, <2>1 DEF Unqueued, RestInv
  <2>3. CASE Worker
    BY <1>3, <1>4, <2>2, <2>3, ExitRests, PlanStepsRests, FinishRests, CheckTTLRests,
       ReachGateRests, StartJobRests DEF Worker
  <2>4. CASE Informers \/ Cluster \/ UNCHANGED vars
    BY <2>2, <2>4, OthersRest
  <2> QED
    BY <1>3, <2>3, <2>4 DEF Next
<1> QED
  BY <1>2, <1>4

(* When the controller is at rest, the status of a JobFlow says what its    *)
(* Jobs and approvals are: for all flows and policies, whatever faults,     *)
(* lags, crashes and edits came before, where nobody else deletes Jobs and  *)
(* no API error can have kept the controller from deleting a late one.      *)
THEOREM RestIsReconciled ==
  Spec => [](flow.listed /\ JobsLeftAlone /\ DeletesGoThrough => QuiescentIsReconciled)
<1>1. Init => RestInv
  BY DEF Init, RestInv, Unqueued
<1>2. TypeOK /\ PlanInv /\ Alive /\ SuccessInv /\ [Next]_vars => SuccessInv'
  BY SuccessStep
<1>3. TypeOK /\ Alive /\ SuccessInv /\ RestInv /\ [Next]_vars => RestInv'
  BY RestStep
<1>4. TypeOK /\ SuccessInv /\ RestInv =>
        (flow.listed /\ JobsLeftAlone /\ DeletesGoThrough => QuiescentIsReconciled)
  <2> SUFFICES ASSUME TypeOK, SuccessInv, RestInv, flow.listed, JobsLeftAlone,
                      DeletesGoThrough, Quiescent
               PROVE  FlowReconciled /\ \A s \in Steps : StepReconciled(s)
    BY DEF QuiescentIsReconciled
  <2>1. Unqueued /\ pc = "idle" /\ cacheJobs = jobs
    BY DEF Quiescent, Unqueued, Untouched
  <2>2. FlowAtRest(flow) /\ StepsAtRest(flow)
    BY <2>1 DEF RestInv, Resting, JobGone
  <2>3. flow.phase = "Succeeded" => InPhase(flow, {"Succeeded"}) = Steps
    BY <2>1 DEF SuccessInv, Unqueued, Truthful, Whole, InPhase
  <2>4. FlowReconciled
    BY <2>2, <2>3 DEF FlowAtRest, FlowReconciled, PausedAtGate
  <2>5. ASSUME NEW s \in Steps PROVE StepReconciled(s)
    <3>1. flow.steps[s] \in StepStatus
      BY DEF TypeOK, Flow
    <3>2. flow.steps[s].jobRef =>
            refreshStep(flow.steps[s], jobs[s]).phase = PhaseByJob(jobs[s])
      BY <3>1, RefreshedPhase
    <3> QED
      BY <2>1, <2>2, <3>2 DEF StepsAtRest, StepAtRest, StepReconciled, ReadyStep
  <2> QED
    BY <2>4, <2>5
<1> QED
  BY <1>1, <1>2, <1>3, <1>4, SuccessInit, AliveInvariant, PTL DEF Spec
=============================================================================
