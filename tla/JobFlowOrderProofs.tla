------------------------ MODULE JobFlowOrderProofs -------------------------
(***************************************************************************)
(* DependencyOrder holds in every behaviour of JobFlow, for every flow and *)
(* policy and any number of faults, and JobFlow implements FlowOrder.      *)
(*                                                                         *)
(* The argument: a step's phase is Succeeded or Failed in some copy of the *)
(* JobFlow only after the history variables have recorded why (Evidence).  *)
(* Copying, losing or reordering copies cannot change that, since history  *)
(* only grows; each method of the reconciler keeps it.                     *)
(***************************************************************************)
EXTENDS JobFlowProofs

----------------------------------------------------------------------------
(* Evidence is kept by what each method does to the local copy.             *)

LEMMA EvidenceGrows ==
  ASSUME NEW f, NEW S, NEW F, NEW B, Evidence(f, S, F, B),
         NEW S2, NEW F2, NEW B2, S \subseteq S2, F \subseteq F2, B \subseteq B2
  PROVE  Evidence(f, S2, F2, B2)
  BY DEF Evidence

(* The methods that leave the steps alone.                                  *)
LEMMA EvidenceSameSteps ==
  ASSUME NEW f, NEW g, NEW S, NEW F, NEW B, Evidence(f, S, F, B),
         g.steps = f.steps, g.approved = f.approved
  PROVE  Evidence(g, S, F, B)
  BY DEF Evidence

LEMMA EvidenceNew ==
  ASSUME NEW S, NEW F, NEW B
  PROVE  Evidence(NewFlow, S, F, B) /\ Evidence(NoFlow, S, F, B)
  BY DEF Evidence, NewFlow, NoFlow, NewStep

LEMMA EvidenceValid ==
  ASSUME NEW f \in Flow, NEW S, NEW F, NEW B, Evidence(f, S, F, B), NEW v
  PROVE  Evidence([f EXCEPT !.valid = v], S, F, B)
  BY DEF Evidence, Flow

LEMMA EvidenceInitialize ==
  ASSUME NEW f \in Flow, NEW S, NEW F, NEW B, Evidence(f, S, F, B)
  PROVE  Evidence(initializeJobFlow(f), S, F, B)
  BY DEF Evidence, initializeJobFlow, NewStep, Flow

LEMMA EvidenceReject ==
  ASSUME NEW f \in Flow, NEW S, NEW F, NEW B, Evidence(f, S, F, B), NEW reason
  PROVE  /\ Evidence(Reject(f, reason), S, F, B)
         /\ Evidence(RejectAndComplete(f, reason), S, F, B)
  BY DEF Evidence, Reject, RejectAndComplete, Flow

LEMMA EvidenceUpdate ==
  ASSUME NEW f \in Flow, NEW S, NEW F, NEW B, Evidence(f, S, F, B)
  PROVE  Evidence(updateJobFlowStatus(f), S, F, B)
<1>1. /\ updateJobFlowStatus(f).steps = f.steps
      /\ updateJobFlowStatus(f).approved = f.approved
  BY DEF updateJobFlowStatus, updateConditions, Flow
<1> QED
  BY <1>1, EvidenceSameSteps

LEMMA EvidenceApprovals ==
  ASSUME NEW f \in Flow, NEW S, NEW F, NEW B, Evidence(f, S, F, B)
  PROVE  Evidence(checkManualApprovals(f), S, F, B)
<1> DEFINE g == checkManualApprovals(f)
<1>1. g.approved = f.approved
  BY DEF checkManualApprovals, Flow
<1>2. ASSUME NEW s \in Steps
      PROVE  \/ g.steps[s] = f.steps[s]
             \/ /\ s \in f.approved /\ f.steps[s].phase = "PendingApproval"
                /\ g.steps[s] = Approve(f.steps[s])
  BY DEF checkManualApprovals, Flow, InPhase
<1>3. ASSUME NEW s \in Steps
      PROVE  /\ Approve(f.steps[s]).phase = "Succeeded"
             /\ Approve(f.steps[s]).jobRef = f.steps[s].jobRef
  BY DEF Approve, Flow, StepStatus
<1> HIDE DEF g
<1>4. Evidence(g, S, F, B)
  BY <1>1, <1>2, <1>3 DEF Evidence
<1> QED
  BY <1>4 DEF g

LEMMA EvidenceRefresh ==
  ASSUME NEW f \in Flow, NEW S, NEW F, NEW B, Evidence(f, S, F, B), now \in Nat,
         \A s \in Steps : AnyPodSucceeded(cacheJobs[s]) => s \in S
  PROVE  LET g == refreshStepStatuses(f)
         IN  Evidence(g, S, F \cup InPhase(g, {"Failed"}), B)
<1> DEFINE g == refreshStepStatuses(f)
<1>1. g.approved = f.approved
  BY DEF refreshStepStatuses, Flow
<1>2. ASSUME NEW s \in Steps
      PROVE  g.steps[s] = refreshStep(f.steps[s], cacheJobs[s])
  BY DEF refreshStepStatuses, Flow
<1>3. ASSUME NEW s \in Steps, NEW job, NEW st \in StepStatus
      PROVE  LET r == refreshStep(st, job)
             IN  /\ r.jobRef = st.jobRef
                 /\ ~st.jobRef => r.phase = st.phase
                 /\ st.jobRef /\ r.phase = "Succeeded" => AnyPodSucceeded(job)
  BY DEF refreshStep, refreshStepStatusFromJob, StepStatus
<1>4. \A s \in Steps : f.steps[s] \in StepStatus
  BY DEF Flow
<1> HIDE DEF g
<1>5. Evidence(g, S, F \cup InPhase(g, {"Failed"}), B)
  BY <1>1, <1>2, <1>3, <1>4 DEF Evidence, InPhase
<1> QED
  BY <1>5 DEF g

LEMMA EvidenceTimeouts ==
  ASSUME NEW f \in Flow, NEW S, NEW F, NEW B, now \in Nat,
         Evidence(f, S, F \cup InPhase(f, {"Failed"}), B)
  PROVE  LET g == checkStepTimeouts(f)
         IN  /\ InPhase(f, {"Failed"}) \subseteq InPhase(g, {"Failed"})
             /\ Evidence(g, S, F \cup InPhase(g, {"Failed"}), B)
<1> DEFINE g == checkStepTimeouts(f)
<1>1. g.approved = f.approved
  BY DEF checkStepTimeouts, Flow
<1>2. ASSUME NEW s \in Steps
      PROVE  \/ g.steps[s] = f.steps[s]
             \/ /\ f.steps[s].phase = "Running"
                /\ g.steps[s] = [f.steps[s] EXCEPT !.phase = "Failed",
                                                   !.completionTime = now]
  BY DEF checkStepTimeouts, TimedOut, InPhase, Flow
<1>3. ASSUME NEW s \in Steps
      PROVE  LET st == [f.steps[s] EXCEPT !.phase = "Failed", !.completionTime = now]
             IN  st.phase = "Failed" /\ st.jobRef = f.steps[s].jobRef
  BY DEF Flow, StepStatus
<1> HIDE DEF g
<1>4. InPhase(f, {"Failed"}) \subseteq InPhase(g, {"Failed"})
  BY <1>2 DEF InPhase
<1>5. Evidence(g, S, F \cup InPhase(g, {"Failed"}), B)
  BY <1>1, <1>2, <1>3, <1>4 DEF Evidence, InPhase
<1> QED
  BY <1>4, <1>5 DEF g

LEMMA EvidenceRetries ==
  ASSUME NEW f \in Flow, NEW S, NEW F, NEW B, Evidence(f, S, F, B)
  PROVE  Evidence(handleStepRetries(f), S, F, B)
<1> DEFINE g == handleStepRetries(f)
<1>1. g.approved = f.approved
  BY DEF handleStepRetries, Flow
<1>2. ASSUME NEW s \in Steps
      PROVE  \/ g.steps[s] = f.steps[s]
             \/ g.steps[s].phase = "Pending" /\ ~g.steps[s].jobRef
  BY DEF handleStepRetries, NewStep, Flow
<1> HIDE DEF g
<1>3. Evidence(g, S, F, B)
  BY <1>1, <1>2 DEF Evidence
<1> QED
  BY <1>3 DEF g

LEMMA EvidenceFailure ==
  ASSUME NEW f \in Flow, NEW S, NEW F, NEW B, Evidence(f, S, F, B), NEW s \in Steps
  PROVE  Evidence(handleStepFailure(f, s), S, F \cup {s}, B \cup {s})
<1> DEFINE g == handleStepFailure(f, s)
<1>1. g.approved = f.approved
  BY DEF handleStepFailure, Flow
<1>2. \A t \in Steps \ {s} : g.steps[t] = f.steps[t]
  BY DEF handleStepFailure, Flow
<1>3. g.steps[s].phase = "Failed"
  BY DEF handleStepFailure, Flow, StepStatus
<1> HIDE DEF g
<1>4. Evidence(g, S, F \cup {s}, B \cup {s})
  BY <1>1, <1>2, <1>3 DEF Evidence
<1> QED
  BY <1>4 DEF g

LEMMA EvidenceStart ==
  ASSUME NEW f \in Flow, NEW S, NEW F, NEW B, Evidence(f, S, F, B), NEW s \in Steps
  PROVE  Evidence(Start(f, s), S, F, B \cup {s})
<1> DEFINE g == Start(f, s)
<1>1. g.approved = f.approved
  BY DEF Start, Flow
<1>2. \A t \in Steps \ {s} : g.steps[t] = f.steps[t]
  BY DEF Start, Flow
<1>3. g.steps[s].phase = "Running"
  BY DEF Start, Flow, StepStatus
<1> HIDE DEF g
<1>4. Evidence(g, S, F, B \cup {s})
  BY <1>1, <1>2, <1>3 DEF Evidence
<1> QED
  BY <1>4 DEF g

LEMMA EvidenceGate ==
  ASSUME NEW f \in Flow, NEW S, NEW F, NEW B, Evidence(f, S, F, B), NEW s \in Steps
  PROVE  Evidence(Gate(f, s), S, F, B \cup {s})
<1> DEFINE g == Gate(f, s)
<1>1. g.approved = f.approved
  BY DEF Gate, Flow
<1>2. \A t \in Steps \ {s} : g.steps[t] = f.steps[t]
  BY DEF Gate, Flow
<1>3. \/ s \in f.approved /\ g.steps[s].phase = "Succeeded"
      \/ g.steps[s].phase = "PendingApproval"
  BY DEF Gate, Approve, Flow, StepStatus
<1> HIDE DEF g
<1>4. Evidence(g, S, F, B \cup {s})
  BY <1>1, <1>2, <1>3 DEF Evidence
<1> QED
  BY <1>4 DEF g

----------------------------------------------------------------------------
(* History only grows, and a step is begun only from the plan.              *)

HistoryGrows ==
  begun \subseteq begun' /\ succeeded \subseteq succeeded' /\ failureSeen \subseteq failureSeen'

SettlingStep == HistoryGrows /\ begun' = begun

BeginningStep(s) ==
  /\ s \in plan
  /\ begun' = begun \cup {s} /\ succeeded' = succeeded
  /\ failureSeen' = failureSeen \/ failureSeen' = failureSeen \cup {s}

LEMMA HistoryStep ==
  ASSUME [Next]_vars
  PROVE  SettlingStep \/ \E s \in Steps : BeginningStep(s)
<1>1. CASE FailValidation \/ FailDeadline \/ FailBackoff \/ Initialize \/ FailCycle
  BY <1>1 DEF FailValidation, FailDeadline, FailBackoff, Initialize, FailCycle,
              Exit, history, SettlingStep, HistoryGrows
<1>2. CASE \/ Dequeue \/ PlanSteps \/ Finish \/ CheckTTL \/ Crash
           \/ \E s \in Steps : StepStatusNotFound(s)
  BY <1>2 DEF Dequeue, PlanSteps, Finish, CheckTTL, Crash, StepStatusNotFound,
              history, SettlingStep, HistoryGrows
<1>3. ASSUME NEW s \in Steps, ReachGate(s) PROVE BeginningStep(s)
  BY <1>3 DEF ReachGate, StepFailed, BeginningStep
<1>4. ASSUME NEW s \in Steps, StartJob(s) PROVE BeginningStep(s)
  BY <1>4 DEF StartJob, StepFailed, BeginningStep
<1>5. CASE Informers
  BY <1>5 DEF Informers, SyncFlow, SyncJob, Resync, history, SettlingStep, HistoryGrows
<1>6. CASE Cluster
  BY <1>6 DEF Cluster, EditFlow, DeleteFlow, Tick, ApproveStep, OtherWriter,
              PodEnds, JobEnds, DeleteJob, CollectJob, ChangeJob, history,
              SettlingStep, HistoryGrows
<1>7. CASE UNCHANGED vars
  BY <1>7 DEF vars, SettlingStep, HistoryGrows
<1> QED
  BY <1>1, <1>2, <1>3, <1>4, <1>5, <1>6, <1>7 DEF Next, Worker

LEMMA HistoryGrowsAlways ==
  ASSUME [Next]_vars
  PROVE  HistoryGrows
  BY HistoryStep DEF SettlingStep, BeginningStep, HistoryGrows

----------------------------------------------------------------------------
(* OrderInv is an invariant.                                                *)

Evident(f) == Evidence(f, succeeded, failureSeen, begun)
EvidentNext(f) == Evidence(f, succeeded', failureSeen', begun')

LEMMA EvidentStays ==
  ASSUME HistoryGrows, NEW f, Evident(f)
  PROVE  EvidentNext(f)
  BY EvidenceGrows DEF HistoryGrows, Evident, EvidentNext

(* What every action has to establish.                                      *)
LEMMA OrderKept ==
  ASSUME TypeOK, OrderInv, HistoryGrows,
         EvidentNext(flow'), EvidentNext(cacheFlow'), EvidentNext(local'),
         JobsEvident', failureSeen' \subseteq begun',
         begun' \subseteq begun \cup plan,
         \A s \in plan' : s \in plan \/ Deps[s] \subseteq Settled'
  PROVE  OrderInv'
<1>1. Settled \subseteq Settled'
  BY DEF Settled, HistoryGrows
<1>2. \A s \in begun \cup plan : Deps[s] \subseteq Settled'
  BY <1>1 DEF OrderInv, DependencyOrder
<1> QED
  BY <1>2 DEF OrderInv, DependencyOrder, EvidentNext, JobsEvident

LEMMA WriteEvident ==
  ASSUME NEW f, EvidentNext(f), EvidentNext(flow),
         Written(f) \/ NotWritten(f) \/ Refused(f)
  PROVE  EvidentNext(flow')
  BY DEF Written, NotWritten, Refused

LEMMA ReturnEvident ==
  ASSUME NEW requeue, Return(requeue)
  PROVE  EvidentNext(local') /\ plan' = {}
  BY EvidenceNew DEF Return, EvidentNext

LEMMA JobsStay ==
  ASSUME JobsEvident, HistoryGrows, UNCHANGED <<jobs, cacheJobs>>
  PROVE  JobsEvident'
  BY DEF JobsEvident, HistoryGrows

LEMMA ExitOrder ==
  ASSUME TypeOK, OrderInv, HistoryGrows, NEW verdict, NEW f, Evident(f),
         Exit(verdict, f)
  PROVE  OrderInv'
<1>1. /\ EvidentNext(f) /\ EvidentNext(flow) /\ EvidentNext(cacheFlow)
      /\ JobsEvident
  BY EvidentStays DEF OrderInv, Evident, JobsEvident
<1>2. EvidentNext(flow')
  BY <1>1, WriteEvident DEF Exit, WriteAndReturn
<1>3. EvidentNext(local') /\ plan' = {}
  BY ReturnEvident DEF Exit, WriteAndReturn
<1>4. EvidentNext(cacheFlow') /\ JobsEvident'
  BY <1>1, JobsStay DEF Exit, caches
<1>5. failureSeen' \subseteq begun' /\ begun' \subseteq begun \cup plan
  BY DEF Exit, history, OrderInv
<1> QED
  BY <1>2, <1>3, <1>4, <1>5, OrderKept

(* A step is planned on the evidence of the refreshed copy.                 *)
LEMMA PlanOrder ==
  ASSUME TypeOK, OrderInv, HistoryGrows, PlanSteps
  PROVE  OrderInv'
<1> DEFINE approved  == checkManualApprovals(local)
           refreshed == refreshStepStatuses(approved)
           checked   == checkStepTimeouts(refreshed)
           retried   == handleStepRetries(checked)
<1>1. now \in Nat /\ local \in Flow /\ approved \in Flow /\ refreshed \in Flow /\ checked \in Flow
  BY CheckApprovalsType, RefreshType, TimeoutsType DEF TypeOK
<1>2. /\ local' = retried /\ plan' = createExecutionPlan(refreshed)
      /\ failureSeen' = failureSeen \cup InPhase(checked, {"Failed"})
      /\ begun' = begun /\ succeeded' = succeeded
      /\ flow' = flow /\ cacheFlow' = cacheFlow /\ cacheJobs' = cacheJobs
  BY DEF PlanSteps, caches
<1>3. Evidence(approved, succeeded, failureSeen, begun)
  BY <1>1, EvidenceApprovals DEF OrderInv
<1>4. Evidence(refreshed, succeeded, failureSeen \cup InPhase(refreshed, {"Failed"}), begun)
  BY <1>1, <1>3, EvidenceRefresh DEF OrderInv, JobsEvident
<1>5. /\ InPhase(refreshed, {"Failed"}) \subseteq InPhase(checked, {"Failed"})
      /\ Evidence(checked, succeeded, failureSeen \cup InPhase(checked, {"Failed"}), begun)
  BY <1>1, <1>4, EvidenceTimeouts
<1>6. EvidentNext(retried)
  BY <1>1, <1>2, <1>5, EvidenceRetries DEF EvidentNext
<1> HIDE DEF approved, refreshed, checked, retried
<1>7. failureSeen' \subseteq begun'
  BY <1>2, <1>5 DEF OrderInv, Evidence, InPhase
<1>8. CompletedSteps(refreshed) \subseteq Settled'
  BY <1>2, <1>4, <1>5 DEF CompletedSteps, Settled, Evidence, InPhase
<1>9. \A s \in plan' : Deps[s] \subseteq Settled'
  BY <1>2, <1>8 DEF createExecutionPlan, ReadyStep
<1>10. EvidentNext(flow') /\ EvidentNext(cacheFlow')
  BY <1>2, EvidentStays DEF OrderInv, Evident
<1>11. \A s \in Steps : jobs'[s] \in {jobs[s], "absent"}
  BY DEF PlanSteps
<1>12. JobsEvident'
  BY <1>2, <1>11 DEF JobsEvident, OrderInv, AnyPodSucceeded
<1> QED
  BY <1>2, <1>6, <1>7, <1>9, <1>10, <1>12, OrderKept

LEMMA StepFailedOrder ==
  ASSUME TypeOK, OrderInv, HistoryGrows, NEW s \in Steps, NEW f \in Flow,
         Evidence(f, succeeded, failureSeen, begun'), StepFailed(s, f),
         begun' = begun \cup {s}
  PROVE  EvidentNext(local') /\ plan' \subseteq plan /\ failureSeen' \subseteq begun'
<1>1. /\ local' = handleStepFailure(f, s) /\ plan' \subseteq plan
      /\ failureSeen' = failureSeen \cup {s} /\ begun' = begun' \cup {s}
  BY DEF StepFailed, StepDone
<1>2. Evidence(local', succeeded, failureSeen', begun')
  BY <1>1, EvidenceFailure
<1>3. EvidentNext(local')
  BY <1>2, EvidenceGrows DEF EvidentNext, HistoryGrows
<1> QED
  BY <1>1, <1>3 DEF OrderInv

LEMMA GateOrder ==
  ASSUME TypeOK, OrderInv, HistoryGrows, NEW s \in Steps, ReachGate(s)
  PROVE  OrderInv'
<1>1. begun' = begun \cup {s} /\ s \in plan /\ succeeded' = succeeded
  BY DEF ReachGate
<1>2. EvidentNext(flow) /\ EvidentNext(cacheFlow) /\ EvidentNext(local)
  BY EvidentStays DEF OrderInv, Evident
<1>3. Evidence(Gate(local, s), succeeded, failureSeen, begun')
  BY <1>1, EvidenceGate DEF OrderInv, TypeOK
<1>4. EvidentNext(Gate(local, s))
  BY <1>3, EvidenceGrows DEF EvidentNext, HistoryGrows
<1>5. EvidentNext(flow')
  BY <1>2, <1>4, WriteEvident DEF ReachGate
<1>6. EvidentNext(local') /\ plan' \subseteq plan /\ failureSeen' \subseteq begun'
  <2>1. CASE StepDone(s, Gate(local, s)) /\ UNCHANGED failureSeen
    BY <1>1, <1>4, <2>1 DEF StepDone, OrderInv
  <2>2. CASE Return(TRUE) /\ UNCHANGED failureSeen
    BY <1>1, <2>2, ReturnEvident DEF OrderInv
  <2>3. CASE StepFailed(s, Gate(local, s))
    BY <1>1, <1>3, <2>3, GateType, StepFailedOrder DEF TypeOK
  <2> QED
    BY <2>1, <2>2, <2>3 DEF ReachGate
<1>7. EvidentNext(cacheFlow') /\ JobsEvident'
  BY <1>2, JobsStay DEF ReachGate, caches, OrderInv
<1> QED
  BY <1>1, <1>5, <1>6, <1>7, OrderKept

LEMMA StartOrder ==
  ASSUME TypeOK, OrderInv, HistoryGrows, NEW s \in Steps, StartJob(s)
  PROVE  OrderInv'
<1>1. /\ begun' = begun \cup {s} /\ s \in plan /\ succeeded' = succeeded
      /\ flow' = flow /\ cacheFlow' = cacheFlow /\ cacheJobs' = cacheJobs
  BY DEF StartJob, caches
<1>2. EvidentNext(flow') /\ EvidentNext(cacheFlow')
  BY <1>1, EvidentStays DEF OrderInv, Evident
<1>3. Evidence(Start(local, s), succeeded, failureSeen, begun')
  BY <1>1, EvidenceStart DEF OrderInv, TypeOK
<1>4. EvidentNext(Start(local, s))
  BY <1>3, EvidenceGrows DEF EvidentNext, HistoryGrows
<1>5. EvidentNext(local') /\ plan' \subseteq plan /\ failureSeen' \subseteq begun'
  <2>1. CASE StepDone(s, Start(local, s)) /\ UNCHANGED failureSeen
    BY <1>1, <1>4, <2>1 DEF StepDone, OrderInv
  <2>2. CASE Return(TRUE) /\ UNCHANGED failureSeen
    BY <1>1, <2>2, ReturnEvident DEF OrderInv
  <2>3. CASE StepFailed(s, local)
    <3>1. Evidence(local, succeeded, failureSeen, begun') /\ local \in Flow
      BY <1>1, EvidenceGrows DEF OrderInv, TypeOK
    <3> QED
      BY <1>1, <2>3, <3>1, StepFailedOrder
  <2> QED
    BY <2>1, <2>2, <2>3 DEF StartJob
<1>6. jobs' = jobs \/ jobs' = [jobs EXCEPT ![s] = "active"]
  BY DEF StartJob, Create
<1>7. \A t \in Steps : jobs'[t] = jobs[t] \/ (t = s /\ jobs'[t] = "active")
  BY <1>6 DEF TypeOK
<1>8. JobsEvident'
  BY <1>1, <1>7 DEF JobsEvident, OrderInv, AnyPodSucceeded
<1> QED
  BY <1>1, <1>2, <1>5, <1>8, OrderKept

LEMMA ChangeJobOrder ==
  ASSUME TypeOK, OrderInv, HistoryGrows, NEW s \in Steps, NEW state,
         ChangeJob(s, state), jobs[s] # "absent"
  PROVE  OrderInv'
<1>1. /\ flow' = flow /\ cacheFlow' = cacheFlow /\ cacheJobs' = cacheJobs
      /\ local' = local /\ plan' = plan /\ begun' = begun
      /\ failureSeen' = failureSeen
      /\ succeeded' = IF AnyPodSucceeded(state) THEN succeeded \cup {s} ELSE succeeded
  BY DEF ChangeJob, caches, worker
<1>2. EvidentNext(flow') /\ EvidentNext(cacheFlow') /\ EvidentNext(local')
  BY <1>1, EvidentStays DEF OrderInv, Evident
<1>3. \A t \in Steps : jobs'[t] = IF t = s THEN state ELSE jobs[t]
  BY DEF ChangeJob, TypeOK
<1>4. JobsEvident'
  BY <1>1, <1>3 DEF JobsEvident, OrderInv
<1> QED
  BY <1>1, <1>2, <1>4, OrderKept DEF OrderInv

LEMMA OrderStep ==
  ASSUME TypeOK, OrderInv, [Next]_vars
  PROVE  OrderInv'
<1>0. HistoryGrows
  BY HistoryGrowsAlways
<1>1. local \in Flow /\ flow \in Flow
  BY DEF TypeOK
<1>2. EvidentNext(flow) /\ EvidentNext(cacheFlow) /\ EvidentNext(local)
  BY <1>0, EvidentStays DEF OrderInv, Evident
<1>3. Evident(local)
  BY DEF OrderInv, Evident
<1>4. CASE FailValidation
  BY <1>0, <1>1, <1>3, <1>4, EvidenceReject, ExitOrder DEF FailValidation, Evident
<1>5. CASE FailDeadline
  BY <1>0, <1>1, <1>3, <1>5, EvidenceReject, ExitOrder DEF FailDeadline, Evident
<1>6. CASE FailBackoff
  BY <1>0, <1>1, <1>3, <1>6, EvidenceReject, ExitOrder DEF FailBackoff, Evident
<1>7. CASE Initialize
  BY <1>0, <1>1, <1>3, <1>7, EvidenceInitialize, ExitOrder DEF Initialize, Evident
<1>8. CASE FailCycle
  BY <1>0, <1>1, <1>3, <1>8, EvidenceReject, ExitOrder DEF FailCycle, Evident
<1>9. CASE PlanSteps
  BY <1>0, <1>9, PlanOrder
<1>10. ASSUME NEW s \in Steps, ReachGate(s) PROVE OrderInv'
  BY <1>0, <1>10, GateOrder
<1>11. ASSUME NEW s \in Steps, StartJob(s) PROVE OrderInv'
  BY <1>0, <1>11, StartOrder
<1>12. CASE Dequeue
  <2>1. local' \in {local, cacheFlow} /\ UNCHANGED <<flow, cacheFlow, plan, begun, failureSeen>>
    BY <1>12 DEF Dequeue, server, caches, history
  <2>2. JobsEvident'
    BY <1>0, <1>12, JobsStay DEF Dequeue, server, caches, OrderInv
  <2> QED
    BY <1>0, <1>2, <2>1, <2>2, OrderKept DEF OrderInv
<1>13. CASE Finish
  <2>1. EvidentNext(updateJobFlowStatus(local))
    BY <1>1, <1>2, EvidenceUpdate DEF EvidentNext
  <2>2. EvidentNext(flow')
    BY <1>2, <1>13, <2>1, WriteEvident DEF Finish
  <2>3. EvidentNext(local') /\ plan' \subseteq plan
    BY <1>13, <2>1, ReturnEvident DEF Finish
  <2>4. JobsEvident'
    BY <1>0, <1>13, JobsStay DEF Finish, caches, OrderInv
  <2>5. UNCHANGED <<cacheFlow, begun, failureSeen>>
    BY <1>13 DEF Finish, caches, history
  <2> QED
    BY <1>0, <1>2, <2>2, <2>3, <2>4, <2>5, OrderKept DEF OrderInv
<1>14. CASE CheckTTL
  <2>1. EvidentNext(flow')
    BY <1>2, <1>14, EvidenceNew DEF CheckTTL, RemoveFlow, EvidentNext
  <2>2. EvidentNext(local') /\ plan' = {}
    BY <1>14, ReturnEvident DEF CheckTTL
  <2>3. JobsEvident'
    BY <1>0, <1>14, JobsStay DEF CheckTTL, caches, OrderInv
  <2>4. UNCHANGED <<cacheFlow, begun, failureSeen>>
    BY <1>14 DEF CheckTTL, caches, history
  <2> QED
    BY <1>0, <1>2, <2>1, <2>2, <2>3, <2>4, OrderKept DEF OrderInv
<1>15. CASE Crash
  <2>1. EvidentNext(local') /\ plan' = {}
    BY <1>15, ReturnEvident DEF Crash
  <2>2. JobsEvident'
    BY <1>15 DEF Crash, server, history, JobsEvident, OrderInv
  <2>3. cacheFlow' = flow /\ UNCHANGED <<flow, begun, failureSeen>>
    BY <1>15 DEF Crash, server, history
  <2> QED
    BY <1>0, <1>2, <2>1, <2>2, <2>3, OrderKept DEF OrderInv
<1>16. CASE SyncFlow \/ Resync
  <2>1. /\ cacheFlow' \in {cacheFlow, flow}
        /\ UNCHANGED <<flow, local, plan, begun, failureSeen>>
    BY <1>16 DEF SyncFlow, Resync, server, caches, worker, history
  <2>2. JobsEvident'
    BY <1>0, <1>16, JobsStay DEF SyncFlow, Resync, server, caches, OrderInv
  <2> QED
    BY <1>0, <1>2, <2>1, <2>2, OrderKept DEF OrderInv
<1>17. ASSUME NEW s \in Steps, SyncJob(s) PROVE OrderInv'
  <2>1. UNCHANGED <<flow, cacheFlow, local, plan, begun, failureSeen, succeeded, jobs>>
    BY <1>17 DEF SyncJob, server, worker, history
  <2>2. \A t \in Steps : cacheJobs'[t] \in {cacheJobs[t], jobs[t]}
    BY <1>17 DEF SyncJob, TypeOK
  <2>3. JobsEvident'
    BY <2>1, <2>2 DEF JobsEvident, OrderInv
  <2> QED
    BY <1>0, <1>2, <2>1, <2>3, OrderKept DEF OrderInv
<1>18. CASE EditFlow \/ DeleteFlow
  <2>1. UNCHANGED <<cacheFlow, local, plan, begun, failureSeen>>
    BY <1>18 DEF EditFlow, DeleteFlow, OtherWriter, caches
  <2>2. JobsEvident'
    BY <1>0, <1>18, JobsStay DEF EditFlow, DeleteFlow, OtherWriter, caches, OrderInv
  <2>3. \A v \in BOOLEAN : EvidentNext([flow EXCEPT !.valid = v])
    BY <1>1, <1>2, EvidenceValid DEF EvidentNext
  <2>4. EvidentNext(flow')
    BY <1>18, <2>3, EvidenceNew, PolicyAssumption DEF EditFlow, DeleteFlow, EvidentNext
  <2> QED
    BY <1>0, <1>2, <2>1, <2>2, <2>4, OrderKept DEF OrderInv
<1>19. ASSUME NEW s \in Steps, ApproveStep(s) PROVE OrderInv'
  <2>1. /\ flow' = [flow EXCEPT !.approved = @ \cup {s}]
        /\ succeeded' = succeeded \cup {s}
        /\ UNCHANGED <<cacheFlow, local, plan, begun, failureSeen>>
    BY <1>19 DEF ApproveStep, OtherWriter, caches
  <2>2. flow'.approved = flow.approved \cup {s} /\ flow'.steps = flow.steps
    BY <1>1, <2>1 DEF Flow
  <2>3. EvidentNext(flow')
    BY <1>2, <2>1, <2>2 DEF EvidentNext, Evidence
  <2>4. JobsEvident'
    BY <1>0, <1>19, JobsStay DEF ApproveStep, OtherWriter, caches, OrderInv
  <2> QED
    BY <1>0, <1>2, <2>1, <2>3, <2>4, OrderKept DEF OrderInv
<1>20. CASE Tick \/ UNCHANGED vars
  <2>1. UNCHANGED <<flow, cacheFlow, local, plan, begun, failureSeen>>
    BY <1>20 DEF Tick, vars, server, caches, worker, history
  <2>2. JobsEvident'
    BY <1>0, <1>20, JobsStay DEF Tick, vars, server, caches, OrderInv
  <2> QED
    BY <1>0, <1>2, <2>1, <2>2, OrderKept DEF OrderInv
<1>21. ASSUME NEW s \in Steps,
              PodEnds(s) \/ JobEnds(s) \/ DeleteJob(s) \/ CollectJob(s)
       PROVE  OrderInv'
  <2>1. jobs[s] # "absent" /\ \E state \in JobStates : ChangeJob(s, state)
    BY <1>21 DEF PodEnds, JobEnds, DeleteJob, CollectJob, JobStates
  <2> QED
    BY <1>0, <2>1, ChangeJobOrder
<1>22. ASSUME NEW s \in Steps, StepStatusNotFound(s) PROVE OrderInv'
  <2>1. EvidentNext(local') /\ plan' = {}
    BY <1>22, ReturnEvident DEF StepStatusNotFound
  <2>2. UNCHANGED <<flow, cacheFlow, begun, failureSeen>>
    BY <1>22 DEF StepStatusNotFound, server, caches, history
  <2>3. JobsEvident'
    BY <1>0, <1>22, JobsStay DEF StepStatusNotFound, server, caches, OrderInv
  <2> QED
    BY <1>0, <1>2, <2>1, <2>2, <2>3, OrderKept DEF OrderInv
<1> QED
  BY <1>4, <1>5, <1>6, <1>7, <1>8, <1>9, <1>10, <1>11, <1>12, <1>13, <1>14,
     <1>15, <1>16, <1>17, <1>18, <1>19, <1>20, <1>21, <1>22
     DEF Next, Worker, Informers, Cluster

LEMMA OrderInit == Init => OrderInv
<1> SUFFICES ASSUME Init PROVE OrderInv
  OBVIOUS
<1>1. \A s \in Steps : jobs[s] = "absent" /\ cacheJobs[s] = "absent"
  BY DEF Init
<1>2. JobsEvident
  BY <1>1 DEF JobsEvident, AnyPodSucceeded
<1>3. /\ Evidence(flow, succeeded, failureSeen, begun)
      /\ Evidence(cacheFlow, succeeded, failureSeen, begun)
      /\ Evidence(local, succeeded, failureSeen, begun)
  <2>1. \A v \in BOOLEAN :
          Evidence([NewFlow EXCEPT !.valid = v], succeeded, failureSeen, begun)
    BY EvidenceNew, EvidenceValid, NewFlowType
  <2> QED
    BY <2>1, EvidenceNew, PolicyAssumption DEF Init
<1> QED
  BY <1>2, <1>3 DEF Init, OrderInv, DependencyOrder

LEMMA OrderInvariant == Spec => [](TypeOK /\ OrderInv)
<1>1. Spec => []TypeOK
  BY TypeCorrect
<1>2. TypeOK /\ OrderInv /\ [Next]_vars => OrderInv'
  BY OrderStep
<1> QED
  BY <1>1, <1>2, OrderInit, PTL DEF Spec

(* A step is begun only when its dependencies were begun and are settled.   *)
THEOREM DependenciesFirst == Spec => []DependencyOrder
<1>1. OrderInv => DependencyOrder
  BY DEF OrderInv
<1> QED
  BY <1>1, OrderInvariant, PTL

----------------------------------------------------------------------------
(* The refinement.  A reconciliation that plans settles the steps it finds  *)
(* failed; a Job that ends or an approval settles a step; executeStep       *)
(* begins one.                                                              *)
LEMMA InitRefines == Init => Order!Init
  BY DEF Init, Order!Init, Settled

LEMMA StepRefines ==
  ASSUME TypeOK, OrderInv, OrderInv', [Next]_vars
  PROVE  Order!Next
<1>1. CASE SettlingStep
  <2>1. Settled \subseteq Settled' /\ Settled' \subseteq begun /\ begun' = begun
    BY <1>1 DEF SettlingStep, HistoryGrows, Settled
  <2>2. begun \in SUBSET Steps
    BY DEF TypeOK
  <2>3. Order!Settle(Settled')
    BY <2>1 DEF Order!Settle
  <2> QED
    BY <2>1, <2>2, <2>3 DEF Order!Next
<1>2. ASSUME NEW s \in Steps, BeginningStep(s)
      PROVE  Order!Next
  <2>1. Deps[s] \subseteq Settled
    BY <1>2 DEF BeginningStep, OrderInv
  <2>2. Settled' = Settled \/ Settled' = Settled \cup {s}
    BY <1>2 DEF BeginningStep, Settled
  <2>3. Order!Begin(s)
    BY <1>2, <2>1, <2>2 DEF Order!Begin, BeginningStep
  <2> QED
    BY <2>3 DEF Order!Next
<1> QED
  BY <1>1, <1>2, HistoryStep

(* The controller implements FlowOrder, whatever is lost or goes stale.     *)
THEOREM Refinement == Spec => ImplementsOrder
<1>1. TypeOK /\ OrderInv /\ (TypeOK /\ OrderInv)' /\ [Next]_vars
        => [Order!Next]_<<begun, Settled>>
  BY StepRefines
<1> QED
  BY <1>1, InitRefines, OrderInvariant, PTL DEF Spec, ImplementsOrder, Order!Spec
=============================================================================
