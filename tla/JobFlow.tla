------------------------------ MODULE JobFlow ------------------------------
(***************************************************************************)
(* The zen-flow controller reconciling one JobFlow.                        *)
(*                                                                         *)
(* JobFlowReconciler.Reconcile (pkg/controller/reconciler.go) is run by a  *)
(* controller-runtime worker.  The worker reads the JobFlow and its Jobs   *)
(* from informer caches that lag behind the API server, works on a local   *)
(* copy of the JobFlow, creates Jobs as it goes, and writes the status     *)
(* back under optimistic concurrency control.  Between two API calls       *)
(* anything may happen: a Job finishes, a user edits the object, a watch   *)
(* event arrives, the clock advances, the controller process dies.         *)
(*                                                                         *)
(* A JobFlow that does not exist, and the absent local copy of an idle     *)
(* worker, are the record NoFlow.  A resource version is not counted: what *)
(* matters is whether a copy has the server's version, which is what the   *)
(* booleans cacheCurrent and localCurrent say.  A Job has one name per     *)
(* step of the flow, <flow>-<step>-<uid>, so a step names its Job.         *)
(*                                                                         *)
(* The definitions marked "wrong" are likely mistakes in the code.  The    *)
(* specification does not use them; put in place of the definition that    *)
(* follows them they show which property would notice the mistake.         *)
(***************************************************************************)
EXTENDS Integers, FiniteSets, Sequences, Functions

CONSTANTS
  Steps,              \* the names of spec.steps
  Deps,               \* Deps[s]: spec.steps[s].dependencies
  Manual,             \* the steps of type Manual
  ContinueOnFailure,  \* the steps with continueOnFailure: true
  When,               \* When[s]: what spec.steps[s].when asks, and of which step
  RetryLimit,         \* RetryLimit[s]: retryPolicy.limit, 0 without a policy
  Backoff,            \* Backoff[s]: retryPolicy.backoff, with its defaults
  Timeout,            \* Timeout[s]: timeoutSeconds in ticks, or Unset
  ActiveDeadline,     \* executionPolicy.activeDeadlineSeconds, or Unset
  BackoffLimit,       \* executionPolicy.backoffLimit
  TTL,                \* executionPolicy.ttlSecondsAfterFinished
  Validity,           \* whether validateJobFlow accepts the specs users write
  Schema,             \* what the installed CRD's schema admits in a status
  MayFail,            \* environment: the steps whose Jobs may fail
  PodRetries,         \* environment: a Job replaces its failed pods
  Parallel,           \* environment: a Job needs more than one completion
  Resyncs,            \* environment: the informers resync (every 10 hours)
  Budget,             \* Budget[k]: bound on the disturbances of kind k
  MaxTime,            \* bound on the clock
  MaxConditions       \* bound on status.conditions

NoTime == -1          \* a nil *metav1.Time
Unset  == -1          \* a nil *int64 of the spec

Disturbances == {"crash", "apiError", "refusal", "jobDeletion", "edit"}

BackoffTypes == {"Fixed", "Linear", "Exponential"}

(* A condition may ask for a phase of another step: to be Succeeded, to be  *)
(* Failed, or not to be Failed.  No condition, "true" and whatever is not   *)
(* understood are always met, "false" never.                                *)
WhenAsks == {"Always", "Never", "Succeeded", "Failed", "NotFailed"}

ASSUME StepsAssumption ==
  /\ IsFiniteSet(Steps)
  /\ Deps \in [Steps -> SUBSET Steps]
  /\ Manual \subseteq Steps
  /\ ContinueOnFailure \subseteq Steps
  /\ When \in [Steps -> [asks : WhenAsks, of : Steps]]
  /\ MayFail \subseteq Steps
ASSUME PolicyAssumption ==
  /\ RetryLimit \in [Steps -> Nat]
  /\ Backoff \in [Steps -> [type : BackoffTypes, base : Nat, factor : Nat]]
  /\ Timeout \in [Steps -> Nat \cup {Unset}]
  /\ ActiveDeadline \in Nat \cup {Unset}
  /\ BackoffLimit \in Nat
  /\ TTL \in Nat
  /\ Validity \in SUBSET BOOLEAN
ASSUME BoundsAssumption ==
  /\ Budget \in [Disturbances -> Nat]
  /\ MaxTime \in Nat
  /\ MaxConditions \in Nat

FlowPhases == {"", "Pending", "Running", "Succeeded", "Failed", "Paused"}
StepPhases == {"Pending", "Running", "Succeeded", "Failed", "PendingApproval"}

ASSUME SchemaAssumption ==
  Schema \in [flowPhases : SUBSET FlowPhases, stepPhases : SUBSET StepPhases,
              conditions : BOOLEAN]

VARIABLES
  flow,          \* the JobFlow in the API server
  jobs,          \* jobs[s]: the state of the Job of step s in the API server
  cacheFlow,     \* the JobFlow in the informer cache
  cacheJobs,     \* the Jobs in the informer cache
  cacheCurrent,  \* cacheFlow has the server's resource version
  queued,        \* the key is in the work queue
  pc,            \* where the worker is in Reconcile
  local,         \* the worker's copy of the JobFlow
  localCurrent,  \* local has the server's resource version
  plan,          \* the ready steps of the plan that are still to be executed
  now,           \* the clock, in seconds
  left,          \* left[k]: how many disturbances of kind k may still come
  begun,         \* history: the steps whose gate or Job executeStep came to
  createdAt,     \* history: when the last Job of a step was created
  succeeded,     \* history: the steps with a succeeded pod or an approval
  failureSeen    \* history: the steps the controller ever set to Failed

server  == <<flow, jobs>>
caches  == <<cacheFlow, cacheJobs>>
worker  == <<pc, local, localCurrent, plan>>
history == <<begun, createdAt, succeeded, failureSeen>>
vars == <<flow, jobs, cacheFlow, cacheJobs, cacheCurrent, queued, pc, local,
          localCurrent, plan, now, left, begun, createdAt, succeeded,
          failureSeen>>

JobStates  == {"absent", "active", "podFailed", "podSucceeded", "complete",
               "failed", "failedPartly"}
(* job.Status.Succeeded > 0 and job.Status.Failed > 0 count pods, not Jobs. *)
AnyPodSucceeded(job) == job \in {"podSucceeded", "complete", "failedPartly"}
AnyPodFailed(job)    == job \in {"podFailed", "failed", "failedPartly"}

Times == Nat \cup {NoTime}
StepStatus == [phase : StepPhases, startTime : Times, completionTime : Times,
               jobRef : BOOLEAN, retryCount : Nat]
Condition  == [reason : {"", "FlowRunning", "FlowSucceeded", "FlowFailed",
                         "ValidationFailed", "ActiveDeadlineExceeded",
                         "BackoffLimitExceeded", "DAGCycle"},
               at : Nat]
Flow == [exists : BOOLEAN, valid : BOOLEAN, approved : SUBSET Steps, phase : FlowPhases,
         startTime : Times, completionTime : Times,
         conditions : Seq(Condition),
         progress : [successful : Nat, failed : Nat],
         listed : BOOLEAN, steps : [Steps -> StepStatus]]

(* status.steps is empty until the flow is initialized (listed is FALSE);   *)
(* the methods that look for a step there then see a step that is neither   *)
(* begun nor ended, which is what NewStep is.                               *)
NewStep == [phase |-> "Pending", startTime |-> NoTime, completionTime |-> NoTime,
            jobRef |-> FALSE, retryCount |-> 0]
NewFlow == [exists |-> TRUE, valid |-> TRUE, approved |-> {}, phase |-> "",
            startTime |-> NoTime, completionTime |-> NoTime, conditions |-> <<>>,
            progress |-> [successful |-> 0, failed |-> 0],
            listed |-> FALSE, steps |-> [s \in Steps |-> NewStep]]
NoFlow == [NewFlow EXCEPT !.exists = FALSE]

----------------------------------------------------------------------------
(* What Reconcile computes on its local copy, one operator per method.      *)

After(time, limit) == limit # Unset /\ time # NoTime /\ now > time + limit

InPhase(f, phases) == {s \in Steps : f.steps[s].phase \in phases}

PendingIsNotInitialized(f) == f.phase \notin {"", "Pending"}            \* wrong
hasInitialized(f) == f.phase # "" \/ f.listed

initializeJobFlow(f) ==
  [f EXCEPT !.phase = "Pending", !.startTime = now,
            !.progress = [successful |-> 0, failed |-> 0],
            !.listed = TRUE, !.steps = [s \in Steps |-> NewStep]]

DeadlineUnlessFailed(f) ==                                              \* wrong
  f.phase # "Failed" /\ After(f.startTime, ActiveDeadline)
checkActiveDeadline(f) == After(f.startTime, ActiveDeadline)

TotalRetries(f) ==
  FoldFunction(LAMBDA m, n : m + n, 0, [s \in Steps |-> f.steps[s].retryCount])
checkBackoffLimit(f) == TotalRetries(f) > BackoffLimit

(* TopologicalSort fails exactly when some steps wait for one another.      *)
CycleDetected ==
  \E S \in (SUBSET Steps) \ {{}} : \A s \in S : Deps[s] \cap S # {}

(* The early exits append a Ready condition, whatever is there already.     *)
Reject(f, reason) ==
  [f EXCEPT !.phase = "Failed",
            !.conditions = Append(@, [reason |-> reason, at |-> now])]
RejectAndComplete(f, reason) ==
  [Reject(f, reason) EXCEPT !.completionTime = now]

Approve(st) ==
  [st EXCEPT !.phase = "Succeeded", !.completionTime = now,
             !.startTime = IF @ = NoTime THEN now ELSE @]

ApprovalsUnlessPaused(f) ==                                             \* wrong
  IF f.phase = "Paused" THEN f
  ELSE [f EXCEPT !.steps = [s \in Steps |->
          IF @[s].phase = "PendingApproval" /\ s \in f.approved
            THEN Approve(@[s]) ELSE @[s]]]

checkManualApprovals(f) ==
  LET waiting == InPhase(f, {"PendingApproval"})
  IN  [f EXCEPT
        !.steps = [s \in Steps |-> IF s \in waiting \cap f.approved
                                     THEN Approve(@[s]) ELSE @[s]],
        !.phase = IF waiting # {} THEN "Paused"
                  ELSE IF @ = "Paused" THEN "Running" ELSE @]

UnstartedJobIsPending(st, job) ==                                       \* wrong
  IF job = "active" THEN [st EXCEPT !.phase = "Pending"]
  ELSE [st EXCEPT !.phase = IF AnyPodSucceeded(job) THEN "Succeeded" ELSE "Failed"]

refreshStepStatusFromJob(st, job) ==
  IF AnyPodSucceeded(job)
    THEN [st EXCEPT !.phase = "Succeeded", !.completionTime = now]
  ELSE IF AnyPodFailed(job)
    THEN [st EXCEPT !.phase = "Failed", !.completionTime = now]
  ELSE [st EXCEPT !.phase = "Running"]

MissingJobHasFinished(st, job) ==                                       \* wrong
  IF ~st.jobRef THEN st
  ELSE IF job = "absent"
    THEN [st EXCEPT !.phase = "Succeeded", !.completionTime = now]
  ELSE refreshStepStatusFromJob(st, job)

refreshStep(st, job) ==
  IF ~st.jobRef THEN st
  ELSE IF job = "absent"
    THEN [st EXCEPT !.phase = "Failed", !.completionTime = now]
  ELSE refreshStepStatusFromJob(st, job)

refreshStepStatuses(f) ==
  [f EXCEPT !.steps = [s \in Steps |-> refreshStep(@[s], cacheJobs[s])]]

EndedSteps(f) == InPhase(f, {"Succeeded", "Failed"})                    \* wrong

CompletedSteps(f) ==
  InPhase(f, {"Succeeded"}) \cup (InPhase(f, {"Failed"}) \cap ContinueOnFailure)

(* A condition on a step whose status is not listed counts as met.          *)
evaluateWhenCondition(f, when) ==
  LET phase == f.steps[when.of].phase
  IN  CASE when.asks = "Always"    -> TRUE
        [] when.asks = "Never"     -> FALSE
        [] when.asks = "NotFailed" -> f.listed => phase # "Failed"
        [] OTHER                   -> f.listed => phase = when.asks

ReadyStep(f, s) ==
  /\ Deps[s] \subseteq CompletedSteps(f)
  /\ evaluateWhenCondition(f, When[s])

PlanUnlessFailed(f) ==                                                  \* wrong
  {s \in InPhase(f, {"Pending"}) : f.phase # "Failed" /\ ReadyStep(f, s)}

createExecutionPlan(f) == {s \in InPhase(f, {"Pending"}) : ReadyStep(f, s)}

TimedOutFromFlowStart(f) ==                                             \* wrong
  {s \in InPhase(f, {"Running"}) : After(f.startTime, Timeout[s])}

TimedOut(f) ==
  {s \in InPhase(f, {"Running"}) : After(f.steps[s].startTime, Timeout[s])}

checkStepTimeouts(f) ==
  LET late  == TimedOut(f)
      fatal == late \ ContinueOnFailure
  IN  [f EXCEPT
        !.steps = [s \in Steps |->
           IF s \in late
             THEN [@[s] EXCEPT !.phase = "Failed", !.completionTime = now]
             ELSE @[s]],
        !.phase = IF fatal # {} THEN "Failed" ELSE @,
        !.completionTime = IF fatal # {} THEN now ELSE @]

calculateBackoff(backoff, retryCount) ==
  CASE backoff.type = "Fixed"       -> backoff.base
    [] backoff.type = "Linear"      -> backoff.base * (retryCount + 1)
    [] backoff.type = "Exponential" -> backoff.base * backoff.factor ^ retryCount

RetryDue(st, s) ==
  /\ st.phase = "Failed"
  /\ st.retryCount < RetryLimit[s]
  /\ \/ st.completionTime = NoTime
     \/ now >= st.completionTime + calculateBackoff(Backoff[s], st.retryCount)

handleStepRetries(f) ==
  [f EXCEPT !.steps = [s \in Steps |->
     IF RetryDue(@[s], s)
       THEN [NewStep EXCEPT !.retryCount = f.steps[s].retryCount + 1]
       ELSE @[s]]]

FailedStepIsSkipped(f, s) ==                                            \* wrong
  [f EXCEPT !.steps[s].phase = "Skipped", !.phase = "Failed"]

handleStepFailure(f, s) ==
  IF s \in ContinueOnFailure
    THEN [f EXCEPT !.steps[s].phase = "Failed"]
    ELSE [f EXCEPT !.steps[s].phase = "Failed",
                   !.phase = "Failed", !.completionTime = now]

ReadyReason(phase) ==
  CASE phase = "Succeeded" -> "FlowSucceeded"
    [] phase = "Failed"    -> "FlowFailed"
    [] phase = "Running"   -> "FlowRunning"
    [] OTHER               -> ""

AppendCondition(f) ==                                                   \* wrong
  [f EXCEPT !.conditions =
     Append(@, [reason |-> ReadyReason(f.phase), at |-> now])]

(* The first Ready condition is replaced, every other one is kept.          *)
updateConditions(f) ==
  LET ready == [reason |-> ReadyReason(f.phase), at |-> now]
  IN  [f EXCEPT !.conditions = IF @ = <<>> THEN <<ready>>
                               ELSE [@ EXCEPT ![1] = ready]]

(* Every step that is listed has ended: all of none, where none is.         *)
updateJobFlowStatus(f) ==
  LET done  == InPhase(f, {"Succeeded"})
      bad   == InPhase(f, {"Failed"})
      ended == f.listed => done \cup bad = Steps
      phase == IF ended THEN (IF bad = {} THEN "Succeeded" ELSE "Failed")
               ELSE IF f.phase = "Pending" THEN "Running" ELSE f.phase
  IN  updateConditions(
        [f EXCEPT !.progress = [successful |-> Cardinality(done),
                                failed     |-> Cardinality(bad)],
                  !.phase = phase,
                  !.completionTime = IF ended THEN now ELSE @])

ExpiredSinceStart(f) ==                                                 \* wrong
  /\ f.phase \in {"Succeeded", "Failed"}
  /\ TTL = 0 \/ now > f.startTime + TTL

shouldDeleteJobFlow(f) ==
  /\ f.phase \in {"Succeeded", "Failed"}
  /\ f.completionTime # NoTime
  /\ TTL = 0 \/ now > f.completionTime + TTL

----------------------------------------------------------------------------
Init ==
  /\ \E v \in Validity : flow = [NewFlow EXCEPT !.valid = v]
  /\ cacheFlow = flow /\ cacheCurrent = TRUE
  /\ jobs = [s \in Steps |-> "absent"] /\ cacheJobs = jobs
  /\ queued = TRUE
  /\ pc = "idle" /\ local = NoFlow /\ localCurrent = FALSE /\ plan = {}
  /\ now = 0 /\ left = Budget
  /\ begun = {} /\ createdAt = [s \in Steps |-> NoTime]
  /\ succeeded = {} /\ failureSeen = {}

(* One disturbance of kind k.                                               *)
Spend(k) == left[k] > 0 /\ left' = [left EXCEPT ![k] = @ - 1]

(* The worker returns from Reconcile; with an error the key is requeued.    *)
Return(requeue) ==
  /\ pc' = "idle" /\ local' = NoFlow /\ localCurrent' = FALSE /\ plan' = {}
  /\ queued' = (queued \/ requeue)

(* The API server validates a status against the schema of the CRD.         *)
Admitted(f) ==
  /\ f.phase \in Schema.flowPhases \cup {""}
  /\ \A s \in Steps : f.steps[s].phase \in Schema.stepPhases
  /\ f.conditions = <<>> \/ Schema.conditions

(* r.Status().Update(ctx, f) succeeds: the copy had the server's version.   *)
(* An update that changes nothing makes no new version and no event.        *)
Written(f) ==
  /\ localCurrent /\ Admitted(f)
  /\ flow' = f
  /\ cacheCurrent' = (cacheCurrent /\ f = flow)

(* It fails with Invalid.                                                   *)
Refused(f) ==
  localCurrent /\ ~Admitted(f) /\ UNCHANGED <<flow, cacheCurrent, left>>

(* It fails with Conflict (or NotFound) when the copy is stale, else with a *)
(* transient error, before or after the server has stored the object.       *)
NotWritten(f) ==
  \/ /\ ~localCurrent
     /\ UNCHANGED <<flow, cacheCurrent, left>>
  \/ /\ Spend("apiError") /\ UNCHANGED <<flow, cacheCurrent>>
  \/ /\ Spend("apiError") /\ Written(f)

(* An exit of Reconcile that ends with a status update.                     *)
WriteAndReturn(f) ==
  \/ Written(f) /\ Return(FALSE) /\ UNCHANGED left
  \/ (NotWritten(f) \/ Refused(f)) /\ Return(TRUE)

----------------------------------------------------------------------------
(* The worker.                                                              *)

(* The key is taken from the queue and r.Get reads the informer cache.      *)
Dequeue ==
  /\ pc = "idle" /\ queued
  /\ Len(cacheFlow.conditions) < MaxConditions
  /\ queued' = FALSE
  /\ IF cacheFlow.exists
       THEN /\ pc' = "check" /\ local' = cacheFlow /\ localCurrent' = cacheCurrent
       ELSE UNCHANGED <<pc, local, localCurrent>>
  /\ UNCHANGED <<server, caches, cacheCurrent, plan, now, left, history>>

VerdictWithoutDAG ==                                                    \* wrong
  IF ~local.valid THEN "invalid"
  ELSE IF checkActiveDeadline(local) THEN "deadlineExceeded"
  ELSE IF checkBackoffLimit(local) THEN "backoffLimitExceeded"
  ELSE IF ~hasInitialized(local) THEN "new" ELSE "go"

NewFlowsAreValidated ==                                                 \* wrong
  IF ~hasInitialized(local) THEN (IF local.valid THEN "new" ELSE "invalid")
  ELSE IF checkActiveDeadline(local) THEN "deadlineExceeded"
  ELSE IF checkBackoffLimit(local) THEN "backoffLimitExceeded"
  ELSE IF CycleDetected THEN "cycle" ELSE "go"

(* The checks of Reconcile before the plan, in their order.                 *)
Verdict ==
  IF ~local.valid THEN "invalid"
  ELSE IF checkActiveDeadline(local) THEN "deadlineExceeded"
  ELSE IF checkBackoffLimit(local) THEN "backoffLimitExceeded"
  ELSE IF ~hasInitialized(local) THEN "new"
  ELSE IF CycleDetected THEN "cycle"
  ELSE "go"

Exit(verdict, f) ==
  /\ pc = "check" /\ Verdict = verdict
  /\ WriteAndReturn(f)
  /\ UNCHANGED <<jobs, caches, now, history>>

FailValidation == Exit("invalid", Reject(local, "ValidationFailed"))
FailDeadline   == Exit("deadlineExceeded",
                       RejectAndComplete(local, "ActiveDeadlineExceeded"))
FailBackoff    == Exit("backoffLimitExceeded",
                       RejectAndComplete(local, "BackoffLimitExceeded"))
Initialize     == Exit("new", initializeJobFlow(local))
FailCycle      == Exit("cycle", Reject(local, "DAGCycle"))

(* Approvals, refresh, plan, timeouts, retries: all on the local copy and   *)
(* in this order, except that the Jobs of timed-out steps are deleted.  A   *)
(* Delete that fails is logged only.                                        *)
PlanSteps ==
  /\ pc = "check" /\ Verdict = "go"
  /\ LET refreshed == refreshStepStatuses(checkManualApprovals(local))
         checked   == checkStepTimeouts(refreshed)
     IN  /\ plan' = createExecutionPlan(refreshed)
         /\ local' = handleStepRetries(checked)
         /\ failureSeen' = failureSeen \cup InPhase(checked, {"Failed"})
         /\ \E kept \in SUBSET TimedOut(refreshed) :
              /\ IF kept = {} THEN UNCHANGED left ELSE Spend("apiError")
              /\ jobs' = [s \in Steps |->
                            IF s \in TimedOut(refreshed) \ kept
                              THEN "absent" ELSE jobs[s]]
  /\ pc' = "execute"
  /\ UNCHANGED <<flow, caches, cacheCurrent, queued, localCurrent, now,
                 begun, createdAt, succeeded>>

(* executeStep finds no status of the step, and neither does                *)
(* handleStepFailure, whose error ends the reconciliation.                  *)
StepStatusNotFound(s) ==
  /\ pc = "execute" /\ s \in plan /\ ~local.listed
  /\ Return(TRUE)
  /\ UNCHANGED <<server, caches, cacheCurrent, now, left, history>>

(* executeStep returned to the loop: with success, or with an error that is *)
(* not retryable and that handleStepFailure has recorded.                   *)
StepDone(s, f) ==
  /\ local' = f /\ plan' = plan \ {s}
  /\ UNCHANGED <<pc, queued>>
StepFailed(s, f) ==
  /\ StepDone(s, handleStepFailure(f, s))
  /\ failureSeen' = failureSeen \cup {s}

(* handleManualApprovalStep writes the status in the middle of the plan.  A *)
(* write that is refused for good fails the step, on the modified copy.     *)
Gate(f, s) ==
  IF s \in f.approved
    THEN [f EXCEPT !.steps[s] = Approve(@)]
    ELSE [f EXCEPT !.steps[s].phase = "PendingApproval",
                   !.steps[s].startTime = now, !.phase = "Paused"]

ReachGate(s) ==
  /\ pc = "execute" /\ local.listed /\ s \in plan \cap Manual
  /\ begun' = begun \cup {s}
  /\ \/ /\ Written(Gate(local, s)) /\ StepDone(s, Gate(local, s))
        /\ UNCHANGED <<localCurrent, left, failureSeen>>
     \/ /\ flow.exists /\ NotWritten(Gate(local, s)) /\ Return(TRUE)
        /\ UNCHANGED failureSeen
     \/ /\ \/ Refused(Gate(local, s))
           \/ ~flow.exists /\ UNCHANGED <<flow, cacheCurrent, left>>
           \/ flow.exists /\ Spend("refusal") /\ UNCHANGED <<flow, cacheCurrent>>
        /\ StepFailed(s, Gate(local, s))
        /\ UNCHANGED localCurrent
  /\ UNCHANGED <<jobs, caches, now, createdAt, succeeded>>

(* createJobForStep and the rest of executeStep.                            *)
Create(s) ==
  /\ jobs[s] = "absent"
  /\ jobs' = [jobs EXCEPT ![s] = "active"]
  /\ createdAt' = [createdAt EXCEPT ![s] = now]

Start(f, s) ==
  [f EXCEPT !.steps[s] = [@ EXCEPT !.phase = "Running", !.startTime = now,
                                   !.jobRef = TRUE]]

StartJob(s) ==
  /\ pc = "execute" /\ local.listed /\ s \in plan \ Manual
  /\ begun' = begun \cup {s}
  /\ \/ /\ Create(s) /\ StepDone(s, Start(local, s))
        /\ UNCHANGED <<localCurrent, left, failureSeen>>
     \/ /\ jobs[s] # "absent"                                \* AlreadyExists
        /\ StepFailed(s, local)
        /\ UNCHANGED <<jobs, localCurrent, left, createdAt>>
     \/ /\ Spend("refusal")                                  \* not retryable
        /\ StepFailed(s, local)
        /\ UNCHANGED <<jobs, localCurrent, createdAt>>
     \/ /\ Spend("apiError")                                 \* retryable
        /\ Create(s) \/ UNCHANGED <<jobs, createdAt>>
        /\ Return(TRUE)
        /\ UNCHANGED failureSeen
  /\ UNCHANGED <<flow, caches, cacheCurrent, now, succeeded>>

(* The final status update; a finished JobFlow goes on to the TTL check.    *)
Finish ==
  /\ pc = "execute" /\ plan = {}
  /\ LET f == updateJobFlowStatus(local)
     IN  \/ /\ Written(f) /\ f.phase \in {"Succeeded", "Failed"}
            /\ pc' = "ttl" /\ local' = f
            /\ UNCHANGED <<localCurrent, plan, queued, left>>
         \/ /\ Written(f) /\ f.phase \notin {"Succeeded", "Failed"}
            /\ Return(FALSE) /\ UNCHANGED left
         \/ (NotWritten(f) \/ Refused(f)) /\ Return(TRUE)
  /\ UNCHANGED <<jobs, caches, now, history>>

RemoveFlow == flow.exists /\ flow' = NoFlow /\ cacheCurrent' = FALSE

CheckTTL ==
  /\ pc = "ttl"
  /\ \/ /\ ~shouldDeleteJobFlow(local)
        /\ Return(FALSE) /\ UNCHANGED <<flow, cacheCurrent, left>>
     \/ /\ shouldDeleteJobFlow(local) /\ RemoveFlow
        /\ Return(FALSE) /\ UNCHANGED left
     \/ /\ shouldDeleteJobFlow(local)
        /\ \/ ~flow.exists /\ UNCHANGED <<flow, cacheCurrent, left>>
           \/ Spend("apiError") /\ UNCHANGED <<flow, cacheCurrent>>
           \/ Spend("apiError") /\ RemoveFlow
        /\ Return(TRUE)
  /\ UNCHANGED <<jobs, caches, now, history>>

(* The process dies; its successor lists everything and queues what it saw. *)
Crash ==
  /\ Spend("crash")
  /\ Return(TRUE)
  /\ cacheFlow' = flow /\ cacheCurrent' = TRUE /\ cacheJobs' = jobs
  /\ UNCHANGED <<server, now, history>>

----------------------------------------------------------------------------
(* The informers: every event of the JobFlow or of a Job it owns enqueues   *)
(* the key.                                                                 *)
SyncFlow ==
  /\ ~cacheCurrent
  /\ cacheFlow' = flow /\ cacheCurrent' = TRUE /\ queued' = TRUE
  /\ UNCHANGED <<server, cacheJobs, worker, now, left, history>>

SyncJob(s) ==
  /\ cacheJobs[s] # jobs[s]
  /\ cacheJobs' = [cacheJobs EXCEPT ![s] = jobs[s]] /\ queued' = TRUE
  /\ UNCHANGED <<server, cacheFlow, cacheCurrent, worker, now, left, history>>

Resync ==
  /\ Resyncs /\ ~queued /\ cacheFlow.exists /\ queued' = TRUE
  /\ UNCHANGED <<server, caches, cacheCurrent, worker, now, left, history>>

----------------------------------------------------------------------------
(* The rest of the cluster: users, the Job controller, the garbage          *)
(* collector, the clock.                                                    *)
OtherWriter ==
  /\ flow.exists /\ cacheCurrent' = FALSE /\ localCurrent' = FALSE
  /\ UNCHANGED <<jobs, caches, queued, pc, local, plan, now, begun, createdAt,
                 failureSeen>>

ApproveStep(s) ==
  /\ s \in Manual \ flow.approved
  /\ flow' = [flow EXCEPT !.approved = @ \cup {s}]
  /\ succeeded' = succeeded \cup {s}
  /\ OtherWriter /\ UNCHANGED left

(* Labels and annotations, or the spec, which an edit may break or mend.    *)
EditFlow ==
  /\ OtherWriter /\ Spend("edit") /\ UNCHANGED succeeded
  /\ \E v \in Validity : flow' = [flow EXCEPT !.valid = v]

DeleteFlow == OtherWriter /\ Spend("edit") /\ flow' = NoFlow /\ UNCHANGED succeeded

ChangeJob(s, state) ==
  /\ jobs' = [jobs EXCEPT ![s] = state]
  /\ succeeded' = IF AnyPodSucceeded(state) THEN succeeded \cup {s} ELSE succeeded
  /\ UNCHANGED <<flow, caches, cacheCurrent, queued, worker, now, begun,
                 createdAt, failureSeen>>

PodEnds(s) ==
  /\ jobs[s] = "active"
  /\ \/ PodRetries /\ s \in MayFail /\ ChangeJob(s, "podFailed")
     \/ Parallel /\ ChangeJob(s, "podSucceeded")
  /\ UNCHANGED left

JobEnds(s) ==
  /\ \/ jobs[s] \in {"active", "podFailed", "podSucceeded"} /\ ChangeJob(s, "complete")
     \/ jobs[s] \in {"active", "podFailed"} /\ s \in MayFail /\ ChangeJob(s, "failed")
     \/ jobs[s] = "podSucceeded" /\ s \in MayFail /\ ChangeJob(s, "failedPartly")
  /\ UNCHANGED left

DeleteJob(s) ==
  jobs[s] # "absent" /\ Spend("jobDeletion") /\ ChangeJob(s, "absent")

CollectJob(s) ==
  jobs[s] # "absent" /\ ~flow.exists /\ ChangeJob(s, "absent") /\ UNCHANGED left

Tick ==
  /\ now < MaxTime /\ now' = now + 1
  /\ UNCHANGED <<server, caches, cacheCurrent, queued, worker, left, history>>

----------------------------------------------------------------------------
Worker ==
  \/ Dequeue \/ FailValidation \/ FailDeadline \/ FailBackoff \/ Initialize
  \/ FailCycle \/ PlanSteps \/ Finish \/ CheckTTL
  \/ \E s \in Steps : StepStatusNotFound(s) \/ ReachGate(s) \/ StartJob(s)

Informers == SyncFlow \/ Resync \/ \E s \in Steps : SyncJob(s)

Cluster ==
  \/ EditFlow \/ DeleteFlow \/ Tick
  \/ \E s \in Steps : \/ ApproveStep(s) \/ PodEnds(s) \/ JobEnds(s)
                      \/ DeleteJob(s) \/ CollectJob(s)

Next == Worker \/ Crash \/ Informers \/ Cluster

Spec == Init /\ [][Next]_vars

(* The worker of a live controller keeps running, the watches deliver, the  *)
(* informers resync, time passes and a Job ends.  Nothing obliges a user or *)
(* a disturbance.                                                           *)
Fairness ==
  /\ WF_vars(Worker)
  /\ WF_vars(SyncFlow) /\ WF_vars(Resync)
  /\ WF_vars(Tick)
  /\ \A s \in Steps : WF_vars(SyncJob(s)) /\ WF_vars(JobEnds(s))
FairSpec == Spec /\ Fairness
=============================================================================
