------------------------- MODULE JobFlowProperties -------------------------
(***************************************************************************)
(* What the reconciliation of one JobFlow promises, and what the           *)
(* repository's documents say that it does not do.                         *)
(***************************************************************************)
EXTENDS JobFlow

(* Every variable holds a value the Go types and the bounds allow.          *)
TypeOK ==
  /\ flow \in Flow /\ cacheFlow \in Flow /\ local \in Flow
  /\ jobs \in [Steps -> JobStates] /\ cacheJobs \in [Steps -> JobStates]
  /\ cacheCurrent \in BOOLEAN /\ localCurrent \in BOOLEAN /\ queued \in BOOLEAN
  /\ pc \in {"idle", "check", "execute", "ttl"}
  /\ plan \in SUBSET Steps
  /\ now \in Nat /\ left \in [Disturbances -> Nat]
  /\ begun \in SUBSET Steps /\ createdAt \in [Steps -> Times]
  /\ succeeded \in SUBSET Steps /\ failureSeen \in SUBSET Steps

----------------------------------------------------------------------------
(* A step that the flow no longer waits for: a pod of its Job succeeded, it *)
(* was approved, or the controller saw it fail and it is continueOnFailure. *)
Settled ==
  {s \in begun : s \in succeeded \/ s \in failureSeen \cap ContinueOnFailure}

(* executeStep comes to the gate or the Job of a step only when every       *)
(* dependency was begun before it and is settled in the cluster, whatever   *)
(* the caches show and whatever was lost before.                            *)
DependencyOrder == \A s \in begun : Deps[s] \subseteq Settled

(* Why the order holds: no copy of the JobFlow, however old, claims more    *)
(* than has happened, and neither does a Job.  OrderInv is inductive.  (The *)
(* runs check DependencyOrder, the proof goes through OrderInv.)            *)
Evidence(f, successes, failures, starts) ==
  /\ f.approved \subseteq successes
  /\ \A s \in Steps :
       /\ f.steps[s].phase = "Succeeded" => s \in successes
       /\ f.steps[s].phase = "Failed" => s \in failures
       /\ f.steps[s].phase # "Pending" \/ f.steps[s].jobRef => s \in starts

JobsEvident ==
  \A s \in Steps : /\ AnyPodSucceeded(jobs[s]) => s \in succeeded
                   /\ AnyPodSucceeded(cacheJobs[s]) => s \in succeeded
                   /\ jobs[s] # "absent" => s \in begun

OrderInv ==
  /\ Evidence(flow, succeeded, failureSeen, begun)
  /\ Evidence(cacheFlow, succeeded, failureSeen, begun)
  /\ Evidence(local, succeeded, failureSeen, begun)
  /\ JobsEvident
  /\ failureSeen \subseteq begun
  /\ \A s \in plan : Deps[s] \subseteq Settled
  /\ DependencyOrder

(* A JobFlow reported Succeeded has a success behind every one of its       *)
(* steps, and no step is still reported otherwise: unless somebody deletes  *)
(* a Job, since the Job that replaces it has its name and may be taken for  *)
(* it in the cache.  (A flow whose spec was invalid at first and mended has *)
(* no listed steps; it is Succeeded when it has nothing to plan.)           *)
JobsLeftAlone == left["jobDeletion"] = Budget["jobDeletion"]

SuccessIsReal ==
  flow.phase = "Succeeded" /\ flow.listed /\ JobsLeftAlone =>
    \A s \in Steps : s \in succeeded /\ flow.steps[s].phase = "Succeeded"

(* executeStep never meets a planned step that has a JobRef: its branch     *)
(* through updateStepStatusFromJob, the only caller of the pod failure      *)
(* policy and of the step outputs, is never taken.                          *)
PlannedStepsHaveNoJob ==
  pc = "execute" => \A s \in plan : ~local.steps[s].jobRef

(* With nothing running, queued or on its way, the status says what the     *)
(* Jobs and approvals are: no event was missed, no ready step forgotten, no *)
(* write dropped.  (A Job whose JobRef was lost is not compared: it is what *)
(* NoOrphanedJob is about.)                                                 *)
Quiescent ==
  /\ pc = "idle" /\ ~queued /\ flow.exists
  /\ cacheCurrent /\ cacheJobs = jobs

StepReconciled(s) ==
  LET st == flow.steps[s]
  IN  /\ st.jobRef => st.phase = refreshStep(st, jobs[s]).phase
      /\ st.phase = "Pending" =>
           \/ ~(Deps[s] \subseteq CompletedSteps(flow))
           \/ ~evaluateWhenCondition(flow, When[s])
      /\ st.phase = "PendingApproval" => s \notin flow.approved

FlowReconciled ==
  LET ended == InPhase(flow, {"Succeeded", "Failed"}) = Steps
  IN  /\ flow.phase = "Succeeded" <=> InPhase(flow, {"Succeeded"}) = Steps
      /\ ended => flow.phase \in {"Succeeded", "Failed"}
      /\ flow.phase = "Paused" <=> InPhase(flow, {"PendingApproval"}) # {}
      /\ flow.progress = [successful |-> Cardinality(InPhase(flow, {"Succeeded"})),
                          failed |-> Cardinality(InPhase(flow, {"Failed"}))]

QuiescentIsReconciled ==
  Quiescent => FlowReconciled /\ \A s \in Steps : StepReconciled(s)

(* Once the active deadline has failed the flow, no step is begun again and *)
(* no later reconciliation, from however old a copy, revives the flow.      *)
FailedFor(reason) ==
  \E i \in 1 .. Len(flow.conditions) : flow.conditions[i].reason = reason

DeadlineIsFinal ==
  [][FailedFor("ActiveDeadlineExceeded") =>
       /\ begun' = begun
       /\ flow'.exists => flow'.phase = "Failed"]_vars

(* The controller deletes a Job only when that very Job, not an earlier one *)
(* of the same name, has run for longer than the timeout of its step:       *)
(* unless somebody else, the garbage collector of a deleted flow included,  *)
(* has deleted that earlier Job under a step the worker's copy has Running. *)
OnlyLateJobsDeleted ==
  [][PlanSteps /\ flow.exists /\ JobsLeftAlone => \A s \in Steps :
       jobs[s] # jobs'[s] => /\ Timeout[s] # Unset
                             /\ now > createdAt[s] + Timeout[s]]_vars

(* The TTL deletes a JobFlow only when its stored status is final and was   *)
(* completed long enough ago.                                               *)
TTLDeletesFinishedFlow ==
  [][pc = "ttl" /\ pc' = "idle" /\ flow.exists /\ ~flow'.exists =>
       /\ flow.phase \in {"Succeeded", "Failed"}
       /\ now >= flow.completionTime + TTL]_vars

(* A flow whose spec stays broken, or whose steps wait for one another, is   *)
(* reported Failed for good, whatever it was before: new, running or mended *)
(* in the meantime, and whatever old copies were read and writes were lost. *)
RejectedFlowFails ==
  <>[](flow.exists /\ (~flow.valid \/ CycleDetected)) => <>[](flow.phase = "Failed")

(* A step that failed to start although its Job was created, before that or *)
(* since: the controller has lost the JobRef and never looks at the Job     *)
(* again.                                                                   *)
LostJob(s) == flow.steps[s].phase = "Failed" /\ ~flow.steps[s].jobRef

(* However the caches lag, a flow that is let be, with its gates approved   *)
(* and its Jobs succeeding, ends Succeeded, for good, unless it has lost a  *)
(* Job.                                                                     *)
EventuallySucceeds ==
  /\ [](flow.exists /\ flow.valid /\ ~\E s \in Steps : LostJob(s))
  /\ <>(flow.approved = Manual)
  => <>[](flow.phase = "Succeeded")

(* In a second that lasts the controller comes to rest: the writes of that  *)
(* second, and of those before, do not go on causing reconciliations.  (A   *)
(* reconciliation of a later second stamps the status anew, and its write   *)
(* is an event again: there is no rest from one second to the next.  And a  *)
(* reconciliation that ends in an early exit - the spec is broken, or over  *)
(* its deadline or its backoff limit - appends one more condition.)         *)
OverItsLimits ==
  FailedFor("ActiveDeadlineExceeded") \/ FailedFor("BackoffLimitExceeded")

QuietWithinASecond ==
  [](flow.valid /\ ~OverItsLimits) =>
    \A t \in 0 .. MaxTime : <>[](now = t) => <>[](pc = "idle" /\ ~queued)

(* An approved gate that the flow has reached opens.                        *)
ApprovedGateOpens ==
  \A s \in Manual :
    flow.exists /\ flow.steps[s].phase = "PendingApproval" /\ s \in flow.approved
      ~> ~flow.exists \/ ~flow.valid \/ flow.steps[s].phase = "Succeeded"

(* The controller implements FlowOrder: steps are begun in the order of the *)
(* dependencies and a settled step stays settled.                           *)
Order == INSTANCE FlowOrder WITH settled <- Settled
ImplementsOrder == Order!Spec

----------------------------------------------------------------------------
(* What the documents and comments of the repository say, and the code does *)
(* not do.  Each is refuted by a run of its own.                            *)

(* TROUBLESHOOTING.md:406: a conflicting write is retried, so it does no    *)
(* harm: no step is recorded as failed to start while the Job it started is *)
(* there.                                                                   *)
NoOrphanedJob == \A s \in Steps : LostJob(s) => jobs[s] = "absent"

(* USER_GUIDE.md:201: a failed step with retries left is retried.  (One     *)
(* that fails so late that its backoff outlasts the clock proves nothing.)  *)
RetryIsOwed(s) ==
  LET st == flow.steps[s]
  IN  /\ st.phase = "Failed" /\ st.retryCount < RetryLimit[s]
      /\ now + calculateBackoff(Backoff[s], st.retryCount) < MaxTime
FailedStepIsRetried ==
  \A s \in Steps : RetryIsOwed(s) ~> flow.steps[s].phase # "Failed"

(* ARCHITECTURE.md:152: a step that fails for good, and is not              *)
(* continueOnFailure, marks the JobFlow Failed.                             *)
FailedJobFailsFlow ==
  \A s \in Steps \ ContinueOnFailure :
    flow.exists /\ jobs[s] = "failed" /\ RetryLimit[s] = 0 ~> flow.phase = "Failed"

(* USER_GUIDE.md:399: when a manual step is reached, the JobFlow pauses,    *)
(* until the step is approved.                                              *)
ReachedGatePauses ==
  \A s \in Manual :
    s \in begun ~> flow.phase = "Paused" \/ s \in flow.approved
=============================================================================
