# zen-flow in TLA+

zen-flow is a Kubernetes controller that runs a *JobFlow*, a directed acyclic
graph of Jobs. This directory holds its specification: TLA+ modules translated
from the Go code, configurations that model-check them with TLC, and theorems
whose proofs TLAPS checks. `PROJECT.json` says, definition by definition, which
source lines a definition stands for.

Reading order: `FlowOrder.tla` (one page: what a flow promises), `JobFlow.tla`
(the reconciler), `JobFlowProperties.tla` (what is asked of it),
`TopologicalSort.tla`, `Validation.tla`, `Intake.tla`, `DagCache.tla`,
`Parameters.tla`, `StepData.tla`, then the `*Proofs.tla`.

## 1. Inventory

### The parts and how they interact

    user --> API server --mutate, validate--> webhook        (Intake, Validation)
                 |  watch (JobFlow, Job)
                 v
          informer caches --enqueue--> work queue --> worker: Reconcile   (JobFlow)
                                                        |  getOrBuildDAG  (DagCache, Intake,
                                                        |                  TopologicalSort)
                                                        |  executeStep: inputs  (StepData,
                                                        |                       Parameters)
                 ^-- status writes, Job create/delete --+
                 ^-- Job controller, garbage collector, other users

| Part | State it keeps | Operations | Correct when |
|---|---|---|---|
| Reconciler (`pkg/controller/reconciler.go`) | none between two calls but the DAG cache; all progress is in `status` of the JobFlow and in the Jobs | `Reconcile`: validate, deadline, backoff limit, initialize, DAG, approvals, refresh, plan, timeouts, retries, start steps, write the status, TTL | steps begin in dependency order; `Succeeded` is true; no Job is lost; no event is missed; it comes to rest; a rejected flow runs nothing; deadlines and TTLs are kept |
| Controller set-up (`manager.go`, `cmd/zen-flow-controller`) | queue, informer caches, leadership | watches `For(JobFlow)`, `Owns(Job)`, up to ten workers, restart | every change of the JobFlow or a Job reconciles again |
| DAG engine (`pkg/controller/dag/dag.go`) | locals of one call | `BuildDAG`, `TopologicalSort` | fails on cyclic graphs only, lists a step after its dependencies |
| DAG cache (`init`, `getOrBuildDAG`) | map from name to hash, graph, order, shared by the workers under a read/write lock | make the map, hit, miss and build | what it returns belongs to the spec it was asked for; nobody reads what another writes; every call returns |
| Webhooks (`pkg/webhook`) | none | defaults on CREATE, validation on CREATE and UPDATE | admits only what the controller can plan; defaults change no meaning |
| Validation (`pkg/validation`) | none | `ValidateJobFlowEnhanced` | same |
| When conditions, templates (`template.go`, `parameter_template.go`) | none | evaluate, substitute | a condition is judged on the refreshed phases, never forgotten |
| Parameters, outputs (`parameters.go`, `parameter_template.go`, `handleStepInputs`, `handleStepOutputs`) | outputs in the status | resolve from values, ConfigMaps, Secrets and Jobs; paste into the template of a Job; extract outputs | what a step gets is what its dependency left, in every place that asks for it (outputs are unreachable, see below) |
| Artifacts, archives (`artifacts.go`, `artifact_copy.go`, `archive.go`) | files of the controller, ConfigMaps, a bucket | copy, download, archive, upload | an artifact comes from the step it was asked of (not modelled: nothing ever makes one) |
| Pod failure policy (`checkPodFailurePolicy`) | none | match exit codes with rules | a failure is forgiven only by a rule that says so (not modelled: never asked) |
| Resource templates (`createResourceTemplates`) | PVCs, ConfigMaps | create, meet again | all are there before the first Job |
| Events, metrics, errors, configuration, example validator | counters, environment | record, wrap, read | - |

### What is hard

* **Stale reads.** The JobFlow *and* its Jobs come from caches that lag
  independently; optimistic concurrency protects the JobFlow, nothing protects a
  decision made from an old Job.
* **Late writes.** Jobs are created one by one while the plan is executed; their
  JobRefs are stored in one write at the end, which may conflict, fail, fail
  after it took effect, or never happen because the process dies.
* **Events only.** `Reconcile` never asks to be called again later
  (`ctrl.Result{}`): what no event follows is not noticed until the informers
  resync. Backoffs, timeouts, deadlines and TTLs depend on that.
* **A write is an event.** A status write that always changes something keeps
  the controller busy for ever.
* **Names.** A Job has one name per step and flow UID, so every retry means the
  same name.
* **A map without a lock.** Ten workers share the DAG cache; the map is made
  outside its lock, and the lock is given back by hand on each path.
* **Text.** Parameters are pasted into the JSON of a Job by a template engine, by
  replacement when that fails, and in the order of a Go map.
* **Two searches for cycles**, one in the webhook and one in the controller,
  both over Go maps, and a third description of the same object, the CRD.

The hazards, each at its line and with the properties aimed at it, are in
`PROJECT.json`.

## 2. Modules

### JobFlow.tla - one JobFlow and its worker

The state is the API server (`flow`, `jobs`), the informer caches (`cacheFlow`,
`cacheJobs`), the queue (`queued`), the worker (`pc`, `local`, `plan`), the clock,
and four history variables used by properties only (`begun`, `createdAt`,
`succeeded`, `failureSeen`). A resource version is not counted; what matters is
whether a copy has the server's version: `cacheCurrent`, `localCurrent`.

controller-runtime never runs two workers on one key, so one worker is enough
for one JobFlow. An action ends where the code calls the API server, because
anything can happen there:

| Action | Code | pc |
|---|---|---|
| `Dequeue` | the queue, `r.Get` (124) | idle -> check |
| `FailValidation`, `FailDeadline`, `FailBackoff`, `Initialize`, `FailCycle` | the early exits 139-239, each with its status write | check -> idle |
| `PlanSteps` | 241-280: `checkManualApprovals`, `refreshStepStatusesParallel`, `createExecutionPlan`, `checkStepTimeouts` (deletes late Jobs), `handleStepRetry`, on the local copy, in this order | check -> execute |
| `ReachGate(s)` | `handleManualApprovalStep` with its status write | execute |
| `StepStatusNotFound(s)` | `executeStep` and `handleStepFailure` on a status without steps | execute -> idle |
| `StartJob(s)` | `executeStep`, `createJobForStep`, `handleStepFailure` | execute |
| `Finish` | `updateJobFlowStatus` | execute -> ttl or idle |
| `CheckTTL` | 304-320 | ttl -> idle |
| `Crash` | the process dies anywhere; its successor lists everything | -> idle |

A write is `Written` (the copy had the server's version), `NotWritten` (Conflict,
NotFound, or a transient error before or *after* the server stored the object)
or `Refused` (the status violates the CRD's schema, constant `Schema`). Errors
are in the code's two classes: retryable ones leave `Reconcile` and requeue the
key, others go to `handleStepFailure`.

The rest is the environment: informers (`SyncFlow`, `SyncJob`, `Resync`), users
(`ApproveStep`, `EditFlow`, `DeleteFlow`, `DeleteJob`), the Job controller (`PodEnds`,
`JobEnds`), the garbage collector (`CollectJob`), the clock (`Tick`).

**Statuses that are not listed.** `status.steps` is empty until `Initialize`
(`listed` is FALSE). A copy without them reads as one whose steps are all Pending,
which is what the methods make of a step they do not find; where they differ -
`executeStep`, `updateJobFlowStatus`, conditions - the model asks `listed`.

**Conditions.** `When[s]` is what `evaluateWhenCondition` finds in the text of a
condition: always, never, or a phase of another step that must or must not be.
(The repository's README.md:440 still lists conditions on other steps as not
supported; the code has them.)

**Order of the steps.** The plan is a set and its steps start in any order. The
code goes through the topological order; steps that are ready together do not
depend on one another, and the order among them comes from a Go map.
`TopologicalSort` has the order itself.

### FlowOrder.tla - what a flow promises

Two sets, `begun` and `settled`, and two actions. A step begins only when its
dependencies are settled; settled is for ever. `JobFlowProperties` instantiates
it with a mapping under which a step is settled when a pod of its Job succeeded,
it was approved, or the controller saw it fail and it is `continueOnFailure`.

### TopologicalSort.tla - dag.go

The recursion of the closure `visit` is a stack of frames, so that each test and
assignment is a step, and the module is free of recursive operators and can be
proved about. Roots and dependencies come in any order.

### Validation.tla, Intake.tla - from the author to the plan

`Validation` has every check of `ValidateJobFlowEnhanced` as an operator; a text
is what the checks can tell of it (a name is well formed or not, a path absolute
or not, a quantity is a number). The recursion of `validateDAG` is a recursive
function of the call. `Intake` composes them with the mutating webhook, the failure policy, the store, the controller's
own `validateJobFlow`, the DAG cache and `TopologicalSort` (INSTANCE): an object may
be updated or deleted, and the controller restarted, between any two steps, also
in the middle of a sort. It checks what `JobFlow` and `StepData` take for
granted about a spec, and what is asked of the rules for failed pods. It follows one JobFlow name and one worker.

### DagCache.tla - the cache as its workers share it

Any number of workers, each a program counter in `getOrBuildDAG`. `InitCheck` and
`InitMake` are the two halves of `init`, which holds no lock, so that several
workers may each make a map; a map is known by its maker, and `dagCache` is the
field. `RLock`, `Lookup` (up to `RUnlock`), `Build`, `Lock`, `Drain`, `Store` (up to
`Unlock`) are the rest, with Go's rule that a writer who waits keeps new readers
out. What `BuildDAG` and the sort make of the steps is left to `Intake`: a graph is
known by its steps.

### StepData.tla, Parameters.tla - what flows between steps

`StepData` has one worker that initializes a flow (`createResourceTemplates`, one
create at a time), plans, and runs `executeStep` call by call: the parameters of
a step, one after the other, and its Job. Jobs end, the cache of Jobs catches
up, Jobs are deleted and objects edited between any two of these calls, and each
call may be refused; a ConfigMap or a Secret that cannot be read is passed over
like one that is not there. A ConfigMap and a Secret of one name are two
objects. `Parameters` has the substitution in texts made of words and places; it
returns what the Go functions return, and where those go over a map, every order
is tried.

| Action | Code |
|---|---|
| `Initialize`, `createResourceTemplates`, `EndInitialize` | `initializeJobFlow` (370), its creates and its status write |
| `Reconcile`, `EndReconcile` | refresh and plan (247-260, with `continueOnFailure`), the final write (298) |
| `executeStep(s)` | 610-657, for a planned step without a Job |
| `HandleParameter` | one turn of the loop of `handleStepInputs` (1497-1516) |
| `createJobForStep` | 689, with `applyParametersToJobTemplate` |

**What is unreachable.** `executeStep` looks at a step's Job only if the step is
planned and has a JobRef, and no reconciliation gets there (`NoJobIsPlanned` is
proved). The outputs of a step and the pod failure policy are behind that branch
and left out; so are artifacts: no status ever lists one, hence an input taken
from a step is an error that `handleStepInputs` logs (1491), and a download goes
to the controller's own disk, where nothing reads it.

### MCJobFlow.tla, MCIntake.tla, MCDagCache.tla, MCStepData.tla

Values for the constants: three-step graphs, policies, families of specs and
flows, bounds.

## 3. Runs

Passing runs. "One kind" of disturbance means at most one of each kind.

| Run | Flow and environment | Properties | What it shows |
|---|---|---|---|
| `Stale` | a apart, b -> c; b a gate; a may fail, pods are replaced, several completions; c only if a fails; one refusal; resyncs | `PlannedStepsHaveNoJob`, `QuiescentIsReconciled` | 463 k states. No event is missed: at rest, status, Jobs and approvals agree. `executeStep` never meets a step with a JobRef, so that pod failure policies and outputs are dead code (proved, section 4). Deadlock is checked. |
| `Faults` | a, b -> c, c a gate, a `continueOnFailure` and may fail; a crash, an API error, a deleted Job | `TypeOK`, `DependencyOrder`, `SuccessIsReal`, `ImplementsOrder` | Order and truth of `Succeeded` survive faults. |
| `Gate` | a -> b, b a gate; a retry for each; an edit that breaks, mends or deletes, an API error; no resync; one tick of the clock; fairness | `QuietWithinASecond`, `RejectedFlowFails`, `ApprovedGateOpens`, `EventuallySucceeds` | 194 k states. An approval is never overlooked; in a second that lasts the controller comes to rest; a flow that has lost no Job ends `Succeeded`, one whose spec stays broken `Failed`, for good. |
| `Timed` | a -> b, b a gate; timeout 0 for a, deadline 1, TTL 1, one retry, clock up to 2; one refusal, one edit that breaks, mends or deletes | `DeadlineIsFinal`, `OnlyLateJobsDeleted`, `TTLDeletesFinishedFlow` | Stale copies neither revive a flow past its deadline nor delete a Job or a flow too early. |
| `Rejected` | b and c in a cycle, a outside; the spec may be broken and mended; all disturbances; fairness | `RejectedFlowFails` | 882 states. A flow that cannot be sorted ends `Failed` for good, although it is initialized before its cycle is found, and no order of edits, lost writes and old copies gets round that. (`Gate` has the flows without a cycle, which may run before they are broken.) |
| `Intake` | all 512 graphs on three steps, duplicate, blank and unknown names, policies, rules, retries, templates, resource templates, inputs and outputs on both sides of each check; failurePolicy Ignore; two changes | `AdmittedIsPlannable`, `CycleIsReal`, `PlanFitsCopy`, `AdmittedMeetsAssumptions`, `DefaultsChangeNothing` | The two searches agree, the cache never mixes up specs, defaults change no meaning, and what is admitted is what the controller assumes - numbers in range, a template for each Job, deciding rules, one source for each input, well-formed names - but for four things the webhook lets through: a dependency on the empty name, a timeout that is not positive, an artifact of a step that is not named, and a JSONPath without its step. |
| `DagCache` | two workers, two JobFlows, three specs, one of them cyclic; restarts; fairness | `TypeOK`, `GraphIsOfTheSpec`, `AccessIsExclusive`, `ForgetsOnlyAtStart`, `CallsReturn` | The unlocked making of the map costs at most one lost map per worker at the start, never a wrong graph; the locks are given back on every path. |
| `StepData` | one or two steps; 53 flows with parameters in each form and from each source, with a dependency that must succeed, one that may fail, and none; one flow with four resources, two of which meet objects of their name; two disturbances | `TypeOK`, `ResourcesBeforeJobs`, `DependencyIsReadAtItsEnd`, `JobCarriesItsParameters` | 369 k states. What a step reads of a dependency that may not fail is its end; parameters are in the places that ask for them; resources are there before Jobs. |

**Why the bounds are enough.** Three steps give every shape of two dependencies
(chain, join, a step apart); a fourth adds no new relation between a step, its
dependency and a bystander. `Stale`, `Faults` and `Rejected` have three; `Gate` and
`Timed`, where time passes, have a Job and a gate after it, which is where an
approval, a retry and a late event meet. One disturbance of a kind is enough for
"a fault between any two steps"; two kinds may combine. In `Timed` the clock needs
one tick to make something late and one more to see what a later reconciliation
does. In `Gate` it ticks once, at any moment: what was stored in the first second
is stamped anew in the next, and since the clock then stands, that second is one
that lasts. The conditions are bounded by `MaxConditions` because the early exits
append one each time, for ever: each append is a write, and so the next event.
In `Intake` three names give cycles of every length up to three and
joins, two changes give an update or a re-creation under a filled cache. In
`DagCache` two workers are enough for each pair of a reader, a writer and one who
makes the map, and a third spec tells a cached graph from both that were asked
for; the proofs are for any number. In `StepData` a step and its dependency, and
two parameters of one step, are all there is to confuse, and two disturbances
are a fault and what follows it (a Job deleted and its successor, an edit during
a refused call).

**Symmetry** is not used: the steps differ by their dependencies.

**Deadlock** is off where the environment may stop: a finished flow with no
resync, users who ask for nothing more, a clock at its bound.

**Fairness** (`FairSpec`): weak fairness of the worker (controller-runtime serves
the queue), of `SyncFlow` and each `SyncJob` (watches deliver), of `Resync` where it
is enabled (informers resync every ten hours), of `Tick`, and of each `JobEnds`
(Jobs end). Nothing is assumed of users, disturbances or refusals. Weak is enough
since each of these stays enabled until it happens; an event that overtakes is
not lost because the cache takes the newest version. `ApprovedGateOpens`,
`RejectedFlowFails` and `QuietWithinASecond` need no user; `EventuallySucceeds`
states its need of approvals as a premise. In `DagCache`, weak fairness of each
worker inside `getOrBuildDAG` (goroutines are scheduled) and strong fairness of `Lock`: the mutex is free again
and again, and `sync.RWMutex` hands itself to a goroutine that has waited long.
Nobody is assumed to call.

**What rest means.** Every reconciliation stamps the Ready condition (1032) and
the completion time of an ended flow (503, 995) with the current second, and
metav1.Time keeps seconds. A reconciliation in a later second therefore always
changes the status, and its write is an event: `QuietWithinASecond` says that
this dies out as long as the second lasts. The code promises no more: an event
of one second that is served in the next causes one more write, and so on for
ever if each does. A reconciliation that ends in an early exit is different: it
appends one more condition, so that there is no rest even within a second. The
property is therefore about flows that stay valid and within their deadline and
backoff limit.

**Mutants.** For every property of a passing run `PROJECT.json` names a plausible
mistake (the definitions marked "wrong") that this property, in that run, detects.

### Where the code and the documents disagree

Each has a run in which TLC refutes what the repository says.

| Run | Said | Done |
|---|---|---|
| `LaggingFlow` | "This is normal - controller will retry" (TROUBLESHOOTING.md:406) | After a conflict the retry meets `AlreadyExists` and fails the step whose Job is running. |
| `Retries` | "automatic retries for failed steps with configurable backoff" (USER_GUIDE.md:201) | The refresh re-stamps the failure right before the backoff is tested, so no positive backoff is ever over. (A failure so late that its backoff would outlast the model's clock is left out.) |
| `FailureStops` | "Stop Flow -> Mark JobFlow Failed" (ARCHITECTURE.md:152) | A failed Job with dependents leaves the flow Running for ever. |
| `Schema` | "the JobFlow pauses (`status.phase: Paused`)" (USER_GUIDE.md:399) | The CRD in `deploy/crds` knows neither `Paused` nor `PendingApproval`, nor a condition status "True": the API server refuses the write. |

### Seen but without a run

TLC also refuted these while the model was written; the model keeps the code's
behaviour and no run is spent on them:

* One failed pod of a Job with backoffLimit left fails the step while its Job
  goes on: the test is `job.Status.Failed > 0`, a count of pods (505; the comment
  at 497 says "Update phase based on job conditions").
* A finished flow is not deleted when its TTL expires, even if it is reconciled
  long after: each reconciliation renews
  the completion time (992) right before the TTL is compared with it, and
  nothing requeues the key at the expiry (USER_GUIDE.md:558: "JobFlow is
  automatically deleted after TTL expires").
* A pod failure rule that says Ignore is never asked: the refresh has made the
  step Failed (505; USER_GUIDE.md:336: "Don't mark step as failed").
* A Job gets its template with the places unfilled when the parameters cannot be
  applied (715): a value with a quote in it, when the template needs replacement,
  or a place in another form than the template engine knows next to a name it
  cannot parse. A direct read of a Job created again may be of the Job before it
  (UIDs are not compared, 1803).
* A Job the cache does not show yet is taken for deleted (reconciler.go:1806;
  the comment at 1808 says "Job was deleted").
* A flow marked Failed goes on starting steps (259).
* A step whose condition is not met stays Pending and its flow Running; no code
  sets `Skipped` (585, API_REFERENCE.md:260).
* A flow past its deadline grows a Ready condition in every reconciliation (172,
  types.go:346), and so does a flow with a broken spec or too many retries: its
  writes never end.
* A flow that fails validation before it was initialized, and whose spec is then
  mended, has a phase and no steps: `hasInitialized` (365) takes it for
  initialized, `executeStep` fails with `step_status_not_found` (633) in every
  reconciliation, and if no step is planned - the conditions of all roots are
  false - `updateJobFlowStatus` finds nothing unfinished and sets Succeeded with
  nothing run (API_REFERENCE.md:245: "All steps completed successfully").
  `SuccessIsReal` is therefore about flows that are listed.
* A Succeeded step turns Failed when its Job is deleted (1784; the comment at 247
  speaks of Running and Pending steps).
* The time of the Ready condition moves although the condition has not changed
  (1032; types.go:381: "LastTransitionTime is the last time the condition
  transitioned.").

Outside the models: the manager and `startMetricsServer` are both given
`--metrics-addr` (main.go:131, 244), and whichever comes second cannot bind it;
`deploy/manifests/deployment.yaml` passes flags that `main.go` does not define
(`--enable-leader-election`, `--leader-election-namespace`).

## 4. Proofs

`JobFlowProofs.tla` proves `TypeCorrect: Spec => []TypeOK` - one lemma per method of
the reconciler (its result is a JobFlow again), one step per action. On that
rests `NoJobIsPlanned: Spec => []PlannedStepsHaveNoJob`. `PlannedStepsHaveNoJob`
speaks of the worker's copy, which may be any old copy of the flow; `PlanInv`
therefore says of all three copies that no Pending step has a JobRef. Every
method keeps it: a JobRef is stored together with a phase that is not Pending, and what
makes a step Pending, initialization and a retry, clears it.

`JobFlowOrderProofs.tla` proves `DependenciesFirst: Spec => []DependencyOrder`, for
every set of steps, dependency relation (cyclic ones too), policy, schema and
budget of disturbances. `DependencyOrder` alone is not inductive: a step begins
because a *local copy* calls its dependencies completed. `OrderInv` adds that no
copy of the JobFlow - server, cache, worker - claims more than has happened
(`Evidence`), that neither does any Job (`JobsEvident`), that a failure the
controller saw is one of a step it began, and that the dependencies of every
planned step are settled. The argument: the sets of evidence only grow, so an
old copy stays true; every method adds a claim only from a Job with a succeeded
pod, from an approval, or from a failure it records. `Refinement: Spec =>
ImplementsOrder` follows: an action begins at most one step, whose dependencies
`OrderInv` says are settled, and the settled set only grows.

`TopologicalSortProofs.tla` proves `SortIsCorrect`: in every behaviour, for every
graph and every order of roots and dependencies, `ListedInOrder` and
`VerdictIsRight`. The invariant: the stack is a path, each frame a dependency of
the one before, its names exactly `tempMark`; what a frame's loop has passed is
visited; `visited` is closed under dependencies and is what `result` lists, in
order. A marked dependency therefore closes a cycle along the stack. For the
other direction - a sorted graph has no cycle - take a set of names that wait
for one another and the one of them with the smallest index in `result`: one of
its dependencies is in the set and listed earlier.

`JobFlowSuccessProofs.tla` proves `SuccessIsTrue: Spec => []SuccessIsReal`. `SuccessInv`
says of every copy of a flow whose Jobs are left alone that a step it calls
Succeeded, and that has a Job, has a success in the cached Job, and that the
server's Job keeps what the cache shows. A success that was read can therefore
be read again, so that no refresh from an old copy takes one back. The step that
could destroy it is a timeout, which deletes Jobs: but only of steps that are
Running after the refresh, and such a step shows no success. `Alive` says whose
copies are whose.

The same module proves `RestIsReconciled`, that at rest status and Jobs agree:
`Spec => [](flow.listed /\ JobsLeftAlone /\ DeletesGoThrough => QuiescentIsReconciled)`.
`RestInv` is about the moment before: nothing is queued, the worker reconciles
a current copy, and every cached Job is the server's. Either that worker changes
the status, so that its write is an event (a current copy is written, or the
refused write queues the key), or it has found nothing to change and the status
already is what the Jobs say. The cases are those of `Reconcile`: an early exit
appends a condition; a step that was started is no longer Pending; a step that
is late has its Job deleted, and the cache hears of that; a retry raises
`retryCount`; what the refresh changes is part of the write. `Truthful` (a Running
step has a JobRef) and `PhaseByJob` (what a phase says of the Job it was read
from) make "found nothing to change" mean that status and Job agree.
`DeletesGoThrough` - the flow has no timeouts, or no API call has failed - is needed:
a refused `Delete` of a late Job (1223) in two reconciliations of one second
writes the same status twice, the second write is no event, and the flow rests
with a Failed step whose Job runs on, until a resync. TLC finds that with one
step, a timeout and two API errors. `Stale`, which checks `QuiescentIsReconciled`
itself, is inside the hypotheses: no timeouts, no foreign deletions.

`JobFlowTimeProofs.tla` proves the three properties of the run `Timed`.
`DeadlineIsKept: Spec => DeadlineIsFinal`: the start of a flow is stored once, so
that every copy with a phase has the same start (`SameStart`); whoever gets past
the deadline check does so before the deadline of the stored flow.
`TTLIsKept: Spec => TTLDeletesFinishedFlow`: a worker comes to the TTL check with
the status it has just stored, and nobody but a worker changes phase and
completion time. `TimeoutIsKept: Spec => OnlyLateJobsDeleted`: no copy has an older
start of a step than the Job that is there (`Fresh`). A new Job is made only where
there is none; that no copy which can still be read then has a JobRef for the
step is what `Seen` says of each pair of copies, and a timeout, which makes Jobs
disappear, keeps it because it deletes only Jobs its own copy has.

`DagCacheProofs.tla` proves `CacheGraphIsOfTheSpec`, `CacheAccessIsExclusive` and
`CacheForgetsOnlyAtStart`, for any number of workers, names and specs. `CacheInv` ties
the answer to the entry and the entry to the hash it was stored under
(`EntriesFit`), says that whoever is past `init` finds a map (`MapIsThere`), and that
the lock is held by exactly those whose program counter says so (`LocksAreHeld`).
`CacheTypeCorrect` is the type invariant.

`StepDataProofs.tla` proves `ResourcesFirst: Spec => []ResourcesBeforeJobs`, for every
set of flows, any number of resources and any disturbance. `ResourceInv` follows
the index of the loop - what is before it exists - to the write of the first
status, and that status to the first Job. The other results follow what a call
has read to where it is used:

* `DataTypeCorrect`: the type invariant.
* `DependenciesAreReadAtTheirEnd`: a value that comes from the first Job of a
  dependency that may not fail was read when that Job had succeeded. `ReadInv` says
  of every step that is planned, in hand or given its parameters that the Jobs
  of such dependencies, if they were their first, have succeeded and are seen so
  unless they were deleted (`Done`), and that this is what was read of them
  (`Told`). With `continueOnFailure` a failed Job is read as it is, active ones
  included (the refresh takes a Job it does not find for a failed one), and a Job
  made anew may be taken for the one before it: both are outside the statement.
* `JobsCarryTheirParameters`: the Job of a step has the values that were read for it
  in every place, for any number of parameters and in whatever order the Go map
  gives them. `Fill` fills all places of a set at once; pasting one form of one
  name is `Fill` of one place, and `FillTwice` says that filling one set after the
  other is filling their union as long as no value holds a place, so that the
  order drops out (`SubstituteIsFill`, by induction over the order and over the
  text). `SubstitutedIsFilled` goes through the three ways of
  `applyParametersToJobTemplate` with this; `CarryInv` keeps for each Job the
  parameters it was made from, which are finitely many texts.

`IntakeProofs.tla` proves the five properties of the run `Intake`, for any set of
specs and any number of changes:

* `AdmittedSpecsAreUsable` (`AdmittedMeetsAssumptions`), from the checks of
  `ValidateJobFlowEnhanced` one by one. `AdmissionInv` says that what is on its way
  or stored is what was written or what the mutating webhook makes of it, and
  that what is called admitted has passed the checks in the form it is stored in.
* `DefaultsAgree` (`DefaultsChangeNothing`), if the configured defaults are 86400 and
  6: the webhook writes these two numbers whatever the configuration is.
* `PlanIsOfTheCopy` (`PlanFitsCopy`) and `ReportedCyclesAreReal` (`CycleIsReal`):
  `SortInv`, the invariant of `TopologicalSortProofs`, is reused through INSTANCE for
  the sort that is interleaved with everything else; `CopyInv`, `VerdictInv` and
  `CacheInv` tie the graph under way, the plan and the entry of the cache to the
  steps they were made from.
* `AdmittedSpecsArePlanned` (`AdmittedIsPlannable`): the controller's own check asks
  no more than the webhook's, and its sort fails on cyclic graphs only
  (`ReportedCyclesAreReal`). And the webhook's search misses no cycle:
* `WebhookFindsCycles`: `validateDAG` refuses a list of steps if and only if some of
  them wait for one another, for every list and every order. The recursion is a
  function of the call - the node, the path to it and the nodes visited - and
  such a function exists because each call has fewer nodes left (`FewerLeft`,
  `SearchExists`). Call a *knot* a set of nodes of which each waits for one in the
  set. A call that finds nothing leaves the nodes it has visited with
  dependencies that are visited or on the path, and so without a knot (`LoopTurn`,
  `BodyAnswers`); a call that finds a cycle has a knot in its path.

Assumptions: those of the constants - `StepsAssumption`, `PolicyAssumption`,
`BoundsAssumption`, `SchemaAssumption` (`JobFlow`), `CacheAssumption` (`DagCache`),
`FlowsAssumption`, `TextsAssumption`, `BoundsAssumption` (`StepData`),
`ConfigurationAssumption`, `SpecsAssumption` (`Intake`) - which say what the decoder of
the CRD's schema and Go's types guarantee; nothing about fairness.

**Only model-checked**

* Liveness (`ApprovedGateOpens`, `QuietWithinASecond`, `RejectedFlowFails`,
  `EventuallySucceeds`, `CallsReturn`): TLAPS has neither ENABLED nor leads-to.
* `QuiescentIsReconciled` outside the hypotheses of `RestIsReconciled`, where it is
  not true of every flow (see there).

## 5. Assumptions and what is left out

* **Status schema.** All runs but `Schema` take the enums that the markers of
  `types.go` describe (`MarkedSchema`). The CRD's pruning of fields it does not list
  and its default `Job` for a step's type are not modelled.
* **Approvals** are stored as users write them. The key of the annotation,
  `workflow.kube-zen.io/approved/<step>` (reconciler.go:1636), has two slashes,
  which Kubernetes does not accept in a key; the tests use a fake client that
  does. The model takes the approval to arrive.
* **Jobs left alone.** `SuccessIsReal` is about flows whose Jobs nobody else
  deletes; a Job created again has the old name, and the cached old Job is taken
  for it. `OnlyLateJobsDeleted` needs that too, and that the flow is there: the
  garbage collector of a deleted flow, and a worker still busy with it, make and
  delete Jobs of one name in turn. `Stale` and `Timed` have no deleted Jobs.
* **Errors.** The class of an error is given; `isRetryable` (896) also looks for
  words in its text, which holds the names of flow and step.
* **Edits** change whether the spec is valid, not its steps; `Intake` has the
  changes of steps, up to the plan.
* **One controller.** Leader election is taken to work; a crash is a restart or a
  lost lease.
* **The race on the field `dagCache`** is a race on one word: a worker reads nil or
  a map some worker made, and the map it reads is initialised. `json.Marshal` of
  the steps of a spec does not fail. Entries of deleted flows are never evicted;
  they are found again only by a flow of the same name, and then compared by hash.
* **Reads of ConfigMaps and Secrets** go through a cache too; `StepData` reads the
  current ones. A late read is an edit that takes effect later; a read that is
  refused, or comes too early for the cache, passes the parameter over (1503).
* **Built-in defaults.** `Intake` runs with the built-in TTL and backoff limit. A
  TTL configured with `ZEN_FLOW_DEFAULT_TTL_SECONDS` (CONFIGURATION.md:15) has no
  effect on a JobFlow that passes the webhook, which writes 86400 and 6
  (webhook.go:342) whatever the configuration is: `DefaultsChangeNothing` holds for
  equal defaults only.

**Not modelled**

* Step outputs, artifacts, archives and the pod failure policy: unreachable or
  without effect in the controller (section 2, StepData). The repository's tests
  call these functions directly; a model of them would be about the tests.
* The concurrency policy: it compares names within a namespace, which are unique,
  so that it never finds another flow.
* `Get` errors of the refresh other than NotFound (1821): it reads through the
  informer's cache, which knows no other.
* Overflow in `calculateBackoff`: a table of natural numbers in the model; see the
  plan.
* The text of conditions and the Go templates in it; the model has what a
  condition can ask.
* Events, metrics, configuration, errors, the example validator: no state that
  the controller reads back.
* HTTP and TLS of the webhook: I/O.

## 6. Plan

Done: `JobFlow` with its environment, `FlowOrder` and the refinement,
`TopologicalSort`, `Validation` in full, `Intake`, `DagCache`, `StepData` with
`Parameters`, and the twenty-four theorems listed in `PROJECT.json`.

Left, in this order:

1. **Retry** - `handleStepRetry` and `calculateBackoff` with the width of
   `time.Duration`; the overshoot of the backoff limit. Abstract specification: a
   step has at most limit + 1 attempts, a delay apart.
2. **Proofs** - the safety properties of all passing runs are proved, with the
   hypotheses named above; the abstract specification of retries would come with
   its refinement.
3. **Controller life** - leader election, probes and the two metrics servers of
   `main.go`.
