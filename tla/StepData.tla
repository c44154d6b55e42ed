------------------------------ MODULE StepData ------------------------------
(***************************************************************************)
(* What flows between the steps of a JobFlow: the parameters executeStep   *)
(* reads before it creates the Job of a step, and the resources that are   *)
(* made for the flow before its first step (reconciler.go, parameters.go   *)
(* and getSecretValue of artifacts.go in pkg/controller).                  *)
(*                                                                         *)
(* One worker reconciles the flow.  Between two calls to the API server    *)
(* Jobs make progress, the cache of Jobs catches up, Jobs are deleted and  *)
(* the objects a parameter is read from change.  What JobFlow says of      *)
(* phases, retries, timeouts, conditions, approvals and conflicts is left  *)
(* to JobFlow.                                                             *)
(*                                                                         *)
(* A planned step has no Job (NoJobIsPlanned of JobFlowProofs), so that    *)
(* executeStep handles inputs and creates a Job, and nothing ever looks at *)
(* the outputs of a step or at the pod failure policy.  As no status lists *)
(* outputs, an artifact taken from a step is an error that is only logged; *)
(* a download goes to the controller's own disk, where nothing reads it.   *)
(* Input artifacts are left out for that.                                  *)
(***************************************************************************)
EXTENDS Parameters

CONSTANTS
  Steps,         \* the steps of all flows
  Flows,         \* the specs a flow may have, each with the objects that are
                 \* there before it
  Edits,         \* what users may make of an object: a set of entries
  Budget         \* bound on disturbances: refused calls, crashes, deletions,
                 \* edits

IsList(x) == x \in Seq(Range(x))

(* An admitted flow depends on its own steps (StepsAreRunnable of Intake).  *)
ASSUME FlowsAssumption ==
  \A f \in Flows :
    /\ DOMAIN f.deps \subseteq Steps /\ f.continueOnFailure \subseteq DOMAIN f.deps
    /\ IsList(f.resources)
    /\ \A resource \in Range(f.resources) : resource.kind \in {"claim", "data", "binary"}
    /\ \A s \in DOMAIN f.deps :
         /\ f.deps[s] \subseteq DOMAIN f.deps
         /\ IsList(f.parameters[s])
(* A text is a list of tokens.  The templates of Jobs are encoded.          *)
IsTemplate(job) ==
  /\ job = [args |-> job.args, rest |-> job.rest, meta |-> job.meta]
  /\ \A part \in DOMAIN job :
       /\ IsList(job[part])
       /\ \A token \in Range(job[part]) :
            token = Token(token.form, token.name) /\ token.form # "raw"
ASSUME TextsAssumption ==
  /\ \A e \in Edits : IsList(e.value)
  /\ \A f \in Flows :
       /\ \A e \in f.objects : IsList(e.value)
       /\ \A e \in Range(f.resources) : e.kind # "claim" => IsList(e.value)
       /\ \A s \in DOMAIN f.deps :
            /\ IsTemplate(f.template[s])
            /\ \A param \in Range(f.parameters[s]) :
                 \A value \in param.value : IsList(value)
ASSUME BoundsAssumption == Budget \in Nat

VARIABLES
  flow,      \* the spec
  jobs,      \* the Jobs, by step: absent, active, succeeded or failed
  made,      \* the templates they were created from, filled in
  seen,      \* the Jobs in the cache
  objects,   \* what ConfigMaps and Secrets hold: [name, kind, key, value]
  volumes,   \* the PersistentVolumeClaims
  stored,    \* the status of the steps in the API server, once it is there
  copy,      \* the worker's copy of it
  worker,    \* what the worker is doing
  left,      \* what is left of Budget
  given      \* history: what the parameters of a Job were resolved to, and
             \* whether it is the step's first

cluster == <<jobs, made, seen>>
storage == <<objects, volumes>>
vars == <<flow, cluster, storage, stored, copy, worker, left, given>>

(* A step that is not there.                                                *)
Nobody  == "nobody"
JobStates  == {"absent", "active", "succeeded", "failed"}
StepPhases == {"Pending", "Running", "Succeeded", "Failed"}

NoJob   == [args |-> <<>>, rest |-> <<>>, meta |-> <<>>]
NoGift  == [params |-> <<>>, job |-> "none"]
NewStep == [phase |-> "Pending", jobRef |-> FALSE]
Fresh   == [s \in Steps |-> NewStep]

(* at: idle; init, with the resources it creates one after the other; loop, *)
(* with the planned steps that are left; and, for the step executeStep was  *)
(* called for, parameters and create.                                       *)
Idle == [at |-> "idle", step |-> Nobody, next |-> 1, params |-> <<>>, ready |-> {}]
Loop(w) == [Idle EXCEPT !.at = "loop", !.ready = w.ready]

Spend == left > 0 /\ left' = left - 1
Keep  == left' = left

(* The entries of a ConfigMap are "data" or "binary".  A Secret is an       *)
(* object of its own, also under the same name.                             *)
SameObject(x, y) == x.name = y.name /\ (x.kind = "secret") = (y.kind = "secret")
Lookup(name, kinds, key) ==
  {e.value : e \in {x \in objects : x.name = name /\ x.kind \in kinds /\ x.key = key}}
Put(entry) ==
  {e \in objects : ~(SameObject(e, entry) /\ e.key = entry.key)} \cup {entry}

Init ==
  /\ flow \in Flows
  /\ jobs = [s \in Steps |-> "absent"] /\ seen = jobs
  /\ made = [s \in Steps |-> NoJob]
  /\ objects = flow.objects /\ volumes = {}
  /\ stored = {} /\ copy = Fresh /\ worker = Idle /\ left = Budget
  /\ given = [s \in Steps |-> NoGift]

----------------------------------------------------------------------------
(* The environment.                                                         *)

JobEnds(s) ==
  /\ jobs[s] = "active"
  /\ \E end \in {"succeeded", "failed"} : jobs' = [jobs EXCEPT ![s] = end]
  /\ UNCHANGED <<flow, made, seen, storage, stored, copy, worker, left, given>>

JobIsDeleted(s) ==
  /\ Spend /\ jobs[s] \in {"succeeded", "failed"}
  /\ jobs' = [jobs EXCEPT ![s] = "absent"]
  /\ UNCHANGED <<flow, made, seen, storage, stored, copy, worker, given>>

CacheCatchesUp(s) ==
  /\ seen[s] # jobs[s]
  /\ seen' = [seen EXCEPT ![s] = jobs[s]]
  /\ UNCHANGED <<flow, jobs, made, storage, stored, copy, worker, left, given>>

UserEdits ==
  /\ Spend
  /\ \E entry \in Edits : objects' = Put(entry)
  /\ UNCHANGED <<flow, cluster, volumes, stored, copy, worker, given>>

----------------------------------------------------------------------------
(* Reconcile, as far as it is about data.                                   *)

Abort == worker' = Idle /\ copy' = Fresh

Crash ==
  /\ Spend /\ worker # Idle /\ Abort
  /\ UNCHANGED <<flow, cluster, storage, stored, given>>

(* initializeJobFlow: the resources are created one after the other.  One   *)
(* that is there already is taken as it is, and an error ends the           *)
(* reconciliation, so that the next one begins anew.                        *)
Initialize ==
  /\ worker = Idle /\ stored = {}
  /\ worker' = [Idle EXCEPT !.at = "init"]
  /\ UNCHANGED <<flow, cluster, storage, stored, copy, left, given>>

Exists(resource) ==
  IF resource.kind = "claim" THEN resource.name \in volumes
  ELSE \E entry \in objects : SameObject(entry, resource)
CreateResource(resource) ==
  \/ Exists(resource) /\ UNCHANGED storage
  \/ /\ ~Exists(resource) /\ resource.kind = "claim"
     /\ volumes' = volumes \cup {resource.name} /\ UNCHANGED objects
  \/ /\ ~Exists(resource) /\ resource.kind # "claim"
     /\ objects' = Put(resource) /\ UNCHANGED volumes

createResourceTemplatesAnyway ==                                        \* wrong
  /\ worker.at = "init" /\ worker.next <= Len(flow.resources)
  /\ worker' = [worker EXCEPT !.next = @ + 1]
  /\ \/ Keep /\ CreateResource(flow.resources[worker.next])
     \/ Spend /\ UNCHANGED storage
  /\ UNCHANGED <<flow, cluster, stored, copy, given>>

createResourceTemplates ==
  /\ worker.at = "init" /\ worker.next <= Len(flow.resources)
  /\ \/ /\ Keep /\ CreateResource(flow.resources[worker.next])
        /\ worker' = [worker EXCEPT !.next = @ + 1]
     \/ Spend /\ worker' = Idle /\ UNCHANGED storage
  /\ UNCHANGED <<flow, cluster, stored, copy, given>>

EndInitialize ==
  /\ worker.at = "init" /\ worker.next > Len(flow.resources)
  /\ \/ Keep /\ stored' = {Fresh}
     \/ Spend /\ UNCHANGED stored
  /\ worker' = Idle
  /\ UNCHANGED <<flow, cluster, storage, copy, given>>

refreshStepStatuses(steps) ==
  [s \in Steps |->
     IF ~steps[s].jobRef THEN steps[s]
     ELSE [steps[s] EXCEPT !.phase = CASE seen[s] = "absent"    -> "Failed"
                                       [] seen[s] = "succeeded" -> "Succeeded"
                                       [] seen[s] = "failed"    -> "Failed"
                                       [] OTHER                 -> "Running"]]

EndedSteps(steps) ==                                                    \* wrong
  {s \in DOMAIN flow.deps : steps[s].phase \in {"Succeeded", "Failed"}}
CompletedSteps(steps) ==
  {s \in DOMAIN flow.deps :
     \/ steps[s].phase = "Succeeded"
     \/ steps[s].phase = "Failed" /\ s \in flow.continueOnFailure}
createExecutionPlan(steps) ==
  {s \in DOMAIN flow.deps : steps[s].phase = "Pending" /\
                             flow.deps[s] \subseteq CompletedSteps(steps)}

Reconcile ==
  /\ worker = Idle
  /\ \E steps \in stored :
       /\ copy' = refreshStepStatuses(steps)
       /\ worker' = [Idle EXCEPT !.at = "loop", !.ready = createExecutionPlan(copy')]
  /\ UNCHANGED <<flow, cluster, storage, stored, left, given>>

EndReconcile ==
  /\ worker.at = "loop" /\ worker.ready = {}
  /\ \/ Keep /\ stored' = {copy}
     \/ Spend /\ UNCHANGED stored
  /\ Abort
  /\ UNCHANGED <<flow, cluster, storage, given>>

(* An error of executeStep: when it is retryable the reconciliation ends    *)
(* there, and otherwise the step has failed.                                *)
StepFails(s, steps) ==
  \/ worker' = Loop(worker) /\ copy' = [steps EXCEPT ![s].phase = "Failed"]
  \/ Abort

----------------------------------------------------------------------------
(* executeStep.  Its inputs are handled one after the other, and what       *)
(* cannot be had is passed over.                                            *)

executeStep(s) ==
  /\ worker.at = "loop" /\ s \in worker.ready
  /\ worker' = [worker EXCEPT !.at = "parameters", !.step = s, !.next = 1, !.params = <<>>,
                              !.ready = @ \ {s}]
  /\ UNCHANGED <<flow, cluster, storage, stored, copy, left, given>>

(* The JSON of the status of a Job has a count only when it is not zero.    *)
evaluateJSONPath(job, field) == IF job = field THEN {<<Word(job)>>} ELSE {}

extractParameterFromJobOutput(s, field) ==
  IF s \in Steps /\ copy[s].jobRef /\ seen[s] # "absent"
    THEN evaluateJSONPath(seen[s], field) ELSE {}

getSecretValue(ref)                 == Lookup(ref.name, {"secret"}, ref.key)
resolveParameterFromConfigMap(ref) == Lookup(ref.name, {"data", "binary"}, ref.key)

(* An admitted parameter has one of the sources (AdmittedMeetsAssumptions   *)
(* of Intake).  A path that names no step is an error.                      *)
resolveParameter(param) ==
  param.value \cup UNION {
    (UNION {resolveParameterFromConfigMap(ref) : ref \in from.configMapKeyRef}) \cup
    (UNION {getSecretValue(ref) : ref \in from.secretKeyRef}) \cup
    (UNION {UNION {extractParameterFromJobOutput(s, path.field) : s \in path.prefix} :
              path \in from.jsonPath}) :
      from \in param.valueFrom}

Assign(params, name, value) ==
  [n \in DOMAIN params \cup {name} |-> IF n = name THEN value ELSE params[n]]

(* Reading a ConfigMap or a Secret may fail also when it is there, and one  *)
(* that was just made may not yet be in the cache; Jobs are in a cache that *)
(* the watch keeps.                                                         *)
ReadsObject(param) ==
  /\ param.value = {}
  /\ \E from \in param.valueFrom : from.configMapKeyRef # {} \/ from.secretKeyRef # {}

HandleParameter ==
  LET parameters == flow.parameters[worker.step]
      param      == parameters[worker.next]
      pass       == worker' = [worker EXCEPT !.next = @ + 1]
  IN  /\ worker.at = "parameters"
      /\ \/ /\ worker.next <= Len(parameters)
            /\ \/ \E value \in resolveParameter(param) :
                    Keep /\ worker' = [worker EXCEPT !.next = @ + 1,
                                         !.params = Assign(@, param.name, value)]
               \/ resolveParameter(param) = {} /\ Keep /\ pass
               \/ ReadsObject(param) /\ Spend /\ pass
         \/ /\ worker.next > Len(parameters) /\ Keep
            /\ worker' = [worker EXCEPT !.at = "create", !.next = 1]
      /\ UNCHANGED <<flow, cluster, storage, stored, copy, given>>

StartedUnnamed(step) == [step EXCEPT !.phase = "Running"]               \* wrong
Started(step) == [step EXCEPT !.phase = "Running", !.jobRef = TRUE]

(* The name of the Job is that of the flow, the step and the UID.           *)
createJobForStep ==
  LET s == worker.step
  IN  /\ worker.at = "create"
      /\ \/ /\ Keep /\ jobs[s] = "absent"
            /\ \E job \in Substituted(flow.template[s], worker.params) :
                 made' = [made EXCEPT ![s] = job]
            /\ jobs'  = [jobs EXCEPT ![s] = "active"]
            /\ given' = [given EXCEPT ![s] = [params |-> worker.params,
                                              job |-> IF given[s].job = "none"
                                                        THEN "first" ELSE "anew"]]
            /\ copy'  = [copy EXCEPT ![s] = Started(@)]
            /\ worker' = Loop(worker)
         \/ /\ Keep /\ jobs[s] # "absent"
            /\ worker' = Loop(worker) /\ copy' = [copy EXCEPT ![s].phase = "Failed"]
            /\ UNCHANGED <<jobs, made, given>>
         \/ /\ Spend /\ StepFails(s, copy)
            /\ UNCHANGED <<jobs, made, given>>
      /\ UNCHANGED <<flow, seen, storage, stored>>

Next ==
  \/ \E s \in Steps : \/ JobEnds(s) \/ JobIsDeleted(s) \/ CacheCatchesUp(s)
                      \/ executeStep(s)
  \/ UserEdits \/ Crash
  \/ Initialize \/ createResourceTemplates \/ EndInitialize
  \/ Reconcile \/ EndReconcile
  \/ HandleParameter \/ createJobForStep

Spec == Init /\ [][Next]_vars

----------------------------------------------------------------------------
(* The state of the Jobs, of the worker and of the status it writes, in     *)
(* which a step that runs or has Succeeded refers to its Job.  (Approval    *)
(* gates succeed without one; they are in JobFlow.)                         *)
TypeOK ==
  /\ jobs \in [Steps -> JobStates] /\ seen \in [Steps -> JobStates]
  /\ \A steps \in stored \cup {copy} : \A s \in Steps :
       /\ steps[s].phase \in StepPhases /\ steps[s].jobRef \in BOOLEAN
       /\ steps[s].phase \in {"Running", "Succeeded"} => steps[s].jobRef
  /\ worker.at \in {"idle", "init", "loop", "parameters", "create"}
  /\ worker.ready \subseteq Steps /\ left \in 0 .. Budget

(* No Job is created before all resources of the flow are there, however    *)
(* often one of them was refused or the process died on the way: a step     *)
(* that mounts a volume or a ConfigMap of the flow finds it, as long as     *)
(* nobody deletes it.                                                       *)
ResourcesBeforeJobs ==
  \A s \in Steps : jobs[s] # "absent" =>
    \A resource \in Range(flow.resources) : Exists(resource)

(* What a step reads from the Job of a step it depends on is that it has    *)
(* succeeded: the cache may lag, but not behind what the plan was made      *)
(* from.  This is so when the step it depends on may not fail               *)
(* (continueOnFailure), and when that Job is the first of its step: one     *)
(* that is made anew has the name of the one before, the refresh does not   *)
(* compare their UIDs, and the end of the old Job may be taken for that of  *)
(* the new one.                                                             *)
ReadFrom(s, param, from) ==
  /\ param.value = {}
  /\ \A source \in param.valueFrom :
       /\ source.configMapKeyRef = {} /\ source.secretKeyRef = {}
       /\ \A path \in source.jsonPath : path.prefix \subseteq {from}
  /\ \A other \in Range(flow.parameters[s]) :
       other.name = param.name => other = param

DependencyIsReadAtItsEnd ==
  \A s \in DOMAIN flow.deps : \A from \in flow.deps[s] :
    \A param \in Range(flow.parameters[s]) :
      (/\ from \notin flow.continueOnFailure /\ given[from].job = "first"
       /\ ReadFrom(s, param, from) /\ param.name \in DOMAIN given[s].params)
      => given[s].params[param.name] = <<Word("succeeded")>>

(* The Job of a step has the values that were read for it in every place    *)
(* for a parameter, and nothing else has changed, in whatever order the     *)
(* parameters are pasted.  This holds when the template of the Job keeps to *)
(* one form of place, the form "shell" to containers and the form "go" to   *)
(* identifiers, all parameters were resolved, and to plain words: a mixed   *)
(* template, a dash in a name or a quote in one value leaves places of      *)
(* other parameters as they were.                                           *)
Places(text) == {token \in Range(text) : token.form \in PlaceForms}
Regular(job) ==
  \E form \in PlaceForms :
    /\ {token.form : token \in Range(job.args) \cup Range(job.rest)} \subseteq {"word", form}
    /\ form = "shell" => Places(job.rest) = {}
    /\ form = "go" => {token.name : token \in Places(job.args) \cup Places(job.rest)}
                        \subseteq Identifiers
JobCarriesItsParameters ==
  \A s \in DOMAIN flow.deps :
    LET template == flow.template[s]
        params   == given[s].params
        filled(part) ==
          FlattenSeq([i \in DOMAIN template[part] |->
            LET token == template[part][i]
            IN  IF token.form = "word" THEN <<token>> ELSE params[token.name]])
    IN  (/\ made[s] # NoJob /\ Regular(template)
         /\ {token.name : token \in Places(template.args) \cup Places(template.rest)}
              \subseteq DOMAIN params
         /\ \A name \in DOMAIN params : \A token \in Range(params[name]) : token.form = "word")
        => made[s] = [args |-> filled("args"), rest |-> filled("rest"), meta |-> template.meta]
=============================================================================
