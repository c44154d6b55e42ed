------------------------------- MODULE Intake -------------------------------
(***************************************************************************)
(* The way of a spec from its author to the execution plan.                *)
(*                                                                         *)
(* The API server hands a JobFlow that is created or updated to the        *)
(* mutating and then to the validating webhook (pkg/webhook/webhook.go);   *)
(* with failurePolicy Ignore it goes on without a webhook it cannot reach. *)
(* The worker of the controller reads what was stored, checks it again     *)
(* (validateJobFlow) and gets the sorted graph of its steps from a cache   *)
(* that lives as long as the process, or builds it (getOrBuildDAG).        *)
(*                                                                         *)
(* One JobFlow name is followed: requests for others, and the workers that *)
(* reconcile others, share nothing with it but the map of the cache, in    *)
(* which each has an entry of its own.                                     *)
(***************************************************************************)
EXTENDS Validation

CONSTANTS
  Specs,             \* the specs users create a JobFlow with
  Revisions,         \* the specs users change a JobFlow to
  FailurePolicy,     \* of the webhook configurations: "Fail" or "Ignore"
  DefaultTTL,        \* config: ZEN_FLOW_DEFAULT_TTL_SECONDS
  DefaultBackoffLimit, \* config: ZEN_FLOW_DEFAULT_BACKOFF_LIMIT
  MaxChanges         \* bound on what users do and on restarts

ASSUME ConfigurationAssumption ==
  /\ FailurePolicy \in {"Fail", "Ignore"}
  /\ DefaultTTL \in Nat /\ DefaultBackoffLimit \in Nat /\ MaxChanges \in Nat

(* What comes to the webhooks was decoded from the schema of the CRD: all   *)
(* fields are there, a pointer is to one value at most, a number is an      *)
(* integer of either sign, and a name any string.                           *)
PolicyFields == {"concurrencyPolicy", "ttlSecondsAfterFinished", "backoffLimit",
                 "activeDeadlineSeconds", "podFailurePolicy"}
ASSUME SpecsAssumption ==
  \A spec \in Specs \cup Revisions :
    /\ DOMAIN spec = {"steps", "executionPolicy", "resourceTemplates"}
    /\ spec.steps \in Seq(Range(spec.steps))
    /\ \A step \in Range(spec.steps) :
         /\ step.name \in Names /\ step.dependencies \subseteq Names
         /\ \A retry \in step.retryPolicy :
              /\ retry.limit \in Int
              /\ \A backoff \in retry.backoff : backoff.duration \cup backoff.factor \subseteq Int
    /\ \A policy \in spec.executionPolicy :
         /\ spec.executionPolicy = {policy} /\ DOMAIN policy = PolicyFields
         /\ policy.ttlSecondsAfterFinished \cup policy.backoffLimit
              \cup policy.activeDeadlineSeconds \subseteq Int

VARIABLES
  stored,      \* the spec in the API server, if the JobFlow exists
  request,     \* the request on its way through admission, if there is one
  changes,     \* how many requests and restarts there were
  copy,        \* the spec of the worker's last copy
  verdict,     \* what the worker made of it
  planned,     \* what getOrBuildDAG returned: the graph and the sorted steps
  dagCache,    \* the entry of the JobFlow in dagCache, if there is one
  graph, stack, tempMark, visited, result, outcome   \* the sort under way

Dag == INSTANCE TopologicalSort

admission  == <<stored, request, changes>>
controller == <<copy, verdict, planned, dagCache>>
sorter     == <<graph, stack, tempMark, visited, result, outcome>>
vars == <<admission, controller, sorter>>

(* The field of a pointer, or its default.                                  *)
Or(pointer, default) == IF pointer = {} THEN default ELSE CHOOSE v \in pointer : TRUE

NoCopy == [spec |-> [steps |-> <<>>, executionPolicy |-> {}, resourceTemplates |-> {}],
           admitted |-> FALSE]

----------------------------------------------------------------------------
(* The mutating webhook.                                                    *)

SetPolicy(policy) ==                                                    \* wrong
  \/ policy.concurrencyPolicy # "" \/ policy.ttlSecondsAfterFinished # {}
  \/ policy.backoffLimit # {}

meaningful(policy) ==
  \/ policy.concurrencyPolicy # "" \/ policy.ttlSecondsAfterFinished # {}
  \/ policy.backoffLimit # {} \/ policy.activeDeadlineSeconds # {}
  \/ policy.podFailurePolicy # {}

(* The patch replaces a policy that says nothing, and otherwise adds the    *)
(* fields that are missing.                                                 *)
mutateJobFlow(spec) ==
  LET fill(policy) ==
        [policy EXCEPT
          !.concurrencyPolicy       = IF @ = "" THEN "Forbid" ELSE @,
          !.ttlSecondsAfterFinished = {Or(@, 86400)},
          !.backoffLimit            = {Or(@, 6)}]
      defaults ==
        [concurrencyPolicy |-> "Forbid", ttlSecondsAfterFinished |-> {86400},
         backoffLimit |-> {6}, activeDeadlineSeconds |-> {},
         podFailurePolicy |-> {}]
      kept == {policy \in spec.executionPolicy : meaningful(policy)}
  IN  [spec EXCEPT !.executionPolicy =
         IF kept = {} THEN {defaults} ELSE {fill(policy) : policy \in kept}]

----------------------------------------------------------------------------
Init ==
  /\ stored = {} /\ request = {} /\ changes = 0
  /\ copy = NoCopy /\ verdict = "none" /\ planned = {} /\ dagCache = {}
  /\ Dag!SortInit

(* Users.  At most one request is under way, as the API server stores one   *)
(* version after the other.                                                 *)
Ask(operation, spec) ==
  /\ request = {} /\ changes < MaxChanges
  /\ changes' = changes + 1
  /\ request' = {[operation |-> operation, stage |-> "mutate", written |-> spec,
                  spec |-> spec]}
  /\ UNCHANGED <<stored, controller, sorter>>

CreateFlow == stored = {} /\ \E spec \in Specs : Ask("CREATE", spec)
UpdateFlow == stored # {} /\ \E spec \in Revisions : Ask("UPDATE", spec)

DeleteFlow ==
  /\ stored # {} /\ changes < MaxChanges
  /\ stored' = {} /\ changes' = changes + 1
  /\ UNCHANGED <<request, controller, sorter>>

(* The API server calls the webhooks, or cannot reach them.                 *)
Mutate ==
  /\ \E r \in request :
       /\ r.stage = "mutate"
       /\ \E reached \in IF FailurePolicy = "Ignore" THEN BOOLEAN ELSE {TRUE} :
            request' = {[r EXCEPT !.stage = "validate",
                           !.spec = IF reached /\ r.operation = "CREATE"
                                      THEN mutateJobFlow(@) ELSE @]}
  /\ UNCHANGED <<stored, changes, controller, sorter>>

(* An update finds the JobFlow gone when it was deleted in between.         *)
Store(r, admitted) ==
  stored' = IF r.operation = "UPDATE" /\ stored = {} THEN {}
            ELSE {[spec |-> r.spec, written |-> r.written, admitted |-> admitted]}

Validate ==
  /\ \E r \in request :
       /\ r.stage = "validate"
       /\ \/ ValidateJobFlowEnhanced(r.spec) /\ Store(r, TRUE)
          \/ ~ValidateJobFlowEnhanced(r.spec) /\ UNCHANGED stored
          \/ FailurePolicy = "Ignore" /\ Store(r, FALSE)
  /\ request' = {}
  /\ UNCHANGED <<changes, controller, sorter>>

----------------------------------------------------------------------------
(* The controller.                                                          *)

validateJobFlow(steps) == validateSteps(steps)

(* A node of the graph keeps the dependencies of the last step of a name.   *)
BuildDAG(steps) ==
  [name \in NameSet(steps) |->
     LET last == CHOOSE i \in DOMAIN steps :
                   /\ steps[i].name = name
                   /\ \A k \in i + 1 .. Len(steps) : steps[k].name # name
     IN  steps[last].dependencies]

(* The hash of the steps is equal for equal steps only.                     *)
computeStepsHash(steps) == steps

HitByName(entry, steps) == TRUE                                         \* wrong
Hit(entry, steps) == entry.specHash = computeStepsHash(steps)

Read ==
  /\ verdict # "sorting"
  /\ \E object \in stored :
       /\ copy' = [spec |-> object.spec, admitted |-> object.admitted]
       /\ LET steps == object.spec.steps
              hits  == {entry \in dagCache : Hit(entry, steps)}
          IN  \/ /\ ~validateJobFlow(steps)
                 /\ verdict' = "invalid" /\ planned' = {}
                 /\ UNCHANGED sorter
              \/ /\ validateJobFlow(steps) /\ hits # {}
                 /\ verdict' = "planned"
                 /\ planned' = {entry.dag : entry \in hits}
                 /\ UNCHANGED sorter
              \/ /\ validateJobFlow(steps) /\ hits = {}
                 /\ verdict' = "sorting" /\ planned' = {}
                 /\ Dag!StartSort(BuildDAG(steps))
  /\ UNCHANGED <<admission, dagCache>>

SortStep ==
  /\ verdict = "sorting" /\ Dag!Sort
  /\ UNCHANGED <<admission, controller>>

(* A failed sort leaves the entry of an earlier spec where it is.           *)
ReturnDAG ==
  /\ verdict = "sorting" /\ outcome # "sorting"
  /\ IF outcome = "sorted"
       THEN LET dag == [graph |-> graph, sortedSteps |-> result]
            IN  /\ verdict' = "planned" /\ planned' = {dag}
                /\ dagCache' = {[specHash |-> computeStepsHash(copy.spec.steps),
                                 dag |-> dag]}
       ELSE verdict' = "cycle" /\ UNCHANGED <<planned, dagCache>>
  /\ Dag!Discard
  /\ UNCHANGED <<admission, copy>>

(* The process dies, and the cache with it.                                 *)
Restart ==
  /\ dagCache # {} /\ changes < MaxChanges
  /\ changes' = changes + 1
  /\ copy' = NoCopy /\ verdict' = "none" /\ planned' = {} /\ dagCache' = {}
  /\ Dag!Discard
  /\ UNCHANGED <<stored, request>>

Next ==
  \/ CreateFlow \/ UpdateFlow \/ DeleteFlow \/ Mutate \/ Validate
  \/ Read \/ SortStep \/ ReturnDAG \/ Restart

Spec == Init /\ [][Next]_vars

----------------------------------------------------------------------------
(* Some steps wait for one another.                                         *)
Cyclic(steps) ==
  \E S \in (SUBSET NameSet(steps)) \ {{}} :
    \A name \in S : DependenciesOf(steps, name) \cap S # {}

(* What the validating webhook accepts the controller can plan: neither its *)
(* own check nor its sort, which are other code than the webhook's, refuses *)
(* an admitted spec.                                                        *)
AdmittedIsPlannable ==
  verdict \in {"invalid", "cycle"} => ~copy.admitted

(* A sort reports a cycle only where there is one, in whatever order the    *)
(* map gives the steps and however the branches of the graph join.          *)
CycleIsReal == verdict = "cycle" => Cyclic(copy.spec.steps)

(* The plan is made from the spec of the worker's copy, whatever the cache  *)
(* held before: every step is listed once, after all its dependencies.      *)
PlanFitsCopy ==
  \A dag \in planned :
    LET steps    == copy.spec.steps
        order    == dag.sortedSteps
        at(name) == {k \in DOMAIN order : order[k] = name}
    IN  /\ DOMAIN dag.graph = NameSet(steps)
        /\ \A i \in DOMAIN steps :
             /\ dag.graph[steps[i].name] = steps[i].dependencies
             /\ Cardinality(at(steps[i].name)) = 1
             /\ \A dep \in steps[i].dependencies, k \in at(steps[i].name) :
                  \E j \in at(dep) : j < k

(* What each consumer of an admitted spec takes for granted.                *)

(* JobFlow: limits and delays are natural numbers, a backoff is computed    *)
(* from a factor of at least one, dependencies are steps, and a step that   *)
(* is not a gate has a template to make a Job of.                           *)
StepsAreRunnable(spec) ==
  \A i \in DOMAIN spec.steps :
    LET step == spec.steps[i]
    IN  /\ step.dependencies \ {Blank} \subseteq NameSet(spec.steps)
        /\ isGate(step) \/ step.template # {}
        /\ \A retry \in step.retryPolicy :
             /\ retry.limit \in Nat
             /\ \A backoff \in retry.backoff :
                  /\ Or(backoff.duration, 1) \in Nat
                  /\ Or(backoff.factor, 2) \in Nat \ {0}

PolicyIsUsable(spec) ==
  \A policy \in spec.executionPolicy :
    /\ Or(policy.ttlSecondsAfterFinished, DefaultTTL) \in Nat
    /\ Or(policy.backoffLimit, DefaultBackoffLimit) \in Nat
    /\ policy.activeDeadlineSeconds \subseteq Nat

(* checkPodFailurePolicy knows the action and the operator of each rule.    *)
RulesDecide(spec) ==
  \A policy \in spec.executionPolicy : \A rules \in policy.podFailurePolicy :
    \A rule \in Range(rules) :
      /\ rule.action \in {"FailJob", "Ignore", "Count"}
      /\ \E codes \in rule.onExitCodes :
           codes.operator \in {"In", "NotIn"} /\ codes.values # {}

(* resolveParameter finds one source in each parameter, with the object and *)
(* the key to read, and fetchArtifact one in each artifact.                 *)
InputsHaveOneSource(spec) ==
  \A i \in DOMAIN spec.steps : \A inputs \in spec.steps[i].inputs :
    /\ \A param \in Range(inputs.parameters) :
         \/ param.value # {} /\ param.valueFrom = {}
         \/ /\ param.value = {}
            /\ \E from \in param.valueFrom : \E source \in DOMAIN from :
                 /\ from[source] # {}
                 /\ \A other \in DOMAIN from \ {source} : from[other] = {}
                 /\ \A ref \in from.configMapKeyRef \cup from.secretKeyRef :
                      Blank \notin {ref.name, ref.key}
    /\ \A artifact \in Range(inputs.artifacts) :
         (artifact.from = <<>>) # (artifact.http = {})

(* Each name of a step, a parameter or an artifact is one of Kubernetes', as *)
(* the names of the Jobs and ConfigMaps are put together from them.         *)
NamesAreWellFormed(spec) ==
  \A i \in DOMAIN spec.steps :
    LET step == spec.steps[i]
        items == UNION {Range(x.parameters) \cup Range(x.artifacts) :
                          x \in step.inputs \cup step.outputs}
    IN  {step.name} \cup {item.name : item \in items} \subseteq StepNames

(* An admitted spec is one the controller can work with: no worker meets a  *)
(* value its code has no case for.  Four things the webhook lets through    *)
(* are no part of it, as the code that meets them fails or waits: a         *)
(* dependency on "", a timeout that is not positive, an artifact taken from *)
(* a step without naming it, and a JSONPath that does not name its step.    *)
AdmittedMeetsAssumptions ==
  \A object \in stored : object.admitted =>
    /\ StepsAreRunnable(object.spec)
    /\ PolicyIsUsable(object.spec)
    /\ RulesDecide(object.spec)
    /\ InputsHaveOneSource(object.spec)
    /\ NamesAreWellFormed(object.spec)

(* What the controller reads from an execution policy: the TTL, the backoff *)
(* limit, the deadline and the concurrency policy in force.                 *)
InForce(spec) ==
  LET policy == Or(spec.executionPolicy,
                   [concurrencyPolicy |-> "", ttlSecondsAfterFinished |-> {},
                    backoffLimit |-> {}, activeDeadlineSeconds |-> {},
                    podFailurePolicy |-> {}])
  IN  <<IF policy.concurrencyPolicy = "" THEN "Forbid" ELSE policy.concurrencyPolicy,
        Or(policy.ttlSecondsAfterFinished, DefaultTTL),
        Or(policy.backoffLimit, DefaultBackoffLimit),
        policy.activeDeadlineSeconds, policy.podFailurePolicy>>

(* Under the built-in configuration a JobFlow runs under the policy its     *)
(* author wrote, whether the webhook filled in the rest or could not be     *)
(* reached and the controller falls back on its own defaults.               *)
DefaultsChangeNothing ==
  \A object \in stored : InForce(object.spec) = InForce(object.written)
=============================================================================
