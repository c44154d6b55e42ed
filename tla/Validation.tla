----------------------------- MODULE Validation -----------------------------
(***************************************************************************)
(* What the webhook lets through: ValidateJobFlowEnhanced and the checks   *)
(* it makes (pkg/validation).                                              *)
(*                                                                         *)
(* A spec is a record of its steps, its execution policy and its resource  *)
(* templates.  A nil pointer, or an empty string that means none, is the   *)
(* empty set and a pointer to v is {v}.  A text is what the checks tell of *)
(* it: a JSONPath has a prefix up to its first colon and the rest starts   *)
(* with $ or not, "from" is split at its slashes, a path is absolute,      *)
(* relative or contains "..", a condition has opening and closing braces,  *)
(* a quantity is a number.  Every check ends in acceptance or in an error  *)
(* that refuses the spec, so that the order of the checks and the text of  *)
(* the error do not matter.                                                *)
(***************************************************************************)
EXTENDS Integers, Sequences, FiniteSetsExt, Functions

CONSTANTS
  StepNames,    \* the valid DNS-1123 names a spec may use
  Malformed,    \* a name that is not one
  Blank,        \* the empty string
  Undecodable,  \* a template that is not a Job
  MaxTimeout    \* 30 days

Names == StepNames \cup {Malformed, Blank}

ASSUME {Malformed, Blank} \cap StepNames = {} /\ MaxTimeout \in Nat

NameSet(steps) == {steps[i].name : i \in DOMAIN steps}
DependenciesOf(steps, name) ==
  UNION {steps[i].dependencies : i \in {k \in DOMAIN steps : steps[k].name = name}}

Each(pointer, Accepts(_)) == \A v \in pointer : Accepts(v)

----------------------------------------------------------------------------
(* ValidateJobFlow.                                                         *)

validateSteps(steps) ==
  /\ steps # <<>>
  /\ \A i \in DOMAIN steps :
       /\ steps[i].name # Blank
       /\ \A k \in 1 .. i - 1 : steps[k].name # steps[i].name
       /\ steps[i].dependencies \ {Blank} \subseteq NameSet(steps)

NoDirectCycle(steps) ==                                                 \* wrong
  \A name \in NameSet(steps) :
    LET neighbors == DependenciesOf(steps, name)
    IN  \A n \in neighbors : name \notin DependenciesOf(steps, n)

(* The nodes a node waits for, and the calls dfs gets: of a node that is    *)
(* new, with the visited nodes, among which are those on the path to it.    *)
Neighbors(steps, node) ==
  DependenciesOf(steps, node) \cap (NameSet(steps) \ {Blank})
Calls(nodes) ==
  {call \in [node : nodes, visited : SUBSET nodes, path : SUBSET nodes] :
     call.node \notin call.visited /\ call.path \subseteq call.visited}

(* A loop of the search visits nodes that are new, and fails on one that is *)
(* on the path.  visited and cycle pass from call to call.                  *)
Visit(dfs, path, node, found) ==
  IF found.cycle THEN found
  ELSE IF node \in found.visited THEN [found EXCEPT !.cycle = node \in path]
  ELSE dfs[[node |-> node, visited |-> found.visited, path |-> path]]
VisitAll(dfs, path, visited, nodes) ==
  FoldSet(LAMBDA node, found : Visit(dfs, path, node, found),
          [cycle |-> FALSE, visited |-> visited], nodes)

validateDAG(steps) ==
  LET dfs[call \in Calls(NameSet(steps))] ==
        VisitAll(dfs, call.path \cup {call.node}, call.visited \cup {call.node},
                 Neighbors(steps, call.node))
  IN  ~VisitAll(dfs, {}, {}, NameSet(steps)).cycle

validateExecutionPolicy(policy) ==
  /\ policy.concurrencyPolicy \in {"", "Allow", "Forbid", "Replace"}
  /\ Each(policy.ttlSecondsAfterFinished, LAMBDA ttl : ttl >= 0)
  /\ Each(policy.backoffLimit, LAMBDA limit : limit >= 0)
  /\ Each(policy.activeDeadlineSeconds, LAMBDA seconds : seconds > 0)

(* Requests and limits are functions from some resources to quantities.     *)
validateResourceList(list) == \A resource \in DOMAIN list : list[resource] > 0

validateContainerResources(container) ==
  /\ validateResourceList(container.requests)
  /\ validateResourceList(container.limits)
  /\ \A resource \in DOMAIN container.limits \cap DOMAIN container.requests :
       container.limits[resource] >= container.requests[resource]

validateJobSpec(job) ==
  /\ job.containers # {}
  /\ \A container \in job.containers :
       /\ container.name # Blank /\ container.image # Blank
       /\ validateContainerResources(container)
  /\ Each(job.backoffLimit, LAMBDA limit : limit >= 0)
  /\ Each(job.activeDeadlineSeconds, LAMBDA seconds : seconds > 0)

(* A step without a template is a gate when it does not say what it is.  A  *)
(* template that does not decode is let through.                            *)
isGate(step) ==
  step.type = "Manual" \/ (step.type = "" /\ step.template = {})

validateStepTemplate(step) ==
  \/ isGate(step)
  \/ /\ step.template # {}
     /\ Each(step.template \ {Undecodable}, validateJobSpec)

validateResourceTemplates(templates) ==
  /\ \A pvc \in templates.volumeClaims :
       /\ pvc.name # Blank /\ pvc.accessModes # {}
       /\ "storage" \in DOMAIN pvc.requests /\ pvc.requests["storage"] # 0
  /\ Blank \notin templates.configMaps

ValidateJobFlow(spec) ==
  /\ validateSteps(spec.steps)
  /\ validateDAG(spec.steps)
  /\ Each(spec.executionPolicy, validateExecutionPolicy)
  /\ Each(spec.resourceTemplates, validateResourceTemplates)
  /\ \A i \in DOMAIN spec.steps : validateStepTemplate(spec.steps[i])

----------------------------------------------------------------------------
(* ValidateJobFlowEnhanced.                                                 *)

validateTimeout(duration) == duration > 0 /\ duration <= MaxTimeout

validateRetryPolicy(policy) ==
  /\ policy.limit >= 0
  /\ Each(policy.backoff, LAMBDA backoff :
       /\ backoff.type \in {"", "Exponential", "Linear", "Fixed"}
       /\ Each(backoff.duration, validateTimeout)
       /\ Each(backoff.factor, LAMBDA factor : factor >= 1))

validateJSONPath(path) == path.prefix \subseteq StepNames /\ path.rooted

KeyWithoutObject(ref) == ref.key # Blank                                \* wrong
validateKeyRef(ref) == ref.name # Blank /\ ref.key # Blank

validateParameterValueFrom(from) ==
  /\ \E source \in DOMAIN from : {k \in DOMAIN from : from[k] # {}} = {source}
  /\ Each(from.configMapKeyRef, validateKeyRef)
  /\ Each(from.secretKeyRef, validateKeyRef)
  /\ Each(from.jsonPath, validateJSONPath)

validateParameterInput(param) ==
  /\ param.name \in StepNames
  /\ (param.value = {}) # (param.valueFrom = {})
  /\ Each(param.valueFrom, validateParameterValueFrom)

validateParameterOutput(param) ==
  /\ param.name \in StepNames
  /\ param.jsonPath # {} /\ Each(param.jsonPath, validateJSONPath)

validateArtifactPath(path) == path = "absolute"

validateArtifactInput(artifact) ==
  /\ artifact.name \in StepNames
  /\ Each(artifact.path, validateArtifactPath)
  /\ (artifact.from = <<>>) # (artifact.http = {})
  /\ Len(artifact.from) <= 2 /\ Range(artifact.from) \subseteq StepNames
  /\ Each(artifact.http, LAMBDA url : url = "http")

validateArchiveConfig(archive) ==
  /\ archive.format \subseteq {"tar", "zip"}
  /\ archive.compression \subseteq {"none", "gzip"}

validateArtifactOutput(artifact) ==
  /\ artifact.name \in StepNames
  /\ artifact.path # {} /\ Each(artifact.path, validateArtifactPath)
  /\ Each(artifact.archive, validateArchiveConfig)

validateStepInputs(inputs) ==
  /\ \A param \in Range(inputs.parameters) : validateParameterInput(param)
  /\ \A artifact \in Range(inputs.artifacts) : validateArtifactInput(artifact)

validateStepOutputs(outputs) ==
  /\ \A param \in Range(outputs.parameters) : validateParameterOutput(param)
  /\ \A artifact \in Range(outputs.artifacts) : validateArtifactOutput(artifact)

(* A text without braces is let through, a keyword or not.                  *)
validateWhenCondition(when) == when.open = when.close

ValidateStepName(name) == name \in StepNames

validateStepEnhanced(step) ==
  /\ ValidateStepName(step.name)
  /\ Each(step.timeoutSeconds, LAMBDA seconds : seconds <= MaxTimeout)
  /\ Each(step.retryPolicy, validateRetryPolicy)
  /\ Each(step.inputs, validateStepInputs)
  /\ Each(step.outputs, validateStepOutputs)
  /\ Each(step.when, validateWhenCondition)

validateExitCodes(codes) ==
  /\ codes.operator \in {"In", "NotIn"}
  /\ codes.values # {} /\ codes.values \subseteq 0 .. 255

validatePodFailurePolicy(rules) ==
  /\ rules # <<>>
  /\ \A rule \in Range(rules) :
       /\ rule.action \in {"FailJob", "Ignore", "Count"}
       /\ rule.onExitCodes # {} /\ Each(rule.onExitCodes, validateExitCodes)

validateExecutionPolicyEnhanced(policy) ==
  /\ validateExecutionPolicy(policy)
  /\ Each(policy.podFailurePolicy, validatePodFailurePolicy)

ValidateJobFlowEnhanced(spec) ==
  /\ ValidateJobFlow(spec)
  /\ \A i \in DOMAIN spec.steps : validateStepEnhanced(spec.steps[i])
  /\ Each(spec.executionPolicy, validateExecutionPolicyEnhanced)
=============================================================================
