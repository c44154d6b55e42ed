---------------------------- MODULE IntakeProofs ----------------------------
(***************************************************************************)
(* Intake for all specs: what was admitted is what the controller takes    *)
(* for granted, the webhook's defaults change nothing, a plan is one of    *)
(* the spec it is for, and a cycle that is reported is one.                *)
(*                                                                         *)
(* The sort that Intake interleaves with everything else is the one that   *)
(* TopologicalSortProofs is about.                                         *)
(***************************************************************************)
EXTENDS Intake, SequenceTheorems, FiniteSetTheorems, WellFoundedInduction, TLAPS

Sorting == INSTANCE TopologicalSortProofs

LEMMA SortMoves == Dag!Sort => Sorting!Sort
BY DEF Dag!Sort, Dag!VisitRoot, Dag!VisitDependency, Dag!Leave, Dag!Return, Dag!Enter,
       Dag!FindCycle, Dag!SkipVisited, Dag!Descend, Dag!MarkVisited, Dag!Unmarked, Dag!Top,
       Dag!Dependencies, Dag!search,
       Sorting!Sort, Sorting!VisitRoot, Sorting!VisitDependency, Sorting!Leave, Sorting!Return,
       Sorting!Enter, Sorting!FindCycle, Sorting!SkipVisited, Sorting!Descend,
       Sorting!MarkVisited, Sorting!Unmarked, Sorting!Top, Sorting!Dependencies, Sorting!search

----------------------------------------------------------------------------
(* Admission.                                                               *)

Known == Specs \cup Revisions

LEMMA OrValue ==
  ASSUME NEW pointer, NEW default
  PROVE  /\ pointer = {} => Or(pointer, default) = default
         /\ pointer # {} => Or(pointer, default) \in pointer
BY DEF Or

LEMMA OrOne ==
  ASSUME NEW v, NEW default
  PROVE  Or({v}, default) = v
BY OrValue

(* A policy the webhook leaves or makes has the fields and the numbers of   *)
(* one that was written.                                                    *)
PolicyShape(policy) ==
  /\ DOMAIN policy = PolicyFields
  /\ policy.ttlSecondsAfterFinished \cup policy.backoffLimit
       \cup policy.activeDeadlineSeconds \subseteq Int

StepShape(step) ==
  /\ step.name \in Names /\ step.dependencies \subseteq Names
  /\ \A retry \in step.retryPolicy :
       /\ retry.limit \in Int
       /\ \A backoff \in retry.backoff : backoff.duration \cup backoff.factor \subseteq Int

SpecShape(spec) ==
  /\ DOMAIN spec = {"steps", "executionPolicy", "resourceTemplates"}
  /\ spec.steps \in Seq(Range(spec.steps))
  /\ \A step \in Range(spec.steps) : StepShape(step)
  /\ \A policy \in spec.executionPolicy :
       spec.executionPolicy = {policy} /\ PolicyShape(policy)

LEMMA KnownShape ==
  ASSUME NEW spec \in Known
  PROVE  SpecShape(spec)
BY SpecsAssumption DEF Known, SpecShape, StepShape, PolicyShape

Defaults ==
  [concurrencyPolicy |-> "Forbid", ttlSecondsAfterFinished |-> {86400},
   backoffLimit |-> {6}, activeDeadlineSeconds |-> {}, podFailurePolicy |-> {}]
Filled(policy) ==
  [policy EXCEPT
    !.concurrencyPolicy       = IF @ = "" THEN "Forbid" ELSE @,
    !.ttlSecondsAfterFinished = {Or(@, 86400)},
    !.backoffLimit            = {Or(@, 6)}]

(* What the mutating webhook makes of a spec, in the three cases there are. *)
LEMMA MutatedSpec ==
  ASSUME NEW spec, SpecShape(spec)
  PROVE  \/ /\ spec.executionPolicy = {}
            /\ mutateJobFlow(spec) = [spec EXCEPT !.executionPolicy = {Defaults}]
         \/ \E policy \in spec.executionPolicy :
              /\ ~meaningful(policy)
              /\ mutateJobFlow(spec) = [spec EXCEPT !.executionPolicy = {Defaults}]
         \/ \E policy \in spec.executionPolicy :
              /\ meaningful(policy)
              /\ mutateJobFlow(spec) = [spec EXCEPT !.executionPolicy = {Filled(policy)}]
<1> DEFINE kept == {policy \in spec.executionPolicy : meaningful(policy)}
<1>1. mutateJobFlow(spec) =
        [spec EXCEPT !.executionPolicy =
           IF kept = {} THEN {Defaults} ELSE {Filled(policy) : policy \in kept}]
  BY DEF mutateJobFlow, Defaults, Filled
<1>2. CASE spec.executionPolicy = {}
  BY <1>1, <1>2
<1>3. ASSUME NEW policy \in spec.executionPolicy, ~meaningful(policy)
      PROVE  mutateJobFlow(spec) = [spec EXCEPT !.executionPolicy = {Defaults}]
  <2>1. kept = {}
    BY <1>3 DEF SpecShape
  <2> QED BY <1>1, <2>1
<1>4. ASSUME NEW policy \in spec.executionPolicy, meaningful(policy)
      PROVE  mutateJobFlow(spec) = [spec EXCEPT !.executionPolicy = {Filled(policy)}]
  <2>1. kept = {policy}
    BY <1>4 DEF SpecShape
  <2>2. kept # {} /\ {Filled(x) : x \in kept} = {Filled(policy)}
    BY <2>1
  <2> HIDE DEF kept
  <2> QED BY <1>1, <2>2
<1> QED BY <1>2, <1>3, <1>4

LEMMA DefaultsShape == PolicyShape(Defaults)
BY DEF PolicyShape, PolicyFields, Defaults

LEMMA FilledShape ==
  ASSUME NEW policy, PolicyShape(policy)
  PROVE  PolicyShape(Filled(policy))
<1>1. Or(policy.ttlSecondsAfterFinished, 86400) \in Int /\ Or(policy.backoffLimit, 6) \in Int
  BY OrValue DEF PolicyShape
<1>2. /\ DOMAIN Filled(policy) = PolicyFields
      /\ Filled(policy).ttlSecondsAfterFinished = {Or(policy.ttlSecondsAfterFinished, 86400)}
      /\ Filled(policy).backoffLimit = {Or(policy.backoffLimit, 6)}
      /\ Filled(policy).activeDeadlineSeconds = policy.activeDeadlineSeconds
  BY DEF Filled, PolicyShape, PolicyFields
<1> QED BY <1>1, <1>2 DEF PolicyShape

LEMMA MutatedShape ==
  ASSUME NEW spec, SpecShape(spec)
  PROVE  SpecShape(mutateJobFlow(spec)) /\ mutateJobFlow(spec).steps = spec.steps
<1>1. ASSUME NEW policy, PolicyShape(policy),
             mutateJobFlow(spec) = [spec EXCEPT !.executionPolicy = {policy}]
      PROVE  SpecShape(mutateJobFlow(spec)) /\ mutateJobFlow(spec).steps = spec.steps
  <2> DEFINE m == mutateJobFlow(spec)
  <2>1. /\ DOMAIN m = {"steps", "executionPolicy", "resourceTemplates"}
        /\ m.steps = spec.steps /\ m.executionPolicy = {policy}
    BY <1>1 DEF SpecShape
  <2> HIDE DEF m
  <2>2. SpecShape(m) /\ m.steps = spec.steps
    BY <1>1, <2>1 DEF SpecShape
  <2> QED BY <2>2 DEF m
<1>2. \A policy \in spec.executionPolicy : PolicyShape(Filled(policy))
  BY FilledShape DEF SpecShape
<1> QED BY <1>1, <1>2, DefaultsShape, MutatedSpec

AdmissionInv ==
  /\ \A r \in request :
       /\ DOMAIN r = {"operation", "stage", "written", "spec"} /\ r.written \in Known
       /\ r.spec \in {r.written, mutateJobFlow(r.written)}
       /\ r.stage = "mutate" => r.spec = r.written
  /\ \A object \in stored :
       /\ object.written \in Known
       /\ object.spec \in {object.written, mutateJobFlow(object.written)}
       /\ object.admitted => ValidateJobFlowEnhanced(object.spec)

LEMMA AdmissionInit == Init => AdmissionInv
BY DEF Init, AdmissionInv

LEMMA AdmissionStep == AdmissionInv /\ [Next]_vars => AdmissionInv'
<1> SUFFICES ASSUME AdmissionInv, [Next]_vars PROVE AdmissionInv'
  OBVIOUS
<1>1. CASE UNCHANGED <<stored, request>>
  BY <1>1 DEF AdmissionInv
<1>2. ASSUME NEW operation, NEW spec \in Known, Ask(operation, spec) PROVE AdmissionInv'
  BY <1>2 DEF Ask, AdmissionInv
<1>3. CASE DeleteFlow
  BY <1>3 DEF DeleteFlow, AdmissionInv
<1>4. CASE Mutate
  <2>1. PICK r \in request : /\ r.stage = "mutate"
                              /\ \E spec \in {r.spec, mutateJobFlow(r.spec)} :
                                   request' = {[r EXCEPT !.stage = "validate", !.spec = spec]}
    BY <1>4 DEF Mutate
  <2>2. stored' = stored
    BY <1>4 DEF Mutate
  <2> QED BY <2>1, <2>2 DEF AdmissionInv
<1>5. CASE Validate
  <2>1. PICK r \in request :
          \/ ValidateJobFlowEnhanced(r.spec) /\ Store(r, TRUE)
          \/ UNCHANGED stored
          \/ Store(r, FALSE)
    BY <1>5 DEF Validate
  <2>2. request' = {}
    BY <1>5 DEF Validate
  <2>3. ASSUME NEW admitted, admitted => ValidateJobFlowEnhanced(r.spec), Store(r, admitted)
        PROVE  AdmissionInv'
    BY <2>1, <2>2, <2>3 DEF Store, AdmissionInv
  <2> QED BY <2>1, <2>2, <2>3 DEF AdmissionInv
<1>6. CASE Read \/ SortStep \/ ReturnDAG \/ Restart \/ UNCHANGED vars
  BY <1>1, <1>6 DEF Read, SortStep, ReturnDAG, Restart, admission, vars
<1>7. CASE CreateFlow \/ UpdateFlow
  BY <1>2, <1>7 DEF CreateFlow, UpdateFlow, Known
<1> QED BY <1>3, <1>4, <1>5, <1>6, <1>7 DEF Next

LEMMA AdmissionAlways == Spec => []AdmissionInv
BY AdmissionInit, AdmissionStep, PTL DEF Spec

LEMMA StoredShape ==
  ASSUME AdmissionInv, NEW object \in stored
  PROVE  SpecShape(object.spec)
BY KnownShape, MutatedShape DEF AdmissionInv


----------------------------------------------------------------------------
(* What validation lets through.                                            *)

LEMMA AdmittedSteps ==
  ASSUME NEW spec, SpecShape(spec), ValidateJobFlowEnhanced(spec)
  PROVE  StepsAreRunnable(spec)
<1> SUFFICES ASSUME NEW i \in DOMAIN spec.steps
             PROVE  /\ spec.steps[i].dependencies \ {Blank} \subseteq NameSet(spec.steps)
                    /\ isGate(spec.steps[i]) \/ spec.steps[i].template # {}
                    /\ \A retry \in spec.steps[i].retryPolicy :
                         /\ retry.limit \in Nat
                         /\ \A backoff \in retry.backoff :
                              /\ Or(backoff.duration, 1) \in Nat
                              /\ Or(backoff.factor, 2) \in Nat \ {0}
  BY DEF StepsAreRunnable
<1>1. /\ validateSteps(spec.steps) /\ validateStepTemplate(spec.steps[i])
      /\ validateStepEnhanced(spec.steps[i])
  BY DEF ValidateJobFlowEnhanced, ValidateJobFlow
<1>2. StepShape(spec.steps[i])
  BY DEF SpecShape, Range
<1>3. ASSUME NEW retry \in spec.steps[i].retryPolicy
      PROVE  /\ retry.limit \in Nat
             /\ \A backoff \in retry.backoff :
                  /\ Or(backoff.duration, 1) \in Nat
                  /\ Or(backoff.factor, 2) \in Nat \ {0}
  <2>1. validateRetryPolicy(retry)
    BY <1>1 DEF validateStepEnhanced, Each
  <2>2. retry.limit \in Nat
    <3>1. retry.limit \in Int /\ retry.limit >= 0
      BY <1>2, <2>1 DEF validateRetryPolicy, StepShape, Each, validateTimeout
    <3> QED BY <3>1
  <2>3. ASSUME NEW backoff \in retry.backoff
        PROVE  Or(backoff.duration, 1) \in Nat /\ Or(backoff.factor, 2) \in Nat \ {0}
    <3>1. /\ \A duration \in backoff.duration : duration \in Int /\ duration > 0
          /\ \A factor \in backoff.factor : factor \in Int /\ factor >= 1
      BY <1>2, <2>1 DEF StepShape, validateRetryPolicy, Each, validateTimeout
    <3>4. /\ backoff.duration # {} => Or(backoff.duration, 1) \in Nat
          /\ backoff.factor # {} => Or(backoff.factor, 2) \in Nat \ {0}
      BY <3>1, OrValue
    <3>5. /\ backoff.duration = {} => Or(backoff.duration, 1) \in Nat
          /\ backoff.factor = {} => Or(backoff.factor, 2) \in Nat \ {0}
      BY OrValue
    <3> QED BY <3>4, <3>5
  <2> QED BY <2>2, <2>3
<1>4. spec.steps[i].dependencies \ {Blank} \subseteq NameSet(spec.steps)
  BY <1>1 DEF validateSteps
<1>5. isGate(spec.steps[i]) \/ spec.steps[i].template # {}
  BY <1>1 DEF validateStepTemplate
<1> QED BY <1>3, <1>4, <1>5

LEMMA AdmittedPolicy ==
  ASSUME NEW spec, SpecShape(spec), ValidateJobFlowEnhanced(spec)
  PROVE  PolicyIsUsable(spec)
<1> SUFFICES ASSUME NEW policy \in spec.executionPolicy
             PROVE  /\ Or(policy.ttlSecondsAfterFinished, DefaultTTL) \in Nat
                    /\ Or(policy.backoffLimit, DefaultBackoffLimit) \in Nat
                    /\ policy.activeDeadlineSeconds \subseteq Nat
  BY DEF PolicyIsUsable
<1>1. validateExecutionPolicy(policy)
  BY DEF ValidateJobFlowEnhanced, Each, validateExecutionPolicyEnhanced
<1>2. /\ \A ttl \in policy.ttlSecondsAfterFinished : ttl \in Int /\ ttl >= 0
      /\ \A limit \in policy.backoffLimit : limit \in Int /\ limit >= 0
      /\ \A seconds \in policy.activeDeadlineSeconds : seconds \in Int /\ seconds > 0
  <2>1. /\ policy.ttlSecondsAfterFinished \subseteq Int /\ policy.backoffLimit \subseteq Int
        /\ policy.activeDeadlineSeconds \subseteq Int
    BY DEF SpecShape, PolicyShape
  <2>2. /\ \A ttl \in policy.ttlSecondsAfterFinished : ttl >= 0
        /\ \A limit \in policy.backoffLimit : limit >= 0
        /\ \A seconds \in policy.activeDeadlineSeconds : seconds > 0
    BY <1>1 DEF validateExecutionPolicy, Each
  <2> QED BY <2>1, <2>2
<1>3. DefaultTTL \in Nat /\ DefaultBackoffLimit \in Nat
  BY ConfigurationAssumption
<1>4. ASSUME NEW pointer, NEW default \in Nat, \A n \in pointer : n \in Int /\ n >= 0
      PROVE  Or(pointer, default) \in Nat
  BY <1>4, OrValue
<1> QED BY <1>2, <1>3, <1>4

LEMMA AdmittedRules ==
  ASSUME NEW spec, ValidateJobFlowEnhanced(spec)
  PROVE  RulesDecide(spec)
<1> SUFFICES ASSUME NEW policy \in spec.executionPolicy, NEW rules \in policy.podFailurePolicy,
                    NEW rule \in Range(rules)
             PROVE  /\ rule.action \in {"FailJob", "Ignore", "Count"}
                    /\ \E codes \in rule.onExitCodes :
                         codes.operator \in {"In", "NotIn"} /\ codes.values # {}
  BY DEF RulesDecide
<1>1. validatePodFailurePolicy(rules)
  BY DEF ValidateJobFlowEnhanced, Each, validateExecutionPolicyEnhanced
<1>2. /\ rule.action \in {"FailJob", "Ignore", "Count"} /\ rule.onExitCodes # {}
      /\ \A codes \in rule.onExitCodes : validateExitCodes(codes)
  BY <1>1 DEF validatePodFailurePolicy, Each
<1> QED BY <1>2 DEF validateExitCodes

LEMMA AdmittedParameter ==
  ASSUME NEW param, validateParameterInput(param)
  PROVE  \/ param.value # {} /\ param.valueFrom = {}
         \/ /\ param.value = {}
            /\ \E from \in param.valueFrom : \E source \in DOMAIN from :
                 /\ from[source] # {}
                 /\ \A other \in DOMAIN from \ {source} : from[other] = {}
                 /\ \A ref \in from.configMapKeyRef \cup from.secretKeyRef :
                      Blank \notin {ref.name, ref.key}
<1>1. \/ param.value # {} /\ param.valueFrom = {}
      \/ param.value = {} /\ param.valueFrom # {}
  BY DEF validateParameterInput
<1>2. ASSUME NEW from \in param.valueFrom
      PROVE  \E source \in DOMAIN from :
               /\ from[source] # {}
               /\ \A other \in DOMAIN from \ {source} : from[other] = {}
               /\ \A ref \in from.configMapKeyRef \cup from.secretKeyRef :
                    Blank \notin {ref.name, ref.key}
  <2>1. validateParameterValueFrom(from)
    BY DEF validateParameterInput, Each
  <2>2. PICK source \in DOMAIN from : {k \in DOMAIN from : from[k] # {}} = {source}
    BY <2>1 DEF validateParameterValueFrom
  <2>3. from[source] # {} /\ \A other \in DOMAIN from \ {source} : from[other] = {}
    BY <2>2
  <2>4. \A ref \in from.configMapKeyRef \cup from.secretKeyRef :
          ref.name # Blank /\ ref.key # Blank
    BY <2>1 DEF validateParameterValueFrom, Each, validateKeyRef
  <2> QED BY <2>3, <2>4
<1> QED BY <1>1, <1>2

LEMMA AdmittedInputs ==
  ASSUME NEW spec, ValidateJobFlowEnhanced(spec)
  PROVE  InputsHaveOneSource(spec)
<1>1. ASSUME NEW i \in DOMAIN spec.steps, NEW inputs \in spec.steps[i].inputs
      PROVE  validateStepInputs(inputs)
  BY <1>1 DEF ValidateJobFlowEnhanced, validateStepEnhanced, Each
<1>2. ASSUME NEW i \in DOMAIN spec.steps, NEW inputs \in spec.steps[i].inputs,
             NEW artifact \in Range(inputs.artifacts)
      PROVE  (artifact.from = <<>>) # (artifact.http = {})
  BY <1>1, <1>2 DEF validateStepInputs, validateArtifactInput
<1>3. ASSUME NEW i \in DOMAIN spec.steps, NEW inputs \in spec.steps[i].inputs,
             NEW param \in Range(inputs.parameters)
      PROVE  validateParameterInput(param)
  BY <1>1, <1>3 DEF validateStepInputs
<1> QED BY <1>2, <1>3, AdmittedParameter DEF InputsHaveOneSource

LEMMA AdmittedNames ==
  ASSUME NEW spec, ValidateJobFlowEnhanced(spec)
  PROVE  NamesAreWellFormed(spec)
<1> SUFFICES ASSUME NEW i \in DOMAIN spec.steps
             PROVE  /\ spec.steps[i].name \in StepNames
                    /\ \A x \in spec.steps[i].inputs \cup spec.steps[i].outputs :
                         \A item \in Range(x.parameters) \cup Range(x.artifacts) :
                           item.name \in StepNames
  BY DEF NamesAreWellFormed
<1>1. /\ spec.steps[i].name \in StepNames
      /\ \A inputs \in spec.steps[i].inputs : validateStepInputs(inputs)
      /\ \A outputs \in spec.steps[i].outputs : validateStepOutputs(outputs)
  BY DEF ValidateJobFlowEnhanced, validateStepEnhanced, ValidateStepName, Each
<1>2. ASSUME NEW x, validateStepInputs(x) \/ validateStepOutputs(x),
             NEW item \in Range(x.parameters) \cup Range(x.artifacts)
      PROVE  item.name \in StepNames
  BY <1>2 DEF validateStepInputs, validateStepOutputs, validateParameterInput,
              validateArtifactInput, validateParameterOutput, validateArtifactOutput
<1> QED BY <1>1, <1>2

(* What the validating webhook lets through is a spec the controller can    *)
(* work with: its numbers are in range, each step that is not a gate has a  *)
(* template, each rule decides, each input has one source, and each name    *)
(* is well formed, whatever users write and whatever the defaults are.      *)
THEOREM AdmittedSpecsAreUsable == Spec => []AdmittedMeetsAssumptions
<1>1. AdmissionInv => AdmittedMeetsAssumptions
  <2> SUFFICES ASSUME AdmissionInv, NEW object \in stored, object.admitted
               PROVE  /\ StepsAreRunnable(object.spec) /\ PolicyIsUsable(object.spec)
                      /\ RulesDecide(object.spec) /\ InputsHaveOneSource(object.spec)
                      /\ NamesAreWellFormed(object.spec)
    BY DEF AdmittedMeetsAssumptions
  <2>1. SpecShape(object.spec) /\ ValidateJobFlowEnhanced(object.spec)
    BY StoredShape DEF AdmissionInv
  <2> QED
    BY <2>1, AdmittedSteps, AdmittedPolicy, AdmittedRules, AdmittedInputs, AdmittedNames
<1> QED BY <1>1, AdmissionAlways, PTL

----------------------------------------------------------------------------
(* The defaults.                                                            *)

Silent ==
  [concurrencyPolicy |-> "", ttlSecondsAfterFinished |-> {}, backoffLimit |-> {},
   activeDeadlineSeconds |-> {}, podFailurePolicy |-> {}]
InForceOf(policy) ==
  <<IF policy.concurrencyPolicy = "" THEN "Forbid" ELSE policy.concurrencyPolicy,
    Or(policy.ttlSecondsAfterFinished, DefaultTTL),
    Or(policy.backoffLimit, DefaultBackoffLimit),
    policy.activeDeadlineSeconds, policy.podFailurePolicy>>

LEMMA InForceIs ==
  ASSUME NEW spec
  PROVE  /\ spec.executionPolicy = {} => InForce(spec) = InForceOf(Silent)
         /\ \A policy : spec.executionPolicy = {policy} => InForce(spec) = InForceOf(policy)
<1>1. InForce(spec) = InForceOf(Or(spec.executionPolicy, Silent))
  BY DEF InForce, InForceOf, Silent
<1>2. spec.executionPolicy = {} => Or(spec.executionPolicy, Silent) = Silent
  BY OrValue
<1>3. ASSUME NEW policy, spec.executionPolicy = {policy}
      PROVE  Or(spec.executionPolicy, Silent) = policy
  BY <1>3, OrValue
<1> QED BY <1>1, <1>2, <1>3

LEMMA InForceSame ==
  ASSUME NEW p, NEW q,
         (p.concurrencyPolicy = q.concurrencyPolicy)
           \/ (p.concurrencyPolicy \in {"", "Forbid"} /\ q.concurrencyPolicy \in {"", "Forbid"}),
         Or(p.ttlSecondsAfterFinished, DefaultTTL) = Or(q.ttlSecondsAfterFinished, DefaultTTL),
         Or(p.backoffLimit, DefaultBackoffLimit) = Or(q.backoffLimit, DefaultBackoffLimit),
         p.activeDeadlineSeconds = q.activeDeadlineSeconds,
         p.podFailurePolicy = q.podFailurePolicy
  PROVE  InForceOf(p) = InForceOf(q)
BY DEF InForceOf

LEMMA SilentInForce ==
  ASSUME NEW policy, ~meaningful(policy)
  PROVE  InForceOf(policy) = InForceOf(Silent)
<1>1. /\ policy.concurrencyPolicy = "" /\ policy.ttlSecondsAfterFinished = {}
      /\ policy.backoffLimit = {} /\ policy.activeDeadlineSeconds = {}
      /\ policy.podFailurePolicy = {}
  BY DEF meaningful
<1>2. /\ Silent.concurrencyPolicy = "" /\ Silent.ttlSecondsAfterFinished = {}
      /\ Silent.backoffLimit = {} /\ Silent.activeDeadlineSeconds = {}
      /\ Silent.podFailurePolicy = {}
  BY DEF Silent
<1> QED BY <1>1, <1>2, InForceSame

(* Filling in the values that are in force anyway, ttl and limit.           *)
LEMMA FilledInForce ==
  ASSUME NEW filled, NEW policy, DOMAIN policy = PolicyFields,
         filled = [policy EXCEPT
           !.concurrencyPolicy       = IF @ = "" THEN "Forbid" ELSE @,
           !.ttlSecondsAfterFinished = {Or(@, DefaultTTL)},
           !.backoffLimit            = {Or(@, DefaultBackoffLimit)}]
  PROVE  InForceOf(filled) = InForceOf(policy)
<1>1. /\ filled.concurrencyPolicy =
           IF policy.concurrencyPolicy = "" THEN "Forbid" ELSE policy.concurrencyPolicy
      /\ filled.ttlSecondsAfterFinished = {Or(policy.ttlSecondsAfterFinished, DefaultTTL)}
      /\ filled.backoffLimit = {Or(policy.backoffLimit, DefaultBackoffLimit)}
      /\ filled.activeDeadlineSeconds = policy.activeDeadlineSeconds
      /\ filled.podFailurePolicy = policy.podFailurePolicy
  BY DEF PolicyFields
<1>2. /\ Or(filled.ttlSecondsAfterFinished, DefaultTTL)
           = Or(policy.ttlSecondsAfterFinished, DefaultTTL)
      /\ Or(filled.backoffLimit, DefaultBackoffLimit)
           = Or(policy.backoffLimit, DefaultBackoffLimit)
  BY <1>1, OrOne
<1>3. \/ filled.concurrencyPolicy = policy.concurrencyPolicy
      \/ /\ filled.concurrencyPolicy \in {"", "Forbid"}
         /\ policy.concurrencyPolicy \in {"", "Forbid"}
  BY <1>1
<1> QED BY <1>1, <1>2, <1>3, InForceSame

LEMMA DefaultsInForce ==
  ASSUME NEW defaults,
         defaults = [concurrencyPolicy |-> "Forbid", ttlSecondsAfterFinished |-> {DefaultTTL},
                     backoffLimit |-> {DefaultBackoffLimit}, activeDeadlineSeconds |-> {},
                     podFailurePolicy |-> {}]
  PROVE  InForceOf(defaults) = InForceOf(Silent)
<1>1. /\ defaults.concurrencyPolicy = "Forbid" /\ Silent.concurrencyPolicy = ""
      /\ defaults.ttlSecondsAfterFinished = {DefaultTTL} /\ Silent.ttlSecondsAfterFinished = {}
      /\ defaults.backoffLimit = {DefaultBackoffLimit} /\ Silent.backoffLimit = {}
      /\ defaults.activeDeadlineSeconds = Silent.activeDeadlineSeconds
      /\ defaults.podFailurePolicy = Silent.podFailurePolicy
  BY DEF Silent
<1>2. /\ Or(defaults.ttlSecondsAfterFinished, DefaultTTL)
           = Or(Silent.ttlSecondsAfterFinished, DefaultTTL)
      /\ Or(defaults.backoffLimit, DefaultBackoffLimit)
           = Or(Silent.backoffLimit, DefaultBackoffLimit)
  <2>1. \A default : Or({}, default) = default /\ Or({default}, default) = default
    BY OrValue, OrOne
  <2> QED BY <1>1, <2>1, Zenon
<1> QED BY <1>1, <1>2, InForceSame

(* The webhook's values are the controller's.                               *)
SameDefaults ==
  /\ Defaults = [concurrencyPolicy |-> "Forbid", ttlSecondsAfterFinished |-> {DefaultTTL},
                 backoffLimit |-> {DefaultBackoffLimit}, activeDeadlineSeconds |-> {},
                 podFailurePolicy |-> {}]
  /\ \A policy : Filled(policy) =
       [policy EXCEPT
         !.concurrencyPolicy       = IF @ = "" THEN "Forbid" ELSE @,
         !.ttlSecondsAfterFinished = {Or(@, DefaultTTL)},
         !.backoffLimit            = {Or(@, DefaultBackoffLimit)}]

LEMMA MutationChangesNothing ==
  ASSUME NEW spec, SpecShape(spec), SameDefaults
  PROVE  InForce(mutateJobFlow(spec)) = InForce(spec)
<1>1. ASSUME NEW policy, mutateJobFlow(spec) = [spec EXCEPT !.executionPolicy = {policy}]
      PROVE  InForce(mutateJobFlow(spec)) = InForceOf(policy)
  <2>1. mutateJobFlow(spec).executionPolicy = {policy}
    BY <1>1 DEF SpecShape
  <2> QED BY <2>1, InForceIs
<1>2. InForceOf(Defaults) = InForceOf(Silent)
  BY DefaultsInForce DEF SameDefaults
<1>3. \A policy : PolicyShape(policy) => InForceOf(Filled(policy)) = InForceOf(policy)
  BY FilledInForce DEF PolicyShape, SameDefaults
<1>4. CASE spec.executionPolicy = {}
  <2>1. InForce(spec) = InForceOf(Silent)
    BY <1>4, InForceIs
  <2>2. mutateJobFlow(spec) = [spec EXCEPT !.executionPolicy = {Defaults}]
    BY <1>4, MutatedSpec
  <2> QED BY <1>1, <1>2, <2>1, <2>2
<1>5. ASSUME NEW policy \in spec.executionPolicy
      PROVE  InForce(mutateJobFlow(spec)) = InForce(spec)
  <2>1. spec.executionPolicy = {policy} /\ PolicyShape(policy)
    BY DEF SpecShape
  <2>2. \/ /\ ~meaningful(policy)
           /\ mutateJobFlow(spec) = [spec EXCEPT !.executionPolicy = {Defaults}]
        \/ mutateJobFlow(spec) = [spec EXCEPT !.executionPolicy = {Filled(policy)}]
    BY <2>1, MutatedSpec
  <2>3. InForce(spec) = InForceOf(policy)
    BY <2>1, InForceIs
  <2> QED BY <1>1, <1>2, <1>3, <2>1, <2>2, <2>3, SilentInForce
<1> QED BY <1>4, <1>5

(* With the built-in configuration, a JobFlow runs under the policy that    *)
(* was written, whether the mutating webhook filled it in or not and        *)
(* whatever fields its author left out.                                     *)
THEOREM DefaultsAgree ==
  ASSUME DefaultTTL = 86400, DefaultBackoffLimit = 6
  PROVE  Spec => []DefaultsChangeNothing
<1>1. AdmissionInv => DefaultsChangeNothing
  <2> SUFFICES ASSUME AdmissionInv, NEW object \in stored
               PROVE  InForce(object.spec) = InForce(object.written)
    BY DEF DefaultsChangeNothing
  <2>1. SpecShape(object.written) /\ object.spec \in {object.written, mutateJobFlow(object.written)}
    BY KnownShape DEF AdmissionInv
  <2>2. SameDefaults
    BY SMT DEF SameDefaults, Defaults, Filled
  <2>3. InForce(mutateJobFlow(object.written)) = InForce(object.written)
    BY <2>1, <2>2, MutationChangesNothing, SMT
  <2> QED BY <2>1, <2>3, SMT
<1> QED BY <1>1, AdmissionAlways, PTL

----------------------------------------------------------------------------
(* The plan.                                                                *)

(* PlanFitsCopy of one graph and the steps it is for.                       *)
At(order, name) == {k \in DOMAIN order : order[k] = name}
Fits(dag, steps) ==
  /\ DOMAIN dag.graph = NameSet(steps)
  /\ \A i \in DOMAIN steps :
       /\ dag.graph[steps[i].name] = steps[i].dependencies
       /\ Cardinality(At(dag.sortedSteps, steps[i].name)) = 1
       /\ \A dep \in steps[i].dependencies, k \in At(dag.sortedSteps, steps[i].name) :
            \E j \in At(dag.sortedSteps, dep) : j < k

LEMMA PlanFitsCopyIs == PlanFitsCopy <=> \A dag \in planned : Fits(dag, copy.spec.steps)
BY DEF PlanFitsCopy, Fits, At

(* The names of the steps are all different, so that the last step of a     *)
(* name is the only one.                                                    *)
LEMMA OneStepPerName ==
  ASSUME NEW spec, SpecShape(spec), validateSteps(spec.steps),
         NEW i \in DOMAIN spec.steps, NEW k \in DOMAIN spec.steps,
         spec.steps[i].name = spec.steps[k].name
  PROVE  i = k
<1>1. i \in Nat /\ k \in Nat /\ DOMAIN spec.steps = 1 .. Len(spec.steps)
      /\ Len(spec.steps) \in Nat
  BY LenProperties DEF SpecShape
<1>2. i \notin 1 .. k - 1 /\ k \notin 1 .. i - 1
  BY DEF validateSteps
<1> QED BY <1>1, <1>2

LEMMA BuildDAGIs ==
  ASSUME NEW spec, SpecShape(spec), validateSteps(spec.steps)
  PROVE  /\ BuildDAG(spec.steps) \in Sorting!Graphs
         /\ DOMAIN BuildDAG(spec.steps) = NameSet(spec.steps)
         /\ \A i \in DOMAIN spec.steps :
              /\ BuildDAG(spec.steps)[spec.steps[i].name] = spec.steps[i].dependencies
              /\ DependenciesOf(spec.steps, spec.steps[i].name) = spec.steps[i].dependencies
<1> DEFINE steps == spec.steps
           last(name) == CHOOSE i \in DOMAIN steps :
                           /\ steps[i].name = name
                           /\ \A k \in i + 1 .. Len(steps) : steps[k].name # name
<1>1. DOMAIN steps = 1 .. Len(steps) /\ Len(steps) \in Nat
  BY LenProperties DEF SpecShape
<1>2. \A i \in DOMAIN steps : StepShape(steps[i])
  BY DEF SpecShape, Range
<1>3. ASSUME NEW i \in DOMAIN steps
      PROVE  last(steps[i].name) = i
  <2>1. \A k \in i + 1 .. Len(steps) : steps[k].name # steps[i].name
    <3>1. \A k \in i + 1 .. Len(steps) : k \in DOMAIN steps /\ k # i
      BY <1>1
    <3> QED BY <3>1, OneStepPerName
  <2>2. \A k \in DOMAIN steps : steps[k].name = steps[i].name => k = i
    BY OneStepPerName
  <2> QED BY <2>1, <2>2
<1>4. BuildDAG(steps) = [name \in NameSet(steps) |-> steps[last(name)].dependencies]
  BY DEF BuildDAG
<1> HIDE DEF last
<1>5. ASSUME NEW i \in DOMAIN steps
      PROVE  /\ steps[i].name \in NameSet(steps)
             /\ BuildDAG(steps)[steps[i].name] = steps[i].dependencies
  BY <1>3, <1>4, <1>5 DEF NameSet
<1>6. ASSUME NEW i \in DOMAIN steps
      PROVE  DependenciesOf(steps, steps[i].name) = steps[i].dependencies
  <2>1. {k \in DOMAIN steps : steps[k].name = steps[i].name} = {i}
    BY OneStepPerName
  <2> QED BY <2>1 DEF DependenciesOf
<1>7. BuildDAG(steps) \in [NameSet(steps) -> SUBSET Names]
  <2>1. \A name \in NameSet(steps) : steps[last(name)].dependencies \in SUBSET Names
    BY <1>2, <1>3 DEF NameSet, StepShape
  <2> QED BY <1>4, <2>1
<1>8. NameSet(steps) \in SUBSET Names
  BY <1>2 DEF NameSet, StepShape
<1>9. DOMAIN BuildDAG(steps) = NameSet(steps)
  BY <1>4
<1> QED BY <1>5, <1>6, <1>7, <1>8, <1>9 DEF Sorting!Graphs

(* A sorted graph is a plan of the steps it was built from.                 *)
LEMMA SortedFits ==
  ASSUME NEW spec, SpecShape(spec), validateSteps(spec.steps), Sorting!SortInv,
         outcome = "sorted", graph = BuildDAG(spec.steps)
  PROVE  Fits([graph |-> graph, sortedSteps |-> result], spec.steps)
<1> DEFINE steps == spec.steps
<1>1. /\ DOMAIN graph = NameSet(steps)
      /\ \A i \in DOMAIN steps : graph[steps[i].name] = steps[i].dependencies
  BY BuildDAGIs
<1>2. DOMAIN result = 1 .. Len(result) /\ Len(result) \in Nat
  BY Sorting!StackType DEF Sorting!SortInv
<1>3. /\ \A name \in DOMAIN graph : \E k \in DOMAIN result : result[k] = name
      /\ \A j, k \in DOMAIN result : result[j] = result[k] => j = k
  BY <1>2 DEF Sorting!SortInv, Sorting!ListInv, Sorting!ListedInOrder
<1>4. ASSUME NEW i \in DOMAIN steps
      PROVE  Cardinality(At(result, steps[i].name)) = 1
  <2>1. PICK k \in DOMAIN result : result[k] = steps[i].name
    BY <1>1, <1>3 DEF NameSet
  <2>2. At(result, steps[i].name) = {k}
    BY <1>3, <2>1 DEF At
  <2> QED BY <2>2, FS_Singleton
<1>5. ASSUME NEW i \in DOMAIN steps, NEW dep \in steps[i].dependencies,
             NEW k \in At(result, steps[i].name)
      PROVE  \E j \in At(result, dep) : j < k
  <2>1. k \in DOMAIN result /\ result[k] = steps[i].name
    BY DEF At
  <2>2. dep \in Sorting!Dependencies(result[k])
    BY <1>1, <2>1 DEF Sorting!Dependencies, NameSet
  <2>3. PICK j \in 1 .. k - 1 : result[j] = dep
    BY <2>1, <2>2 DEF Sorting!SortInv, Sorting!ListInv, Sorting!ListedInOrder
  <2>4. j \in DOMAIN result /\ j < k
    BY <1>2, <2>1
  <2> QED BY <2>3, <2>4 DEF At
<1> QED BY <1>1, <1>4, <1>5 DEF Fits

LEMMA CycleOfSteps ==
  ASSUME NEW spec, SpecShape(spec), validateSteps(spec.steps),
         graph = BuildDAG(spec.steps), Sorting!HasCycle
  PROVE  Cyclic(spec.steps)
<1>1. PICK S \in (SUBSET Names) \ {{}} :
        \A name \in S : Sorting!Dependencies(name) \cap S # {}
  BY DEF Sorting!HasCycle
<1>2. ASSUME NEW name \in S
      PROVE  /\ name \in NameSet(spec.steps)
             /\ DependenciesOf(spec.steps, name) \cap S # {}
  <2>1. name \in DOMAIN graph /\ graph[name] \cap S # {}
    BY <1>1 DEF Sorting!Dependencies
  <2>2. name \in NameSet(spec.steps)
    BY <2>1, BuildDAGIs
  <2>3. PICK i \in DOMAIN spec.steps : name = spec.steps[i].name
    BY <2>2 DEF NameSet
  <2> QED BY <2>1, <2>2, <2>3, BuildDAGIs
<1> QED BY <1>1, <1>2 DEF Cyclic

----------------------------------------------------------------------------
(* The controller.                                                          *)

CopyInv ==
  verdict # "none" =>
    /\ SpecShape(copy.spec)
    /\ copy.admitted => ValidateJobFlowEnhanced(copy.spec)
    /\ \E spec \in Known : copy.spec.steps = spec.steps

VerdictInv ==
  /\ verdict = "invalid" => ~validateSteps(copy.spec.steps)
  /\ verdict = "sorting" =>
       /\ validateSteps(copy.spec.steps)
       /\ graph = BuildDAG(copy.spec.steps) /\ outcome # "idle"
  /\ verdict = "cycle" => validateSteps(copy.spec.steps) /\ Cyclic(copy.spec.steps)

(* Each entry of the cache is a plan of the steps it has the hash of.       *)
CacheInv == \A entry \in dagCache : Fits(entry.dag, entry.specHash)

PlanInv ==
  /\ CopyInv /\ VerdictInv /\ CacheInv /\ Sorting!SortInv
  /\ \A dag \in planned : Fits(dag, copy.spec.steps)

LEMMA SorterStays ==
  ASSUME Sorting!SortInv, UNCHANGED sorter
  PROVE  Sorting!SortInv'
<1>1. UNCHANGED Sorting!sortVars
  BY DEF sorter, Sorting!sortVars, Sorting!search
<1> QED BY <1>1, Sorting!SortStepInv

LEMMA SorterStarts ==
  ASSUME NEW g \in Sorting!Graphs, Dag!StartSort(g)
  PROVE  Sorting!SortInv' /\ graph' = g /\ outcome' # "idle"
BY Sorting!NewSortInv DEF Dag!StartSort

LEMMA SorterEnds ==
  ASSUME Dag!Discard
  PROVE  Sorting!SortInv'
BY Sorting!NewSortInv, Sorting!EmptyGraph DEF Dag!Discard

LEMMA PlanInit == Init => PlanInv
<1> SUFFICES ASSUME Init PROVE PlanInv
  OBVIOUS
<1>1. Sorting!SortInv
  BY Sorting!EmptySortInv, Sorting!EmptyGraph DEF Init, Dag!SortInit
<1> QED BY <1>1 DEF Init, PlanInv, CopyInv, VerdictInv, CacheInv

LEMMA ReadStep ==
  ASSUME AdmissionInv, PlanInv, Read
  PROVE  PlanInv'
<1>1. PICK object \in stored :
        /\ copy' = [spec |-> object.spec, admitted |-> object.admitted]
        /\ \/ /\ ~validateSteps(object.spec.steps)
              /\ verdict' = "invalid" /\ planned' = {} /\ UNCHANGED sorter
           \/ /\ verdict' = "planned" /\ UNCHANGED sorter
              /\ planned' = {entry.dag : entry \in
                               {e \in dagCache : e.specHash = object.spec.steps}}
           \/ /\ validateSteps(object.spec.steps)
              /\ verdict' = "sorting" /\ planned' = {}
              /\ Dag!StartSort(BuildDAG(object.spec.steps))
  BY DEF Read, validateJobFlow, Hit, computeStepsHash
<1> DEFINE spec == object.spec
<1>2. copy'.spec = spec /\ copy'.admitted = object.admitted
  BY <1>1
<1>3. SpecShape(spec)
  BY StoredShape
<1>4. \E known \in Known : spec.steps = known.steps
  BY KnownShape, MutatedShape DEF AdmissionInv
<1>5. object.admitted => ValidateJobFlowEnhanced(spec)
  BY DEF AdmissionInv
<1>6. CopyInv'
  BY <1>2, <1>3, <1>4, <1>5 DEF CopyInv
<1>7. CacheInv'
  BY DEF Read, PlanInv, CacheInv
<1>8. CASE ~validateSteps(spec.steps) /\ verdict' = "invalid" /\ planned' = {} /\ UNCHANGED sorter
  <2>1. VerdictInv'
    BY <1>2, <1>8 DEF VerdictInv
  <2>2. Sorting!SortInv'
    BY <1>8, SorterStays DEF PlanInv
  <2> QED BY <1>6, <1>7, <1>8, <2>1, <2>2 DEF PlanInv
<1>9. CASE /\ verdict' = "planned" /\ UNCHANGED sorter
           /\ planned' = {entry.dag : entry \in {e \in dagCache : e.specHash = spec.steps}}
  <2>1. VerdictInv'
    BY <1>9 DEF VerdictInv
  <2>2. Sorting!SortInv'
    BY <1>9, SorterStays DEF PlanInv
  <2>3. \A dag \in planned' : Fits(dag, spec.steps)
    BY <1>9 DEF PlanInv, CacheInv
  <2>4. (\A dag \in planned : Fits(dag, copy.spec.steps))'
    BY <1>2, <2>3
  <2> QED BY <1>6, <1>7, <2>1, <2>2, <2>4 DEF PlanInv
<1>10. CASE /\ validateSteps(spec.steps) /\ verdict' = "sorting" /\ planned' = {}
            /\ Dag!StartSort(BuildDAG(spec.steps))
  <2>1. BuildDAG(spec.steps) \in Sorting!Graphs
    BY <1>3, <1>10, BuildDAGIs
  <2>2. Sorting!SortInv' /\ graph' = BuildDAG(spec.steps) /\ outcome' # "idle"
    BY <1>10, <2>1, SorterStarts
  <2>3. VerdictInv'
    BY <1>2, <1>10, <2>2 DEF VerdictInv
  <2> QED BY <1>6, <1>7, <1>10, <2>2, <2>3 DEF PlanInv
<1> QED BY <1>1, <1>8, <1>9, <1>10

LEMMA SortMovesInv ==
  ASSUME PlanInv, SortStep
  PROVE  PlanInv'
<1>1. Sorting!SortInv'
  BY SortMoves, Sorting!SortStepInv DEF SortStep, PlanInv, Sorting!SortNext
<1>2. UNCHANGED graph /\ outcome' # "idle" /\ verdict = "sorting"
  BY DEF SortStep, PlanInv, VerdictInv, Dag!Sort, Dag!VisitRoot, Dag!VisitDependency,
         Dag!Leave, Dag!Return, Dag!FindCycle, Dag!SkipVisited, Dag!Descend
<1>3. UNCHANGED <<copy, verdict, planned, dagCache>>
  BY DEF SortStep, controller
<1>4. CopyInv' /\ CacheInv' /\ VerdictInv'
  BY <1>2, <1>3 DEF PlanInv, CopyInv, CacheInv, VerdictInv
<1> QED BY <1>1, <1>3, <1>4 DEF PlanInv

LEMMA ReturnStep ==
  ASSUME PlanInv, ReturnDAG
  PROVE  PlanInv'
<1> DEFINE steps == copy.spec.steps
           dag   == [graph |-> graph, sortedSteps |-> result]
<1>1. /\ SpecShape(copy.spec) /\ validateSteps(steps) /\ graph = BuildDAG(steps)
      /\ outcome \in {"sorted", "cycle"} /\ UNCHANGED copy /\ verdict # "none"
  BY DEF ReturnDAG, PlanInv, CopyInv, VerdictInv, Sorting!SortInv, Sorting!SortType
<1>2. Sorting!SortInv'
  BY SorterEnds DEF ReturnDAG
<1>3. CopyInv'
  BY <1>1 DEF PlanInv, CopyInv
<1>4. CASE outcome = "sorted"
  <2>1. Fits(dag, steps)
    BY <1>1, <1>4, SortedFits DEF PlanInv
  <2>2. verdict' = "planned" /\ planned' = {dag} /\ dagCache' = {[specHash |-> steps, dag |-> dag]}
    BY <1>4 DEF ReturnDAG, computeStepsHash
  <2> HIDE DEF dag
  <2>3. VerdictInv' /\ CacheInv'
    BY <2>1, <2>2 DEF VerdictInv, CacheInv
  <2>4. (\A d \in planned : Fits(d, copy.spec.steps))'
    BY <1>1, <2>1, <2>2
  <2> QED BY <1>2, <1>3, <2>3, <2>4 DEF PlanInv
<1>5. CASE outcome = "cycle"
  <2>1. Cyclic(steps)
    BY <1>1, <1>5, CycleOfSteps DEF PlanInv, Sorting!SortInv
  <2>2. verdict' = "cycle" /\ UNCHANGED <<planned, dagCache>>
    BY <1>5 DEF ReturnDAG
  <2>3. VerdictInv' /\ CacheInv'
    BY <1>1, <2>1, <2>2 DEF PlanInv, VerdictInv, CacheInv
  <2> QED BY <1>1, <1>2, <1>3, <2>2, <2>3 DEF PlanInv
<1> QED BY <1>1, <1>4, <1>5

LEMMA PlanStep == AdmissionInv /\ PlanInv /\ [Next]_vars => PlanInv'
<1> SUFFICES ASSUME AdmissionInv, PlanInv, [Next]_vars PROVE PlanInv'
  OBVIOUS
<1>1. CASE UNCHANGED <<controller, sorter>>
  <2>1. UNCHANGED <<copy, verdict, planned, dagCache, graph, outcome>>
    BY <1>1 DEF controller, sorter
  <2>2. Sorting!SortInv'
    BY <1>1, SorterStays DEF PlanInv
  <2> QED BY <2>1, <2>2 DEF PlanInv, CopyInv, VerdictInv, CacheInv
<1>2. CASE CreateFlow \/ UpdateFlow \/ DeleteFlow \/ Mutate \/ Validate \/ UNCHANGED vars
  BY <1>1, <1>2 DEF CreateFlow, UpdateFlow, Ask, DeleteFlow, Mutate, Validate, vars
<1>3. CASE Restart
  <2>1. verdict' = "none" /\ planned' = {} /\ dagCache' = {}
    BY <1>3 DEF Restart
  <2>2. Sorting!SortInv'
    BY <1>3, SorterEnds DEF Restart
  <2> QED BY <2>1, <2>2 DEF PlanInv, CopyInv, VerdictInv, CacheInv
<1> QED BY <1>2, <1>3, ReadStep, SortMovesInv, ReturnStep DEF Next

LEMMA PlanAlways == Spec => []PlanInv
BY AdmissionInit, AdmissionStep, PlanInit, PlanStep, PTL DEF Spec

(* The plan lists each step of the worker's copy once and after all its     *)
(* dependencies, for every list of steps, every order of the sort and every *)
(* earlier spec the cache may hold an entry of.                             *)
THEOREM PlanIsOfTheCopy == Spec => []PlanFitsCopy
<1>1. PlanInv => PlanFitsCopy
  BY PlanFitsCopyIs DEF PlanInv
<1> QED BY <1>1, PlanAlways, PTL

(* The controller refuses a JobFlow for a cycle only if its steps wait for  *)
(* one another.                                                             *)
THEOREM ReportedCyclesAreReal == Spec => []CycleIsReal
<1>1. PlanInv => CycleIsReal
  BY DEF PlanInv, VerdictInv, CycleIsReal
<1> QED BY <1>1, PlanAlways, PTL

----------------------------------------------------------------------------
(* The search of the webhook.                                               *)

(* Sets of nodes of S that wait for one another.                            *)
Knots(adj, S) ==
  {K \in SUBSET S : K # {} /\ \A u \in K : adj[u] \cap K # {}}

Pick(s) == CHOOSE x \in s : TRUE

(* Induction, over the numbers and over the subsets of a finite set.        *)
LEMMA Induction ==
  ASSUME NEW Q, 0 \in Q, \A k \in Nat : k \in Q => k + 1 \in Q
  PROVE  \A k \in Nat : k \in Q
<1> SUFFICES ASSUME Nat \ Q # {} PROVE FALSE
  OBVIOUS
<1>1. PICK k \in Nat \ Q : \A j \in Nat \ Q : ~(j < k)
  <2>1. \E k \in Nat \ Q : \A j \in Nat \ Q : ~(<<j, k>> \in OpToRel(<, Nat))
    BY WFMin, NatLessThanWellFounded
  <2> QED BY <2>1 DEF OpToRel
<1>2. k # 0 /\ k - 1 \in Nat
  OBVIOUS
<1>3. k - 1 \in Q
  BY <1>1, <1>2
<1> QED BY <1>2, <1>3

LEMMA SubsetInduction ==
  ASSUME NEW S, IsFiniteSet(S), NEW Q, {} \in Q,
         \A s \in SUBSET S : s # {} /\ s \ {Pick(s)} \in Q => s \in Q
  PROVE  \A s \in SUBSET S : s \in Q
<1> DEFINE Upto == {k \in Nat : \A s \in SUBSET S : Cardinality(s) = k => s \in Q}
<1>1. \A s \in SUBSET S : IsFiniteSet(s) /\ Cardinality(s) \in Nat
  BY FS_Subset, FS_CardinalityType
<1>2. 0 \in Upto
  BY <1>1, FS_EmptySet
<1>3. ASSUME NEW k \in Nat, k \in Upto
      PROVE  k + 1 \in Upto
  <2> SUFFICES ASSUME NEW s \in SUBSET S, Cardinality(s) = k + 1
               PROVE  s \in Q
    OBVIOUS
  <2>1. s # {}
    BY <1>1, FS_EmptySet
  <2>2. Pick(s) \in s
    BY <2>1 DEF Pick
  <2>3. Cardinality(s \ {Pick(s)}) = k
    BY <1>1, <2>2, FS_RemoveElement
  <2>4. s \ {Pick(s)} \in Q
    BY <1>3, <2>3
  <2> QED BY <2>1, <2>4
<1> HIDE DEF Upto
<1>4. \A k \in Nat : k \in Upto
  BY <1>2, <1>3, Induction
<1> QED BY <1>1, <1>4 DEF Upto

(* The loop of VisitAll, turn by turn: it[s] is found when the nodes of s   *)
(* have been visited.                                                       *)
Turn(f, path, start, it, s) ==
  IF s = {} THEN start ELSE Visit(f, path, Pick(s), it[s \ {Pick(s)}])

Turns(f, path, start, S, it) ==
  it = [s \in SUBSET S |-> Turn(f, path, start, it, s)]

LEMMA TurnsExist ==
  ASSUME NEW f, NEW path, NEW start, NEW S, IsFiniteSet(S)
  PROVE  \E it : Turns(f, path, start, S, it)
<1> DEFINE Good(g, k) == \A s \in SUBSET S : Cardinality(s) <= k => g[s] = Turn(f, path, start, g, s)
           Upto == {k \in Nat : \E g : Good(g, k)}
<1>1. \A s \in SUBSET S : IsFiniteSet(s) /\ Cardinality(s) \in Nat /\ Cardinality(s) <= Cardinality(S)
  BY FS_Subset, FS_CardinalityType
<1>2. 0 \in Upto
  <2> DEFINE g == [s \in SUBSET S |-> start]
  <2>1. \A s \in SUBSET S : Cardinality(s) <= 0 => s = {}
    BY <1>1, FS_EmptySet
  <2>2. Good(g, 0)
    BY <2>1 DEF Turn
  <2> QED BY <2>2
<1>3. ASSUME NEW k \in Nat, k \in Upto
      PROVE  k + 1 \in Upto
  <2>1. PICK g : Good(g, k)
    BY <1>3
  <2> DEFINE h == [s \in SUBSET S |-> Turn(f, path, start, g, s)]
  <2>2. ASSUME NEW s \in SUBSET S, Cardinality(s) <= k + 1
        PROVE  h[s] = Turn(f, path, start, h, s)
    <3>1. CASE s = {}
      BY <3>1 DEF Turn
    <3>2. CASE s # {}
      <4>1. Pick(s) \in s
        BY <3>2 DEF Pick
      <4>2. Cardinality(s \ {Pick(s)}) <= k
        BY <1>1, <2>2, <4>1, FS_RemoveElement
      <4>3. h[s \ {Pick(s)}] = g[s \ {Pick(s)}]
        BY <2>1, <4>2
      <4> QED BY <4>3 DEF Turn
    <3> QED BY <3>1, <3>2
  <2>3. Good(h, k + 1)
    BY <2>2
  <2> HIDE DEF h, Good
  <2> QED BY <2>3
<1> HIDE DEF Upto
<1>4. Cardinality(S) \in Upto
  BY <1>2, <1>3, FS_CardinalityType, Induction
<1>5. PICK g : Good(g, Cardinality(S))
  BY <1>4 DEF Upto
<1> DEFINE it == [s \in SUBSET S |-> g[s]]
<1>6. ASSUME NEW s \in SUBSET S
      PROVE  Turn(f, path, start, it, s) = it[s]
  <2>1. g[s] = Turn(f, path, start, g, s)
    BY <1>1, <1>5
  <2>2. it[s \ {Pick(s)}] = g[s \ {Pick(s)}]
    OBVIOUS
  <2> QED BY <2>1, <2>2 DEF Turn
<1>7. it = [s \in SUBSET S |-> Turn(f, path, start, it, s)]
  BY <1>6
<1> QED BY <1>7 DEF Turns

(* VisitAll is the last turn.                                               *)
LEMMA VisitAllTurns ==
  ASSUME NEW f, NEW path, NEW before, NEW S, IsFiniteSet(S)
  PROVE  \E it : /\ Turns(f, path, [cycle |-> FALSE, visited |-> before], S, it)
                 /\ VisitAll(f, path, before, S) = it[S]
<1> DEFINE start == [cycle |-> FALSE, visited |-> before]
<1>1. PICK it : Turns(f, path, start, S, it)
  BY TurnsExist
<1>2. it = [s \in SUBSET S |-> IF s = {} THEN start
              ELSE LET x == CHOOSE x \in s : TRUE IN Visit(f, path, x, it[s \ {x}])]
  BY <1>1 DEF Turns, Turn, Pick
<1>3. \E i2 : /\ i2 = [s \in SUBSET S |-> IF s = {} THEN start
                         ELSE LET x == CHOOSE x \in s : TRUE IN Visit(f, path, x, i2[s \ {x}])]
              /\ VisitAll(f, path, before, S) = i2[S]
  BY <1>2 DEF VisitAll, FoldSet, MapThenFoldSet
<1> QED BY <1>3 DEF Turns, Turn, Pick

----------------------------------------------------------------------------
Results(N) == [cycle : BOOLEAN, visited : SUBSET N]

(* What a loop over S has found when it has been to the nodes of s.  If it  *)
(* found no cycle, then what it has visited since it began waits for        *)
(* visited nodes that are not on the path, and holds no knot.  If it found  *)
(* one, there is one, given that each node of the path waits for the next.  *)
Loop(N, adj, path, before, S, s, found) ==
  /\ found \in Results(N) /\ before \subseteq found.visited
  /\ ~found.cycle =>
       /\ s \subseteq found.visited /\ s \cap path = {}
       /\ \A u \in found.visited \ before : adj[u] \subseteq found.visited \ path
       /\ Knots(adj, found.visited \ before) = {}
  /\ found.cycle /\ (\A u \in path, x \in S : adj[u] \cap (path \cup {x}) # {})
       => Knots(adj, N) # {}

(* What a call of dfs answers, in the same sense.                           *)
Answer(N, adj, call, found) ==
  /\ found \in Results(N) /\ call.visited \cup {call.node} \subseteq found.visited
  /\ ~found.cycle =>
       /\ \A u \in found.visited \ call.visited : adj[u] \subseteq found.visited \ call.path
       /\ Knots(adj, found.visited \ call.visited) = {}
  /\ found.cycle /\ (\A u \in call.path : adj[u] \cap (call.path \cup {call.node}) # {})
       => Knots(adj, N) # {}

Body(N, adj, f) ==
  [call \in Calls(N) |->
     VisitAll(f, call.path \cup {call.node}, call.visited \cup {call.node}, adj[call.node])]

(* No knot goes across two sets, neither of which has one, when the first   *)
(* waits for nothing in the second.                                         *)
LEMMA KnotsApart ==
  ASSUME NEW adj, NEW A, NEW B, \A u \in A : adj[u] \cap B = {},
         Knots(adj, A) = {}, Knots(adj, B) = {}
  PROVE  Knots(adj, A \cup B) = {}
<1> SUFFICES ASSUME NEW K \in Knots(adj, A \cup B)
             PROVE  FALSE
  OBVIOUS
<1>1. K \subseteq A \cup B /\ K # {} /\ \A u \in K : adj[u] \cap K # {}
  BY DEF Knots
<1>2. CASE K \cap A = {}
  <2>1. K \in Knots(adj, B)
    BY <1>1, <1>2 DEF Knots
  <2> QED BY <2>1
<1>3. CASE K \cap A # {}
  <2>1. \A u \in K \cap A : adj[u] \cap (K \cap A) # {}
    BY <1>1
  <2>2. K \cap A \in Knots(adj, A)
    BY <1>3, <2>1 DEF Knots
  <2> QED BY <2>2
<1> QED BY <1>2, <1>3

(* A turn of the loop: the path is a knot, or the answers of the loop and   *)
(* of the call add up.                                                      *)
LEMMA LoopTurn ==
  ASSUME NEW N, NEW adj \in [N -> SUBSET N], NEW path, NEW before \in SUBSET N,
         path \subseteq before, NEW S \in SUBSET N, NEW s \in SUBSET S, NEW x \in s,
         NEW found, Loop(N, adj, path, before, S, s \ {x}, found),
         NEW f,
         \A call \in Calls(N) : before \subseteq call.visited => Answer(N, adj, call, f[call])
  PROVE  Loop(N, adj, path, before, S, s, Visit(f, path, x, found))
<1>1. found \in Results(N) /\ before \subseteq found.visited /\ found.visited \in SUBSET N
      /\ found.cycle \in BOOLEAN
  BY DEF Loop, Results
<1>2. CASE found.cycle
  <2>1. Visit(f, path, x, found) = found
    BY <1>2 DEF Visit
  <2> QED BY <1>2, <2>1 DEF Loop
<1>3. CASE ~found.cycle /\ x \in found.visited
  <2> DEFINE r == Visit(f, path, x, found)
  <2>1. r = [found EXCEPT !.cycle = x \in path]
    BY <1>3 DEF Visit
  <2> HIDE DEF r
  <2>2. r \in Results(N) /\ r.visited = found.visited /\ r.cycle = (x \in path)
    <3>1. \A v \in BOOLEAN : /\ [found EXCEPT !.cycle = v] \in Results(N)
                            /\ [found EXCEPT !.cycle = v].visited = found.visited
                            /\ [found EXCEPT !.cycle = v].cycle = v
      BY <1>1 DEF Results
    <3>2. (x \in path) \in BOOLEAN
      OBVIOUS
    <3> QED BY <2>1, <3>1, <3>2
  <2>3. x \notin path =>
          /\ s \subseteq found.visited /\ s \cap path = {}
          /\ \A u \in found.visited \ before : adj[u] \subseteq found.visited \ path
          /\ Knots(adj, found.visited \ before) = {}
    BY <1>3 DEF Loop
  <2>4. ASSUME x \in path, \A u \in path, y \in S : adj[u] \cap (path \cup {y}) # {}
        PROVE  Knots(adj, N) # {}
    <3>1. \A u \in path : adj[u] \cap path # {}
      BY <2>4
    <3>2. path \in Knots(adj, N)
      BY <2>4, <3>1 DEF Knots
    <3> QED BY <3>2
  <2>5. Loop(N, adj, path, before, S, s, r)
    BY <1>1, <2>2, <2>3, <2>4 DEF Loop
  <2> QED BY <2>5 DEF r
<1>4. CASE ~found.cycle /\ x \notin found.visited
  <2> DEFINE call == [node |-> x, visited |-> found.visited, path |-> path]
             r == f[call]
  <2>1. Visit(f, path, x, found) = r
    BY <1>4 DEF Visit
  <2>2. call \in Calls(N) /\ call.node = x /\ call.visited = found.visited /\ call.path = path
    BY <1>1, <1>4 DEF Calls
  <2>3. Answer(N, adj, call, r)
    BY <1>1, <2>2
  <2> HIDE DEF r, call
  <2>4. /\ r \in Results(N) /\ found.visited \cup {x} \subseteq r.visited
        /\ ~r.cycle =>
             /\ \A u \in r.visited \ found.visited : adj[u] \subseteq r.visited \ path
             /\ Knots(adj, r.visited \ found.visited) = {}
        /\ r.cycle /\ (\A u \in path : adj[u] \cap (path \cup {x}) # {}) => Knots(adj, N) # {}
    BY <2>2, <2>3 DEF Answer
  <2>5. /\ s \ {x} \subseteq found.visited /\ (s \ {x}) \cap path = {}
        /\ \A u \in found.visited \ before : adj[u] \subseteq found.visited \ path
        /\ Knots(adj, found.visited \ before) = {}
    BY <1>4 DEF Loop
  <2>6. ASSUME ~r.cycle
        PROVE  /\ s \subseteq r.visited /\ s \cap path = {}
               /\ \A u \in r.visited \ before : adj[u] \subseteq r.visited \ path
               /\ Knots(adj, r.visited \ before) = {}
    <3> DEFINE A == found.visited \ before
               B == r.visited \ found.visited
    <3>1. \A u \in A : adj[u] \cap B = {}
      BY <2>5
    <3>2. r.visited \ before = A \cup B
      BY <1>1, <2>4
    <3>3. Knots(adj, A) = {} /\ Knots(adj, B) = {}
      BY <2>4, <2>5, <2>6
    <3> HIDE DEF A, B
    <3>4. Knots(adj, r.visited \ before) = {}
      BY <3>1, <3>2, <3>3, KnotsApart
    <3>5. s \subseteq r.visited /\ s \cap path = {}
      BY <1>1, <1>4, <2>4, <2>5
    <3>6. \A u \in r.visited \ before : adj[u] \subseteq r.visited \ path
      BY <2>4, <2>5, <2>6
    <3> QED BY <3>4, <3>5, <3>6
  <2>7. Loop(N, adj, path, before, S, s, r)
    BY <1>1, <2>4, <2>6 DEF Loop
  <2> QED BY <2>1, <2>7
<1> QED BY <1>1, <1>2, <1>3, <1>4

LEMMA LoopResult ==
  ASSUME NEW N, NEW adj \in [N -> SUBSET N], NEW path, NEW before \in SUBSET N,
         path \subseteq before, NEW S \in SUBSET N, IsFiniteSet(S),
         NEW f,
         \A call \in Calls(N) : before \subseteq call.visited => Answer(N, adj, call, f[call]),
         NEW it, Turns(f, path, [cycle |-> FALSE, visited |-> before], S, it)
  PROVE  \A s \in SUBSET S : Loop(N, adj, path, before, S, s, it[s])
<1> DEFINE start == [cycle |-> FALSE, visited |-> before]
           Q == {s \in SUBSET S : Loop(N, adj, path, before, S, s, it[s])}
<1>1. \A s \in SUBSET S : it[s] = Turn(f, path, start, it, s)
  BY DEF Turns
<1>2. {} \in Q
  <2>1. it[{}] = start
    BY <1>1 DEF Turn
  <2>2. start \in Results(N) /\ start.visited = before /\ start.cycle = FALSE
    BY DEF Results
  <2>3. Knots(adj, {}) = {} /\ before \ before = {}
    BY DEF Knots
  <2> HIDE DEF start
  <2>4. Loop(N, adj, path, before, S, {}, start)
    BY <2>2, <2>3 DEF Loop
  <2> QED BY <2>1, <2>4
<1>3. ASSUME NEW s \in SUBSET S, s # {}, s \ {Pick(s)} \in Q
      PROVE  s \in Q
  <2>1. Pick(s) \in s
    BY <1>3 DEF Pick
  <2>2. it[s] = Visit(f, path, Pick(s), it[s \ {Pick(s)}])
    BY <1>1, <1>3 DEF Turn
  <2>3. Loop(N, adj, path, before, S, s \ {Pick(s)}, it[s \ {Pick(s)}])
    BY <1>3
  <2>4. Loop(N, adj, path, before, S, s, Visit(f, path, Pick(s), it[s \ {Pick(s)}]))
    BY <2>1, <2>3, LoopTurn
  <2> QED BY <2>2, <2>4
<1> HIDE DEF Q
<1>4. \A s \in SUBSET S : s \in Q
  BY <1>2, <1>3, SubsetInduction
<1> QED BY <1>4 DEF Q

(* A loop does the same with every dfs that gives the same answers.         *)
LEMMA LoopSame ==
  ASSUME NEW N, NEW adj \in [N -> SUBSET N], NEW path, NEW before \in SUBSET N,
         path \subseteq before, NEW S \in SUBSET N, IsFiniteSet(S),
         NEW f, NEW g,
         \A call \in Calls(N) : before \subseteq call.visited =>
            Answer(N, adj, call, f[call]) /\ g[call] = f[call]
  PROVE  /\ VisitAll(f, path, before, S) = VisitAll(g, path, before, S)
         /\ Loop(N, adj, path, before, S, S, VisitAll(f, path, before, S))
<1> DEFINE start == [cycle |-> FALSE, visited |-> before]
<1>1. PICK it : /\ Turns(f, path, start, S, it)
                /\ VisitAll(f, path, before, S) = it[S]
  BY VisitAllTurns
<1>2. PICK jt : /\ Turns(g, path, start, S, jt)
                /\ VisitAll(g, path, before, S) = jt[S]
  BY VisitAllTurns
<1>3. \A s \in SUBSET S : Loop(N, adj, path, before, S, s, it[s])
  BY <1>1, LoopResult
<1>4. \A s \in SUBSET S : /\ it[s] = Turn(f, path, start, it, s)
                          /\ jt[s] = Turn(g, path, start, jt, s)
  BY <1>1, <1>2 DEF Turns
<1> DEFINE Q == {s \in SUBSET S : it[s] = jt[s]}
<1>5. {} \in Q
  BY <1>4 DEF Turn
<1>6. ASSUME NEW s \in SUBSET S, s # {}, s \ {Pick(s)} \in Q
      PROVE  s \in Q
  <2> DEFINE x == Pick(s)
             found == it[s \ {x}]
  <2>1. x \in s
    BY <1>6 DEF Pick
  <2>2. it[s] = Visit(f, path, x, found) /\ jt[s] = Visit(g, path, x, found)
    BY <1>4, <1>6 DEF Turn
  <2>3. Loop(N, adj, path, before, S, s \ {x}, found)
    BY <1>3
  <2> HIDE DEF x, found
  <2>4. ASSUME x \notin found.visited
        PROVE  LET call == [node |-> x, visited |-> found.visited, path |-> path]
               IN  f[call] = g[call]
    <3> DEFINE call == [node |-> x, visited |-> found.visited, path |-> path]
    <3>1. found.visited \in SUBSET N /\ before \subseteq found.visited
      BY <2>3 DEF Loop, Results
    <3>2. call \in Calls(N) /\ call.visited = found.visited
      BY <2>1, <2>4, <3>1 DEF Calls
    <3> QED BY <3>1, <3>2
  <2>5. Visit(f, path, x, found) = Visit(g, path, x, found)
    BY <2>4 DEF Visit
  <2> QED BY <2>2, <2>5
<1> HIDE DEF Q
<1>7. S \in Q
  BY <1>5, <1>6, SubsetInduction
<1> QED BY <1>1, <1>2, <1>3, <1>7 DEF Q


(* A call answers what its loop has found: its node waits for nothing on    *)
(* the path, itself included, and nothing it has visited waits for it.      *)
LEMMA CallAnswers ==
  ASSUME NEW N, NEW adj \in [N -> SUBSET N], NEW call \in Calls(N), NEW found,
         Loop(N, adj, call.path \cup {call.node}, call.visited \cup {call.node},
              adj[call.node], adj[call.node], found)
  PROVE  Answer(N, adj, call, found)
<1> DEFINE n == call.node
           V == call.visited
           P == call.path
<1>1. n \in N \ V /\ V \in SUBSET N /\ P \subseteq V
  BY DEF Calls
<1> HIDE DEF n, V, P
<1>2. Loop(N, adj, P \cup {n}, V \cup {n}, adj[n], adj[n], found)
  BY DEF n, V, P
<1>3. found \in Results(N) /\ V \cup {n} \subseteq found.visited
  BY <1>2 DEF Loop
<1>4. ASSUME ~found.cycle
      PROVE  /\ \A u \in found.visited \ V : adj[u] \subseteq found.visited \ P
             /\ Knots(adj, found.visited \ V) = {}
  <2> DEFINE A == found.visited \ (V \cup {n})
  <2>1. /\ adj[n] \subseteq found.visited /\ adj[n] \cap (P \cup {n}) = {}
        /\ \A u \in A : adj[u] \subseteq found.visited \ (P \cup {n})
        /\ Knots(adj, A) = {}
    BY <1>2, <1>4 DEF Loop
  <2>2. found.visited \ V = A \cup {n}
    BY <1>1, <1>3
  <2>3. Knots(adj, {n}) = {}
    BY <2>1 DEF Knots
  <2>4. \A u \in A : adj[u] \cap {n} = {}
    BY <2>1
  <2> HIDE DEF A
  <2>5. Knots(adj, found.visited \ V) = {}
    BY <2>1, <2>2, <2>3, <2>4, KnotsApart
  <2> QED BY <2>1, <2>2, <2>5
<1>5. ASSUME found.cycle, \A u \in P : adj[u] \cap (P \cup {n}) # {}
      PROVE  Knots(adj, N) # {}
  <2>1. \A u \in P \cup {n}, x \in adj[n] : adj[u] \cap (P \cup {n} \cup {x}) # {}
    BY <1>5
  <2> QED BY <1>2, <1>5, <2>1 DEF Loop
<1>6. Answer(N, adj, call, found)
  <2>1. Answer(N, adj, call, found) <=>
          /\ found \in Results(N) /\ V \cup {n} \subseteq found.visited
          /\ ~found.cycle =>
               /\ \A u \in found.visited \ V : adj[u] \subseteq found.visited \ P
               /\ Knots(adj, found.visited \ V) = {}
          /\ found.cycle /\ (\A u \in P : adj[u] \cap (P \cup {n}) # {})
               => Knots(adj, N) # {}
    BY DEF Answer, n, V, P
  <2> QED BY <1>3, <1>4, <1>5, <2>1
<1> QED BY <1>6

LeftToVisit(N, call) ==
  /\ Cardinality(N \ call.visited) \in Nat \ {0}
  /\ Cardinality(N \ call.visited) <= Cardinality(N)

LEMMA SomeLeft ==
  ASSUME NEW N, IsFiniteSet(N), NEW call \in Calls(N)
  PROVE  LeftToVisit(N, call)
<1>1. N \ call.visited # {} /\ N \ call.visited \in SUBSET N
  BY DEF Calls
<1> QED BY <1>1, FS_Subset, FS_CardinalityType, FS_EmptySet DEF LeftToVisit

(* A call has fewer nodes left to visit than its caller.                    *)
LEMMA FewerLeft ==
  ASSUME NEW N, IsFiniteSet(N), NEW call \in Calls(N), NEW inner \in Calls(N),
         call.visited \cup {call.node} \subseteq inner.visited
  PROVE  /\ Cardinality(N \ inner.visited) \in Nat /\ Cardinality(N \ call.visited) \in Nat
         /\ Cardinality(N \ inner.visited) < Cardinality(N \ call.visited)
<1> DEFINE left == N \ call.visited
           inside == N \ inner.visited
<1>1. call.node \in left /\ inside \subseteq left \ {call.node}
  BY DEF Calls
<1>2. IsFiniteSet(left) /\ IsFiniteSet(inside) /\ IsFiniteSet(left \ {call.node})
  BY FS_Subset
<1> HIDE DEF left, inside
<1>3. Cardinality(left \ {call.node}) = Cardinality(left) - 1
  BY <1>1, <1>2, FS_RemoveElement
<1>4. Cardinality(inside) <= Cardinality(left \ {call.node})
  BY <1>1, <1>2, FS_Subset
<1>5. Cardinality(inside) \in Nat /\ Cardinality(left) \in Nat
  BY <1>2, FS_CardinalityType
<1>6. Cardinality(inside) < Cardinality(left)
  BY <1>2, <1>3, <1>4, <1>5, FS_CardinalityType
<1> QED BY <1>5, <1>6 DEF left, inside

(* f is a dfs as far as it has at most k nodes left to visit.               *)
Right(N, adj, f, k) ==
  \A call \in Calls(N) : Cardinality(N \ call.visited) <= k =>
     f[call] = Body(N, adj, f)[call] /\ Answer(N, adj, call, f[call])

(* One level of the recursion.                                              *)
LEMMA BodyAnswers ==
  ASSUME NEW N, IsFiniteSet(N), NEW adj \in [N -> SUBSET N], NEW f, NEW g, NEW k \in Nat,
         NEW call \in Calls(N), Cardinality(N \ call.visited) <= k + 1,
         \A inner \in Calls(N) : Cardinality(N \ inner.visited) <= k =>
            Answer(N, adj, inner, f[inner]) /\ g[inner] = f[inner]
  PROVE  /\ Body(N, adj, f)[call] = Body(N, adj, g)[call]
         /\ Answer(N, adj, call, Body(N, adj, f)[call])
<1> DEFINE path == call.path \cup {call.node}
           before == call.visited \cup {call.node}
           S == adj[call.node]
<1>1. call.node \in N /\ before \in SUBSET N /\ path \subseteq before
  BY DEF Calls
<1>2. S \in SUBSET N /\ IsFiniteSet(S)
  BY <1>1, FS_Subset
<1>3. ASSUME NEW inner \in Calls(N), before \subseteq inner.visited
      PROVE  Answer(N, adj, inner, f[inner]) /\ g[inner] = f[inner]
  <2>1. Cardinality(N \ inner.visited) <= k
    BY <1>3, FewerLeft
  <2> QED BY <2>1
<1>4. Body(N, adj, f)[call] = VisitAll(f, path, before, S)
      /\ Body(N, adj, g)[call] = VisitAll(g, path, before, S)
  BY DEF Body
<1> HIDE DEF path, before, S
<1>5. /\ VisitAll(f, path, before, S) = VisitAll(g, path, before, S)
      /\ Loop(N, adj, path, before, S, S, VisitAll(f, path, before, S))
  BY <1>1, <1>2, <1>3, LoopSame
<1>6. Answer(N, adj, call, VisitAll(f, path, before, S))
  BY <1>5, CallAnswers DEF path, before, S
<1> QED BY <1>4, <1>5, <1>6

(* There is a dfs: the one of calls with k nodes left makes the one of      *)
(* calls with k + 1.                                                        *)
LEMMA SearchExists ==
  ASSUME NEW N, IsFiniteSet(N), NEW adj \in [N -> SUBSET N]
  PROVE  \E f : f = Body(N, adj, f)
<1> DEFINE Upto == {k \in Nat : \E f : Right(N, adj, f, k)}
<1>1. \A call \in Calls(N) : LeftToVisit(N, call)
  BY SomeLeft
<1>2. 0 \in Upto
  <2>1. Right(N, adj, {}, 0)
    BY <1>1 DEF Right, LeftToVisit
  <2> QED BY <2>1
<1>3. ASSUME NEW k \in Nat, k \in Upto
      PROVE  k + 1 \in Upto
  <2>1. PICK f : Right(N, adj, f, k)
    BY <1>3
  <2> DEFINE g == Body(N, adj, f)
  <2>2. \A inner \in Calls(N) : Cardinality(N \ inner.visited) <= k =>
            Answer(N, adj, inner, f[inner]) /\ g[inner] = f[inner]
    BY <2>1 DEF Right
  <2>3. Right(N, adj, g, k + 1)
    <3> SUFFICES ASSUME NEW call \in Calls(N), Cardinality(N \ call.visited) <= k + 1
                 PROVE  g[call] = Body(N, adj, g)[call] /\ Answer(N, adj, call, g[call])
      BY DEF Right
    <3> HIDE DEF g
    <3>1. /\ Body(N, adj, f)[call] = Body(N, adj, g)[call]
          /\ Answer(N, adj, call, Body(N, adj, f)[call])
      BY <2>2, BodyAnswers
    <3> QED BY <3>1 DEF g
  <2> QED BY <2>3
<1> HIDE DEF Upto
<1>4. Cardinality(N) \in Upto
  BY <1>2, <1>3, FS_CardinalityType, Induction
<1>5. PICK f : Right(N, adj, f, Cardinality(N))
  BY <1>4 DEF Upto
<1>6. \A call \in Calls(N) : Answer(N, adj, call, f[call]) /\ f[call] = Body(N, adj, f)[call]
  BY <1>1, <1>5 DEF Right, LeftToVisit
<1> DEFINE g == Body(N, adj, f)
<1>7. ASSUME NEW call \in Calls(N)
      PROVE  Body(N, adj, f)[call] = Body(N, adj, g)[call]
  <2>1. Cardinality(N \ call.visited) <= Cardinality(N) + 1 /\ Cardinality(N) \in Nat
    BY <1>1, FS_CardinalityType DEF LeftToVisit
  <2>2. \A inner \in Calls(N) : Answer(N, adj, inner, f[inner]) /\ g[inner] = f[inner]
    BY <1>6
  <2> HIDE DEF g
  <2> QED BY <2>1, <2>2, BodyAnswers
<1>8. g = Body(N, adj, g)
  BY <1>7 DEF Body
<1> QED BY <1>8

(* Whatever dfs is, its answers are right.                                  *)
LEMMA SearchAnswers ==
  ASSUME NEW N, IsFiniteSet(N), NEW adj \in [N -> SUBSET N], NEW f, f = Body(N, adj, f)
  PROVE  \A call \in Calls(N) : Answer(N, adj, call, f[call])
<1> DEFINE Upto == {k \in Nat : \A call \in Calls(N) :
                      Cardinality(N \ call.visited) <= k => Answer(N, adj, call, f[call])}
<1>1. \A call \in Calls(N) : LeftToVisit(N, call)
  BY SomeLeft
<1>2. 0 \in Upto
  BY <1>1 DEF LeftToVisit
<1>3. ASSUME NEW k \in Nat, k \in Upto
      PROVE  k + 1 \in Upto
  <2> SUFFICES ASSUME NEW call \in Calls(N), Cardinality(N \ call.visited) <= k + 1
               PROVE  Answer(N, adj, call, f[call])
    OBVIOUS
  <2>1. Answer(N, adj, call, Body(N, adj, f)[call])
    BY <1>3, BodyAnswers
  <2> QED BY <2>1
<1> HIDE DEF Upto
<1>4. Cardinality(N) \in Upto
  BY <1>2, <1>3, FS_CardinalityType, Induction
<1> QED BY <1>1, <1>4 DEF Upto, LeftToVisit

(* The whole search finds a cycle if and only if there is one.              *)
LEMMA SearchFinds ==
  ASSUME NEW N, IsFiniteSet(N), NEW adj \in [N -> SUBSET N], NEW f, f = Body(N, adj, f)
  PROVE  VisitAll(f, {}, {}, N).cycle <=> Knots(adj, N) # {}
<1> DEFINE found == VisitAll(f, {}, {}, N)
<1>1. Loop(N, adj, {}, {}, N, N, found)
  BY SearchAnswers, LoopSame
<1> HIDE DEF found
<1>2. found.cycle => Knots(adj, N) # {}
  BY <1>1 DEF Loop
<1>3. ~found.cycle => Knots(adj, N) = {}
  <2> HAVE ~found.cycle
  <2>1. found.visited = N
    BY <1>1 DEF Loop, Results
  <2> QED BY <1>1, <2>1 DEF Loop
<1> QED BY <1>2, <1>3 DEF found

(* The search of the webhook passes a list of steps if and only if no steps *)
(* of it wait for one another, for every list that has passed validateSteps *)
(* and in whatever order the maps give the nodes to the two loops.          *)
THEOREM WebhookFindsCycles ==
  \A spec \in Specs \cup Revisions :
    validateSteps(spec.steps) => (validateDAG(spec.steps) <=> ~Cyclic(spec.steps))
<1> SUFFICES ASSUME NEW spec \in Known, validateSteps(spec.steps)
             PROVE  validateDAG(spec.steps) <=> ~Cyclic(spec.steps)
  BY DEF Known
<1> DEFINE steps == spec.steps
           N == NameSet(steps)
           adj == [node \in N |-> Neighbors(steps, node)]
<1>1. IsFiniteSet(N)
  <2>1. DOMAIN steps = 1 .. Len(steps) /\ Len(steps) \in Nat
    BY KnownShape, LenProperties DEF SpecShape
  <2>2. \A k \in Nat : IsFiniteSet(1 .. k)
    BY FS_Interval
  <2>3. IsFiniteSet(DOMAIN steps)
    BY <2>1, <2>2
  <2> DEFINE name == [i \in DOMAIN steps |-> steps[i].name]
  <2>4. name \in Surjection(DOMAIN steps, N)
    BY DEF Surjection, NameSet
  <2> QED BY <2>3, <2>4, FS_Surjection
<1>2. adj \in [N -> SUBSET N]
  BY DEF Neighbors
<1>3. Blank \notin N
  BY DEF validateSteps, NameSet
<1>4. Cyclic(steps) <=> Knots(adj, N) # {}
  <2>1. \A K \in SUBSET N : \A node \in K : adj[node] \cap K = DependenciesOf(steps, node) \cap K
    BY <1>3 DEF Neighbors
  <2> HIDE DEF adj
  <2> QED BY <2>1 DEF Cyclic, Knots
<1>5. \A f : Body(N, adj, f) =
        [call \in Calls(N) |->
           VisitAll(f, call.path \cup {call.node}, call.visited \cup {call.node},
                    Neighbors(steps, call.node))]
  <2>1. \A call \in Calls(N) : adj[call.node] = Neighbors(steps, call.node)
    BY DEF Calls
  <2> HIDE DEF adj
  <2> QED BY <2>1 DEF Body
<1>6. PICK g : g = Body(N, adj, g)
  BY <1>1, <1>2, SearchExists
<1>7. \E f : /\ f = Body(N, adj, f)
             /\ validateDAG(steps) <=> ~VisitAll(f, {}, {}, N).cycle
  <2>1. g = [call \in Calls(NameSet(steps)) |->
               VisitAll(g, call.path \cup {call.node}, call.visited \cup {call.node},
                        Neighbors(steps, call.node))]
    BY <1>5, <1>6
  <2>2. \E f :
          /\ f = [call \in Calls(NameSet(steps)) |->
                    VisitAll(f, call.path \cup {call.node}, call.visited \cup {call.node},
                             Neighbors(steps, call.node))]
          /\ validateDAG(steps) <=> ~VisitAll(f, {}, {}, NameSet(steps)).cycle
    BY <2>1 DEF validateDAG
  <2> QED BY <1>5, <2>2
<1> QED BY <1>1, <1>2, <1>4, <1>7, SearchFinds

(* The controller plans everything that was admitted: neither its own check *)
(* nor its sort, which are other code than the webhook's, refuses it,       *)
(* however the mutating webhook, updates and restarts came in between.      *)
THEOREM AdmittedSpecsArePlanned == Spec => []AdmittedIsPlannable
<1>1. PlanInv => AdmittedIsPlannable
  <2> SUFFICES ASSUME PlanInv, verdict \in {"invalid", "cycle"}, copy.admitted PROVE FALSE
    BY DEF AdmittedIsPlannable
  <2>1. /\ validateSteps(copy.spec.steps) /\ validateDAG(copy.spec.steps)
        /\ \E spec \in Known : copy.spec.steps = spec.steps
    BY DEF PlanInv, CopyInv, ValidateJobFlowEnhanced, ValidateJobFlow
  <2>2. ~Cyclic(copy.spec.steps)
    BY <2>1, WebhookFindsCycles DEF Known
  <2> QED BY <2>1, <2>2 DEF PlanInv, VerdictInv
<1> QED BY <1>1, PlanAlways, PTL
=============================================================================
