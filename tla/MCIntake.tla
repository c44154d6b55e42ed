------------------------------ MODULE MCIntake ------------------------------
(* Small families of specs for TLC.                                         *)
EXTENDS Intake

CONSTANTS a, b, c

Container ==
  [name |-> a, image |-> b, requests |-> [cpu |-> 1], limits |-> [cpu |-> 1]]
Template ==
  [containers |-> {Container}, backoffLimit |-> {}, activeDeadlineSeconds |-> {}]

Step(name, dependencies) ==
  [name |-> name, dependencies |-> dependencies, timeoutSeconds |-> {},
   retryPolicy |-> {}, type |-> "", template |-> {Template}, when |-> {},
   inputs |-> {}, outputs |-> {}]
Plain(steps) == [steps |-> steps, executionPolicy |-> {}, resourceTemplates |-> {}]
One(step)    == Plain(<<step>>)

(* Every graph on three steps.                                              *)
AllGraphs ==
  {Plain(<<Step(a, f[a]), Step(b, f[b]), Step(c, f[c])>>) :
     f \in [{a, b, c} -> SUBSET {a, b, c}]}

(* Empty, duplicate, blank and malformed names, unknown and blank           *)
(* dependencies.                                                            *)
OddSpecs ==
  {Plain(<<>>), One(Step(Malformed, {}))} \cup
  {Plain(<<Step(m, D), Step(n, E)>>) :
     m, n \in {a, b, Blank}, D, E \in {{}, {a}, {b}, {c}, {Blank}}}

Rule == [action |-> "FailJob", onExitCodes |-> {[operator |-> "In", values |-> {1}]}]

(* Every execution policy over values on both sides of each boundary.       *)
Policies ==
  [concurrencyPolicy : {"", "Sometimes"},
   ttlSecondsAfterFinished : {{}, {-1}, {0}},
   backoffLimit : {{}, {-1}, {0}},
   activeDeadlineSeconds : {{}, {0}, {1}},
   podFailurePolicy : {{}}]
PolicySpecs ==
  {[One(Step(a, {})) EXCEPT !.executionPolicy = {policy}] : policy \in Policies}

(* Pod failure policies: no rule, and one that is off in each of its parts. *)
Rules ==
  {[Rule EXCEPT !.action = action] : action \in {"Count", "Retry"}} \cup
  {[Rule EXCEPT !.onExitCodes = codes] :
     codes \in {{}} \cup {{[operator |-> operator, values |-> values]} :
       operator \in {"NotIn", "Among"}, values \in {{}, {0, 255}, {256}, {-1}}}}
RuleSpecs ==
  {[One(Step(a, {})) EXCEPT !.executionPolicy =
      {[concurrencyPolicy |-> "", ttlSecondsAfterFinished |-> {}, backoffLimit |-> {},
        activeDeadlineSeconds |-> {}, podFailurePolicy |-> {rules}]}] :
     rules \in {<<>>} \cup {<<Rule, rule>> : rule \in Rules}}

Backoffs ==
  [type : {"Linear", "Random"}, duration : {{}, {0}, {1}, {3}},
   factor : {{}, {0}, {1}}]
RetrySpecs ==
  {One([Step(a, {}) EXCEPT !.retryPolicy = {[limit |-> limit, backoff |-> backoff]}]) :
     limit \in {-1, 1}, backoff \in {{}} \cup {{x} : x \in Backoffs}} \cup
  {One([Step(a, {}) EXCEPT !.timeoutSeconds = {seconds}]) : seconds \in {-1, 2, 3}} \cup
  {One([Step(a, {}) EXCEPT !.when = {[open |-> open, close |-> close]}]) :
     open, close \in {0, 1}}

(* Every type of step with every template.                                  *)
Templates ==
  {{}, {Undecodable}, {Template}} \cup
  {{[Template EXCEPT !.containers = containers]} :
     containers \in {{}, {[Container EXCEPT !.name = Blank]},
       {Container, [Container EXCEPT !.image = Blank]},
       {[Container EXCEPT !.requests = [cpu |-> 2]]},
       {[Container EXCEPT !.requests = [memory |-> 2]]},
       {[Container EXCEPT !.limits = [cpu |-> 0]]}}} \cup
  {{[Template EXCEPT !.backoffLimit = {limit}, !.activeDeadlineSeconds = {seconds}]} :
     limit \in {-1, 0}, seconds \in {0, 1}}
TemplateSpecs ==
  {One([Step(a, {}) EXCEPT !.type = type, !.template = template]) :
     type \in {"", "Job", "Manual"}, template \in Templates}

Claims ==
  [name : {a, Blank}, accessModes : {{}, {"ReadWriteOnce"}},
   requests : {<<>>, [storage |-> 0], [storage |-> 1]}]
ResourceSpecs ==
  {[One(Step(a, {})) EXCEPT !.resourceTemplates =
      {[volumeClaims |-> claims, configMaps |-> maps]}] :
     claims \in {{}} \cup {{claim} : claim \in Claims}, maps \in {{}, {a}, {a, Blank}}}

(* Parameters and artifacts of a step, each kind of source on its own, none *)
(* and two of them.                                                         *)
Refs  == {{}} \cup {{ref} : ref \in [name : {b, Blank}, key : {c, Blank}]}
Paths == {{}} \cup {{path} : path \in [prefix : {{}, {a}, {Malformed}}, rooted : BOOLEAN]}
Froms ==
  {[configMapKeyRef |-> map, secretKeyRef |-> secret, jsonPath |-> path] :
     map, secret \in {{}, {[name |-> b, key |-> c]}},
     path \in {{}, {[prefix |-> {}, rooted |-> TRUE]}}} \cup
  {[configMapKeyRef |-> map, secretKeyRef |-> {}, jsonPath |-> {}] : map \in Refs} \cup
  {[configMapKeyRef |-> {}, secretKeyRef |-> secret, jsonPath |-> {}] : secret \in Refs} \cup
  {[configMapKeyRef |-> {}, secretKeyRef |-> {}, jsonPath |-> path] : path \in Paths}
ParameterInputs ==
  {[name |-> name, value |-> value, valueFrom |-> from] :
     name \in {a, Malformed}, value \in {{}, {b}},
     from \in {{}, {[configMapKeyRef |-> {}, secretKeyRef |-> {},
                    jsonPath |-> {[prefix |-> {a}, rooted |-> TRUE]}]}}} \cup
  {[name |-> a, value |-> {}, valueFrom |-> {from}] : from \in Froms}
ArtifactInputs ==
  {[name |-> a, path |-> {}, from |-> from, http |-> http] :
     from \in {<<>>, <<b>>, <<b, a>>, <<b, a, a>>, <<Malformed, a>>},
     http \in {{}, {"http"}, {"ftp"}}} \cup
  {[name |-> name, path |-> path, from |-> <<b, a>>, http |-> {}] :
     name \in {a, Blank}, path \in {{"absolute"}, {"relative"}}}
ArtifactOutputs ==
  {[name |-> name, path |-> path, archive |-> {}] :
     name \in {a, Malformed}, path \in {{}, {"absolute"}, {"dotdot"}}} \cup
  {[name |-> a, path |-> {"absolute"}, archive |-> {archive}] :
     archive \in [format : {{}, {"tar"}, {"rar"}}, compression : {{}, {"gzip"}, {"xz"}}]}

Data(parameters, artifacts) == {[parameters |-> parameters, artifacts |-> artifacts]}
DataSpecs ==
  {One([Step(a, {}) EXCEPT !.inputs = Data(<<param>>, <<>>)]) : param \in ParameterInputs} \cup
  {One([Step(a, {}) EXCEPT !.inputs = Data(<<>>, <<artifact>>)]) : artifact \in ArtifactInputs} \cup
  {One([Step(a, {}) EXCEPT !.outputs = Data(<<>>, <<artifact>>)]) : artifact \in ArtifactOutputs} \cup
  {One([Step(a, {}) EXCEPT !.outputs = Data(<<[name |-> name, jsonPath |-> path]>>, <<>>)]) :
     name \in {a, Blank}, path \in Paths}

Created ==
  AllGraphs \cup OddSpecs \cup PolicySpecs \cup RuleSpecs \cup RetrySpecs \cup
  TemplateSpecs \cup ResourceSpecs \cup DataSpecs
Revised == {Plain(<<Step(a, {}), Step(b, {a}), Step(c, {a, b})>>),
            Plain(<<Step(a, {b}), Step(b, {})>>),
            Plain(<<Step(a, {b}), Step(b, {c}), Step(c, {a})>>)}
=============================================================================
