----------------------------- MODULE MCStepData -----------------------------
(* Small families of flows for TLC.                                         *)
EXTENDS StepData

p == "producer"
c == "consumer"

Plain == [args |-> <<Word("run")>>, rest |-> <<>>, meta |-> <<>>]
Base(deps) ==
  [deps |-> deps, continueOnFailure |-> {}, parameters |-> [s \in DOMAIN deps |-> <<>>],
   template |-> [s \in DOMAIN deps |-> Plain], resources |-> <<>>, objects |-> {}]
Single  == Base(c :> {})
Pair    == Base((p :> {}) @@ (c :> {p}))
Lenient == [Pair EXCEPT !.continueOnFailure = {p}]
Loose   == Base((p :> {}) @@ (c :> {}))

(* Parameters.                                                              *)
x == "x"
y == "y"
dashed == "my-param"
Settings == <<"settings">>
Entry(kind, key, value) == [name |-> Settings, kind |-> kind, key |-> key, value |-> value]
Objects == {Entry("data", <<"k">>, <<Word("v1")>>), Entry("binary", <<"b">>, <<Word("v2")>>),
            Entry("secret", <<"s">>, <<Word("v3"), Token("raw", "quote")>>)}
Value(name, text) == [name |-> name, value |-> {text}, valueFrom |-> {}]
From(name, maps, secrets, paths) ==
  [name |-> name, value |-> {},
   valueFrom |-> {[configMapKeyRef |-> maps, secretKeyRef |-> secrets, jsonPath |-> paths]}]
Ref(key) == {[name |-> Settings, key |-> <<key>>]}
Template(form, name1, name2) ==
  [args |-> <<Word("run"), Token(form, name1)>>, meta |-> <<Token("shell", y)>>,
   rest |-> IF form = "shell" THEN <<>> ELSE <<Token(form, name2)>>]
With(flow0, params, template) ==
  [flow0 EXCEPT !.parameters[c] = params, !.template[c] = template,
                !.objects = Objects]

ParameterFlows ==
  {With(Single, <<Value(x, <<Word("v0")>>), second>>, template) :
     second \in {From(y, Ref("k"), {}, {}), From(y, Ref("b"), {}, {}), From(y, {}, Ref("s"), {}),
                 From(dashed, Ref("k"), {}, {}), Value(y, <<Token("shell", x)>>)},
     template \in {Template(form, x, y) : form \in PlaceForms} \cup
                  {Template("go", x, dashed), Template("dot", dashed, x),
                   [Template("go", x, y) EXCEPT !.rest = <<Token("bare", y)>>]}} \cup
  {With(flow0, <<From(x, {}, {}, {[prefix |-> prefix, field |-> field]})>>,
        Template("dot", x, x)) :
     flow0 \in {Pair, Lenient, Loose}, prefix \in {{}, {p}},
     field \in {"active", "succeeded", "failed"}}

(* Resources: a volume, a ConfigMap that is new, one that is there already, *)
(* and one with the name of a Secret.                                       *)
Config(name) == [name |-> name, kind |-> "data", key |-> <<"k">>, value |-> <<>>]
ResourceFlows ==
  {[Pair EXCEPT !.objects = Objects \cup {[Entry("secret", <<"s">>, <<>>) EXCEPT !.name = <<"key">>]},
                !.resources = <<[name |-> <<"data">>, kind |-> "claim"], Config(<<"config">>),
                                Config(Settings), Config(<<"key">>)>>]}

MCFlows == ParameterFlows \cup ResourceFlows
MCEdits == {Entry("data", <<"k">>, <<Word("v4")>>)}
=============================================================================
