----------------------------- MODULE Parameters -----------------------------
(***************************************************************************)
(* How the parameters of a step get into its Job                           *)
(* (pkg/controller/parameter_template.go and createJobForStep).            *)
(*                                                                         *)
(* A text is a sequence of tokens: words, and places for a parameter in    *)
(* one of four forms:                                                      *)
(*   "go"     {{.Parameters.x}}      "dot"    {{.parameters.x}}            *)
(*   "bare"   {{parameters.x}}       "shell"  ${parameters.x}              *)
(* A token of the form "raw" is a character that must be escaped in JSON,  *)
(* such as a quote: the templates of Jobs are encoded, parameters are      *)
(* pasted as they are.  A template of a Job has three texts: the commands, *)
(* arguments and variables of its containers, the rest of its spec, and    *)
(* its metadata.  Resolved parameters are a function from their names to   *)
(* texts.  Go iterates over it in any order, so that the operators that    *)
(* substitute return the set of possible results.                          *)
(***************************************************************************)
EXTENDS Integers, SequencesExt

CONSTANT Identifiers   \* the parameter names that can be a field of a template

Token(form, name) == [form |-> form, name |-> name]
Word(name)  == Token("word", name)
NoValue     == Word("<no value>")
PlaceForms  == {"go", "dot", "bare", "shell"}
Tokens(job) == UNION {Range(job[part]) : part \in DOMAIN job}
IsJSON(job) == \A token \in Tokens(job) : token.form # "raw"

Paste(text, old, new) ==
  FlattenSeq([i \in DOMAIN text |-> IF text[i] = old THEN new ELSE <<text[i]>>])

(* One parameter after the other, and for each one form after the other: a  *)
(* place in a value that was just pasted is found by what comes later.      *)
PasteForms(text, name, value) ==
  LET dot  == Paste(text, Token("dot", name), value)
      bare == Paste(dot, Token("bare", name), value)
  IN  Paste(bare, Token("shell", name), value)

substituteParameter(text, params, order) ==
  LET pasted[k \in 0 .. Len(order)] ==
        IF k = 0 THEN text
        ELSE PasteForms(pasted[k - 1], order[k], params[order[k]])
  IN  pasted[Len(order)]

Orders(params) == SetToSeqs(DOMAIN params)

applyParametersToContainerArgs(job, params) ==
  {[job EXCEPT !.args = substituteParameter(@, params, order)] : order \in Orders(params)}

(* The fallback: every text of the Job, of which the spec is kept.  The     *)
(* empty set stands for an error.                                           *)
applyParametersToString(job, params) ==
  UNION {LET pasted == [part \in DOMAIN job |->
                          substituteParameter(job[part], params, order)]
         IN  IF IsJSON(pasted) THEN {{[pasted EXCEPT !.meta = job.meta]}} ELSE {{}} :
           order \in Orders(params)}

(* text/template knows no function "parameters" and no field "parameters",  *)
(* and a name with a dash or a dot is no field: one such place and the      *)
(* template of the whole spec fails.  A name without a value is printed.    *)
TemplateRuns(job) ==
  \A token \in Range(job.args) \cup Range(job.rest) :
    /\ token.form \notin {"dot", "bare"}
    /\ token.form = "go" => token.name \in Identifiers

Execute(text, params) ==
  FlattenSeq([i \in DOMAIN text |->
    IF text[i].form # "go" THEN <<text[i]>>
    ELSE IF text[i].name \in DOMAIN params THEN params[text[i].name]
    ELSE <<NoValue>>])

applyParametersToJobTemplate(job, params) ==
  LET executed == [job EXCEPT !.args = Execute(@, params), !.rest = Execute(@, params)]
  IN  IF TemplateRuns(job) /\ IsJSON(executed) THEN {{executed}}
      ELSE applyParametersToString(job, params)

(* In createJobForStep: on an error the Job is made of the template as it   *)
(* was written.                                                             *)
WithoutArgs(job, params) ==                                             \* wrong
  UNION {IF applied = {} THEN {job} ELSE applied :
           applied \in applyParametersToJobTemplate(job, params)}

Substituted(job, params) ==
  IF params = <<>> THEN {job}
  ELSE UNION {IF applied = {} THEN {job}
              ELSE UNION {applyParametersToContainerArgs(x, params) : x \in applied} :
                applied \in applyParametersToJobTemplate(job, params)}
=============================================================================
