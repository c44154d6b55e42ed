----------------------------- MODULE MCJobFlow -----------------------------
(* Small flows and environments for TLC.                                    *)
EXTENDS JobFlowProperties

CONSTANTS a, b, c

(* spec.steps[*].dependencies                                               *)
Chain  == [s \in Steps |-> CASE s = b -> {a} [] s = c -> {b} [] OTHER -> {}]
Join   == [s \in Steps |-> IF s = c THEN {a, b} ELSE {}]
Apart  == [s \in Steps |-> IF s = c THEN {b} ELSE {}]
Cycle  == [s \in Steps |-> CASE s = b -> {c} [] s = c -> {b} [] OTHER -> {}]

(* spec.steps[*].when                                                       *)
Always     == [s \in Steps |-> [asks |-> "Always", of |-> s]]
IfAFails   == [s \in Steps |-> [asks |-> IF s = c THEN "Failed" ELSE "Always",
                                of |-> a]]

(* Policies.                                                                *)
NoDeadline == Unset
Zeros  == [s \in Steps |-> 0]
Ones   == [s \in Steps |-> 1]
AtOnce    == [s \in Steps |-> [type |-> "Fixed", base |-> 0, factor |-> 0]]
Doubling  == [s \in Steps |-> [type |-> "Exponential", base |-> 1, factor |-> 2]]
Never  == [s \in Steps |-> Unset]
ShortForA == [s \in Steps |-> IF s = a THEN 0 ELSE Unset]

(* Whether an edit may break the spec.                                      *)
Accepted == {TRUE}
Edited   == {TRUE, FALSE}

(* The schema the markers of types.go describe, and the installed one of    *)
(* deploy/crds, whose enum of a condition's status has the booleans true    *)
(* and false where the controller writes the strings "True" and "False".    *)
MarkedSchema == [flowPhases |-> FlowPhases, stepPhases |-> StepPhases,
                 conditions |-> TRUE]
DeployedSchema == [flowPhases |-> FlowPhases \ {"Paused"},
                   stepPhases |-> StepPhases \ {"PendingApproval"},
                   conditions |-> FALSE]

(* Bounds on the disturbances.                                              *)
NoDisturbance == [k \in Disturbances |-> 0]
One(kinds) == [k \in Disturbances |-> IF k \in kinds THEN 1 ELSE 0]
OneEdit     == One({"edit"})
OneRefusal  == One({"refusal"})
OneOfBoth   == One({"edit", "refusal"})
EditAndError == One({"edit", "apiError"})
Faults      == One({"crash", "apiError", "jobDeletion"})
AllFaults   == One(Disturbances)
=============================================================================
