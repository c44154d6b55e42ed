----------------------------- MODULE FlowOrder -----------------------------
(***************************************************************************)
(* What a JobFlow promises about its steps, with no controller in sight: a *)
(* step is begun, perhaps more than once, only when every step it depends  *)
(* on is settled, and being settled is for ever.                           *)
(***************************************************************************)
CONSTANTS Steps, Deps

VARIABLES begun, settled

Init == begun = {} /\ settled = {}

(* A step may be settled as it is begun: a gate approved in advance, or a   *)
(* continueOnFailure step whose Job is refused.                             *)
Begin(s) ==
  /\ Deps[s] \subseteq settled
  /\ begun' = begun \cup {s}
  /\ settled' \in {settled, settled \cup {s}}

Settle(S) ==
  /\ S \subseteq begun
  /\ settled' = settled \cup S
  /\ UNCHANGED begun

Next == (\E s \in Steps : Begin(s)) \/ (\E S \in SUBSET Steps : Settle(S))

Spec == Init /\ [][Next]_<<begun, settled>>
=============================================================================
