----------------------------- MODULE Reputation -----------------------------
(***************************************************************************)
(* The reputation of validators on the governance DHT: the reputation      *)
(* service calls update_validator_reputation once per finished validation. *)
(***************************************************************************)
EXTENDS ReputationRules

CONSTANTS
    Coordinator,   \* the agents validate() accepts as authors
    MaxUpdates     \* bound: updates of one validator

ASSUME CoordinatorAssumption ==
    /\ IsFiniteSet(Coordinator)
    /\ MaxUpdates \in Nat

VARIABLES
    reputations,   \* published ValidatorReputation records
    validations,   \* updates made so far, per validator
    successes      \* those of them for a successful validation

vars == <<reputations, validations, successes>>

Reputations ==
    [by : Coordinator, of : Validator, total : Nat, successful : Nat,
     tier : Tiers, n : Nat]

TypeOK ==
    /\ reputations \subseteq Reputations
    /\ validations \in [Validator -> Nat]
    /\ successes \in [Validator -> Nat]

Init ==
    /\ reputations = {}
    /\ validations = [v \in Validator |-> 0]
    /\ successes = [v \in Validator |-> 0]

\* The caller states the kind of validator.
KindOf(v) == IF v \in Automated THEN "AI" ELSE "Human"

UpdateValidatorReputation(a, v, success, granted) ==
    /\ validations[v] < MaxUpdates
    /\ \E added \in Updates(a, v, KindOf(v), success, granted, reputations) :
          reputations' = reputations \cup added
    /\ validations' = [validations EXCEPT ![v] = @ + 1]
    /\ successes' = [successes EXCEPT ![v] = @ + success]

\* The service starts an AI validator at the tier its certificate grants.
Next ==
    \E a \in Coordinator, v \in Validator, success \in {0, 1},
       granted \in {"Provisional", "Certified"} :
        UpdateValidatorReputation(a, v, success, granted)

Spec == Init /\ [][Next]_vars
-----------------------------------------------------------------------------
(***************************************************************************)
(* No validator is credited with work it did not do: however stale the     *)
(* records an update builds on, no reputation record counts more           *)
(* validations, or more successes, than were reported, nor names a tier    *)
(* that many validations do not earn (_update_reputation_internal).        *)
(***************************************************************************)
NeverOvercounted ==
    \A x \in reputations : x.of \notin Automated =>
        /\ x.total <= validations[x.of]
        /\ x.successful <= successes[x.of]
        /\ x.tier # "Provisional" => validations[x.of] >= 3

(***************************************************************************)
(* An AI validator's reputation is frozen: a coordinator that has given it *)
(* a record never gives it another, whatever it is told of its work.       *)
(***************************************************************************)
AutomatedIsFrozen ==
    [][\A a \in Coordinator, v \in Automated :
          By(Of(reputations, v), a) # {} =>
             By(Of(reputations', v), a) = By(Of(reputations, v), a)]_vars

(***************************************************************************)
(* Whoever sees every record reads the one with the highest count (the     *)
(* header of get_validator_reputation).  The tag a human validator's link  *)
(* carries is too short to be counted.                                     *)
(***************************************************************************)
HighestCountRead ==
    \A v \in Validator :
        \A x \in Preferred(Of(reputations, v)), y \in Of(reputations, v) :
            y.total <= x.total
=============================================================================
