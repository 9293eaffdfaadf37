------------------------------ MODULE Outcome ------------------------------
(***************************************************************************)
(* The pure functions that turn a set of attestations into a verdict: the  *)
(* outcome, the agreement level and the badge of a HarmonyRecord, and the  *)
(* bound the governance integrity zome puts on the badge.                  *)
(*                                                                         *)
(* Attestations enter as a tally, the number of attestations per outcome.  *)
(* The rates the code compares as f64 are compared as integers: for fewer  *)
(* than 256 attestations both comparisons agree, the literals 0.90, 0.70   *)
(* and 0.50 being the doubles nearest to those quotients.                  *)
(***************************************************************************)
EXTENDS Naturals

Outcomes == {"Reproduced", "PartiallyReproduced", "FailedToReproduce",
             "UnableToAssess"}

Agreements == {"ExactMatch", "WithinTolerance", "DirectionalMatch",
               "Divergent", "UnableToAssess"}

Badges == {"Gold", "Silver", "Bronze", "Failed"}

NoBadge == "NoBadge"

\* The number of attestations in tally t.
Total(t) == t["Reproduced"] + t["PartiallyReproduced"]
              + t["FailedToReproduce"] + t["UnableToAssess"]

\* The number that reproduced the result, fully or partially.
Successes(t) == t["Reproduced"] + t["PartiallyReproduced"]

MostFrequent(t, o) == \A p \in Outcomes : t[p] <= t[o]
-----------------------------------------------------------------------------
(***************************************************************************)
(* Faulty variants of operators below, no part of the model: what the code *)
(* would be with a check lost or a limit moved.  Each must break the       *)
(* property it is named for in PROJECT.json.                               *)
(***************************************************************************)

\* The tie-break of derive_majority_outcome in another order.
FailureFirst(t) ==
    IF MostFrequent(t, "FailedToReproduce") THEN "FailedToReproduce"
    ELSE CHOOSE o \in Outcomes : MostFrequent(t, o)

\* derive_agreement_level with a 70% rate that forgets the full reproductions.
LevelWithoutFull(t) ==
    IF 10 * t["Reproduced"] >= 9 * Total(t) THEN "ExactMatch"
    ELSE IF 10 * t["PartiallyReproduced"] >= 7 * Total(t) THEN "WithinTolerance"
    ELSE "Divergent"

\* derive_agreement_level that counts every attestation but failures as success.
LevelCountingUnable(t) ==
    LET successes == Total(t) - t["FailedToReproduce"]
    IN  IF 10 * t["Reproduced"] >= 9 * Total(t) THEN "ExactMatch"
        ELSE IF 10 * successes >= 7 * Total(t) THEN "WithinTolerance"
        ELSE IF 2 * successes >= Total(t) THEN "DirectionalMatch"
        ELSE "Divergent"

\* badge_ceiling with the Gold threshold off by one.
CeilingFromSix(agreement, n) ==
    CASE agreement = "ExactMatch" /\ n >= 6 -> "Gold"
      [] agreement = "ExactMatch" /\ n = 5  -> "Silver"
      [] agreement = "WithinTolerance" /\ n >= 5 -> "Silver"
      [] agreement \in {"Divergent", "UnableToAssess"} /\ n >= 3 -> "Failed"
      [] agreement \in {"ExactMatch", "WithinTolerance"} /\ n \in {3, 4} -> "Bronze"
      [] agreement = "DirectionalMatch" /\ n >= 3 -> "Bronze"
      [] OTHER -> NoBadge
-----------------------------------------------------------------------------
DeriveMajorityOutcome(t) ==
    IF MostFrequent(t, "Reproduced") THEN "Reproduced"
    ELSE IF MostFrequent(t, "PartiallyReproduced") THEN "PartiallyReproduced"
    ELSE IF MostFrequent(t, "FailedToReproduce") THEN "FailedToReproduce"
    ELSE "UnableToAssess"

DeriveAgreementLevel(t) ==
    IF Total(t) = 0 THEN "UnableToAssess"
    ELSE IF 10 * t["Reproduced"] >= 9 * Total(t) THEN "ExactMatch"
    ELSE IF 10 * Successes(t) >= 7 * Total(t) THEN "WithinTolerance"
    ELSE IF 2 * Successes(t) >= Total(t) THEN "DirectionalMatch"
    ELSE IF Successes(t) > 0 THEN "Divergent"
    ELSE "UnableToAssess"

\* The badge the coordinator issues (shared_types).
EvaluateBadge(agreement, n) ==
    IF agreement = "ExactMatch" /\ n >= 7 THEN "Gold"
    ELSE IF agreement \in {"ExactMatch", "WithinTolerance"} /\ n >= 5
         THEN "Silver"
    ELSE IF /\ agreement \in {"ExactMatch", "WithinTolerance", "DirectionalMatch"}
            /\ n >= 3
         THEN "Bronze"
    ELSE IF agreement \in {"Divergent", "UnableToAssess"} /\ n >= 3
         THEN "Failed"
    ELSE NoBadge

\* The bound peers compute for themselves: a second copy of the same arms
\* (governance_integrity).
BadgeCeiling(agreement, n) ==
    IF agreement = "ExactMatch" /\ n >= 7 THEN "Gold"
    ELSE IF agreement \in {"ExactMatch", "WithinTolerance"} /\ n >= 5
         THEN "Silver"
    ELSE IF /\ agreement \in {"ExactMatch", "WithinTolerance", "DirectionalMatch"}
            /\ n >= 3
         THEN "Bronze"
    ELSE IF agreement \in {"Divergent", "UnableToAssess"} /\ n >= 3
         THEN "Failed"
    ELSE NoBadge

\* badge_tier_rank; badge_is_reproduced is a rank above 0.
BadgeRank(badge) ==
    CASE badge = "Gold" -> 3 [] badge = "Silver" -> 2
      [] badge = "Bronze" -> 1 [] badge = "Failed" -> 0

\* Peers accept a badge that is on the ceiling's track and not above it.
AcceptableBadge(badge, agreement, n) ==
    LET ceiling == BadgeCeiling(agreement, n)
    IN  /\ ceiling # NoBadge
        /\ (BadgeRank(badge) > 0) <=> (BadgeRank(ceiling) > 0)
        /\ BadgeRank(badge) <= BadgeRank(ceiling)
=============================================================================
