----------------------------- MODULE VoteCount -----------------------------
(***************************************************************************)
(* The verdict of a study as its attestations are counted one by one: what *)
(* each further attestation may do to the outcome, the agreement level and *)
(* the badge.                                                              *)
(***************************************************************************)
EXTENDS Outcome

CONSTANT MaxAttestations   \* bound: attestations counted

ASSUME MaxAttestationsAssumption == MaxAttestations \in Nat

VARIABLE tally   \* attestations counted, per outcome

TallyTypeOK == tally \in [Outcomes -> Nat]

Init == tally = [o \in Outcomes |-> 0]

Count(o) ==
    /\ Total(tally) < MaxAttestations
    /\ tally' = [tally EXCEPT ![o] = @ + 1]

Next == \E o \in Outcomes : Count(o)

Spec == Init /\ [][Next]_tally
-----------------------------------------------------------------------------
Level == DeriveAgreementLevel(tally)

\* The agreement levels from the worst to the best.
LevelRank(level) ==
    CASE level = "ExactMatch" -> 4 [] level = "WithinTolerance" -> 3
      [] level = "DirectionalMatch" -> 2 [] level = "Divergent" -> 1
      [] level = "UnableToAssess" -> 0

\* The outcomes from the least to the most positive.
Positivity(o) ==
    CASE o = "Reproduced" -> 3 [] o = "PartiallyReproduced" -> 2
      [] o = "FailedToReproduce" -> 1 [] o = "UnableToAssess" -> 0

(***************************************************************************)
(* The outcome is the most common answer, and a tie goes to the more       *)
(* positive one (docs/10_Harmony_Records.md on Outcome;                    *)
(* derive_majority_outcome).                                               *)
(***************************************************************************)
PluralityWins ==
    LET won == DeriveMajorityOutcome(tally)
    IN  \A o \in Outcomes :
            /\ tally[o] <= tally[won]
            /\ Positivity(o) > Positivity(won) => tally[o] < tally[won]

(***************************************************************************)
(* Coordinator and peers agree on badges: whatever was attested, the badge *)
(* the coordinator issues passes the check of the integrity zome, no       *)
(* higher one of its track does, and when it issues none peers accept none *)
(* (evaluate_badge, badge_ceiling and badge_tier_rank are three copies of  *)
(* one table in two crates).                                               *)
(***************************************************************************)
CoordinatorAndPeersAgree ==
    LET badge == EvaluateBadge(Level, Total(tally))
        Accepted(b) == AcceptableBadge(b, Level, Total(tally))
    IN  /\ badge = NoBadge => \A b \in Badges : ~ Accepted(b)
        /\ badge # NoBadge =>
              /\ Accepted(badge)
              /\ \A b \in Badges : Accepted(b) => BadgeRank(b) <= BadgeRank(badge)

(***************************************************************************)
(* A reproduction never counts against the study: one more validator that  *)
(* reproduced the result in full lowers neither the agreement level nor a  *)
(* badge already earned, though it changes both terms of every rate.       *)
(***************************************************************************)
ReproductionNeverHurts ==
    [][tally'["Reproduced"] > tally["Reproduced"] =>
          LET before == EvaluateBadge(Level, Total(tally))
              after  == EvaluateBadge(Level', Total(tally'))
          IN  /\ LevelRank(Level') >= LevelRank(Level)
              /\ before # NoBadge =>
                    after # NoBadge /\ BadgeRank(after) >= BadgeRank(before)]_tally

(***************************************************************************)
(* A failure never raises the agreement level.  (It may still raise the    *)
(* badge: a fifth validator that fails turns four reproductions' Bronze    *)
(* into Silver, because the badge also counts heads.)                      *)
(***************************************************************************)
FailureNeverHelps ==
    [][Successes(tally') = Successes(tally) /\ Total(tally) > 0 =>
          LevelRank(Level') <= LevelRank(Level)]_tally
=============================================================================
