-------------------------- MODULE VoteCount_proofs --------------------------
(***************************************************************************)
(* Proofs of the properties of VoteCount, for any number of attestations.  *)
(***************************************************************************)
EXTENDS VoteCount, TLAPS

\* Every tally counts each outcome by a natural number.
LEMMA TallyTypeCorrect == Spec => []TallyTypeOK
<1>1. Init => TallyTypeOK
  BY DEF Init, TallyTypeOK
<1>2. TallyTypeOK /\ [Next]_tally => TallyTypeOK'
  BY DEF TallyTypeOK, Next, Count
<1>3. QED
  BY <1>1, <1>2, PTL DEF Spec

(***************************************************************************)
(* The outcome is the most common answer, ties to the more positive one    *)
(* (derive_majority_outcome), for every tally.                             *)
(***************************************************************************)
THEOREM PluralityAlwaysWins == Spec => []PluralityWins
<1>1. TallyTypeOK => PluralityWins
  BY DEF TallyTypeOK, PluralityWins, DeriveMajorityOutcome, MostFrequent,
         Positivity, Outcomes
<1>2. QED
  BY <1>1, TallyTypeCorrect, PTL

(***************************************************************************)
(* Whatever was attested, the coordinator's badge is the best of its track *)
(* that peers accept, and without one they accept none.                    *)
(***************************************************************************)
THEOREM BadgeCopiesAgree == Spec => []CoordinatorAndPeersAgree
<1>1. ASSUME TallyTypeOK  PROVE CoordinatorAndPeersAgree
  <2>1. /\ Total(tally) \in Nat
        /\ Level \in Agreements
    BY <1>1 DEF TallyTypeOK, Outcomes, Total, Level, DeriveAgreementLevel, Agreements
  <2>2. ASSUME NEW level \in Agreements, NEW n \in Nat
        PROVE  LET badge == EvaluateBadge(level, n)
                   Accepted(b) == AcceptableBadge(b, level, n)
               IN  /\ badge = NoBadge => \A b \in Badges : ~ Accepted(b)
                   /\ badge # NoBadge =>
                         /\ Accepted(badge)
                         /\ \A b \in Badges :
                               Accepted(b) => BadgeRank(b) <= BadgeRank(badge)
    BY DEF Agreements, Badges, NoBadge, EvaluateBadge, BadgeCeiling, BadgeRank,
           AcceptableBadge
  <2>3. QED
    BY <2>1, <2>2 DEF CoordinatorAndPeersAgree
<1>2. QED
  BY <1>1, TallyTypeCorrect, PTL

\* What one more attestation with outcome o does to a tally t.
LEMMA CountedOnce ==
    ASSUME NEW t \in [Outcomes -> Nat], NEW o \in Outcomes,
           NEW u, u = [t EXCEPT ![o] = @ + 1]
    PROVE  /\ u \in [Outcomes -> Nat]
           /\ \A p \in Outcomes : u[p] = IF p = o THEN t[p] + 1 ELSE t[p]
           /\ Total(u) = Total(t) + 1
           /\ Total(t) \in Nat /\ Total(u) \in Nat
BY DEF Outcomes, Total

\* A full reproduction does not lower the agreement level.
LEMMA ReproductionRaisesLevel ==
    ASSUME NEW t \in [Outcomes -> Nat],
           NEW u, u = [t EXCEPT !["Reproduced"] = @ + 1]
    PROVE  LevelRank(DeriveAgreementLevel(u)) >= LevelRank(DeriveAgreementLevel(t))
<1>1. /\ u \in [Outcomes -> Nat]
      /\ u["Reproduced"] = t["Reproduced"] + 1
      /\ u["PartiallyReproduced"] = t["PartiallyReproduced"]
      /\ u["FailedToReproduce"] = t["FailedToReproduce"]
      /\ u["UnableToAssess"] = t["UnableToAssess"]
  BY DEF Outcomes
<1>2. \A p \in Outcomes : t[p] \in Nat
  OBVIOUS
<1>3. QED
  BY <1>1, <1>2 DEF LevelRank, DeriveAgreementLevel, Total, Successes, Outcomes

(***************************************************************************)
(* One more full reproduction never lowers the agreement level, nor takes  *)
(* away or lowers a badge, for every tally.                                *)
(***************************************************************************)
THEOREM ReproductionCountsFor == Spec => ReproductionNeverHurts
<1>1. ASSUME TallyTypeOK, NEW o \in Outcomes, Count(o),
             tally'["Reproduced"] > tally["Reproduced"]
      PROVE  LET before == EvaluateBadge(Level, Total(tally))
                 after  == EvaluateBadge(Level', Total(tally'))
             IN  /\ LevelRank(Level') >= LevelRank(Level)
                 /\ before # NoBadge =>
                       after # NoBadge /\ BadgeRank(after) >= BadgeRank(before)
  <2>1. o = "Reproduced"
    BY <1>1, CountedOnce DEF Count, TallyTypeOK, Outcomes
  <2>2. /\ LevelRank(Level') >= LevelRank(Level)
        /\ Total(tally') = Total(tally) + 1
        /\ Total(tally) \in Nat
    BY <1>1, <2>1, CountedOnce, ReproductionRaisesLevel
       DEF Count, TallyTypeOK, Level
  <2>3. Level \in Agreements /\ Level' \in Agreements
    BY DEF Level, DeriveAgreementLevel, Agreements
  <2>4. ASSUME NEW l \in Agreements, NEW k \in Agreements, NEW n \in Nat,
               LevelRank(k) >= LevelRank(l), EvaluateBadge(l, n) # NoBadge
        PROVE  /\ EvaluateBadge(k, n + 1) # NoBadge
               /\ BadgeRank(EvaluateBadge(k, n + 1)) >= BadgeRank(EvaluateBadge(l, n))
    BY <2>4 DEF Agreements, EvaluateBadge, BadgeRank, NoBadge, LevelRank
  <2>5. QED
    BY <2>2, <2>3, <2>4
<1>2. TallyTypeOK /\ [Next]_tally =>
        [tally'["Reproduced"] > tally["Reproduced"] =>
          LET before == EvaluateBadge(Level, Total(tally))
              after  == EvaluateBadge(Level', Total(tally'))
          IN  /\ LevelRank(Level') >= LevelRank(Level)
              /\ before # NoBadge =>
                    after # NoBadge /\ BadgeRank(after) >= BadgeRank(before)]_tally
  BY <1>1 DEF Next
<1>3. QED
  BY <1>2, TallyTypeCorrect, PTL DEF Spec, ReproductionNeverHurts

(***************************************************************************)
(* An attestation that is no success never raises the agreement level, for *)
(* every tally.                                                            *)
(***************************************************************************)
THEOREM FailureCountsAgainst == Spec => FailureNeverHelps
<1>1. ASSUME TallyTypeOK, NEW o \in Outcomes, Count(o),
             Successes(tally') = Successes(tally), Total(tally) > 0
      PROVE  LevelRank(Level') <= LevelRank(Level)
  <2>0. /\ tally' \in [Outcomes -> Nat]
        /\ \A p \in Outcomes : tally'[p] = IF p = o THEN tally[p] + 1 ELSE tally[p]
        /\ Total(tally') = Total(tally) + 1
        /\ Total(tally) \in Nat
    <3>1. tally \in [Outcomes -> Nat] /\ tally' = [tally EXCEPT ![o] = @ + 1]
      BY <1>1 DEF Count, TallyTypeOK
    <3>2. QED
      BY <3>1 DEF Outcomes, Total
  <2>1. /\ \A p \in Outcomes : tally[p] \in Nat /\ tally'[p] \in Nat
        /\ tally'["Reproduced"] = tally["Reproduced"]
        /\ tally'["PartiallyReproduced"] = tally["PartiallyReproduced"]
    BY <1>1, <2>0 DEF TallyTypeOK, Successes, Outcomes
  <2>2. QED
    BY <1>1, <2>0, <2>1 DEF Level, LevelRank, DeriveAgreementLevel, Successes, Outcomes
<1>2. TallyTypeOK /\ [Next]_tally =>
        [Successes(tally') = Successes(tally) /\ Total(tally) > 0 =>
            LevelRank(Level') <= LevelRank(Level)]_tally
  BY <1>1 DEF Next
<1>3. QED
  BY <1>2, TallyTypeCorrect, PTL DEF Spec, FailureNeverHelps
=============================================================================
