------------------------- MODULE Reputation_proofs -------------------------
(***************************************************************************)
(* Proofs of the properties of Reputation, for any number of coordinators, *)
(* validators and updates and any staleness of what an update reads.       *)
(***************************************************************************)
EXTENDS Reputation, ReputationRules_proofs

\* What the proofs carry: the counts of every human validator's record are
\* covered by updates made, and a tier by the count it stands on.
Counted(x) ==
    x.of \notin Automated =>
        /\ x.total <= validations[x.of]
        /\ x.successful <= successes[x.of]
        /\ x.tier # "Provisional" => x.total >= 3

CountInv ==
    /\ TypeOK
    /\ IsFiniteSet(reputations)
    /\ \A x \in reputations : Counted(x)

\* One update preserves CountInv.
LEMMA UpdateKeepsCount ==
    ASSUME CountInv, NEW a \in Coordinator, NEW v \in Validator,
           NEW success \in {0, 1}, NEW granted \in {"Provisional", "Certified"},
           UpdateValidatorReputation(a, v, success, granted)
    PROVE  CountInv'
<1>1. PICK added \in Updates(a, v, KindOf(v), success, granted, reputations) :
          reputations' = reputations \cup added
  BY DEF UpdateValidatorReputation
<1>2. /\ validations' \in [Validator -> Nat]
      /\ successes' \in [Validator -> Nat]
      /\ validations'[v] = validations[v] + 1
      /\ successes'[v] = successes[v] + success
      /\ \A u \in Validator : validations[u] <= validations'[u]
                              /\ successes[u] <= successes'[u]
  BY DEF CountInv, TypeOK, UpdateValidatorReputation
<1>3. Cardinality(By(Of(reputations, v), a)) \in Nat
  <2>1. By(Of(reputations, v), a) \subseteq reputations
    BY DEF By, Of
  <2>2. QED
    BY <2>1, FS_Subset, FS_CardinalityType DEF CountInv
<1>4. /\ IsFiniteSet(added)
      /\ added \subseteq Reputations
      /\ \A x \in added : Counted(x)'
  <2>1. CASE added = {}
    BY <2>1, FS_EmptySet
  <2>2. CASE /\ v \in Automated
             /\ added = {Record(a, v, 0, 0, granted, reputations)}
    <3>1. Record(a, v, 0, 0, granted, reputations) \in Reputations
      BY <1>3 DEF Record, Reputations, Tiers
    <3>2. Record(a, v, 0, 0, granted, reputations).of \in Automated
      BY <2>2 DEF Record
    <3>3. \A x \in added : Counted(x)'
      BY <2>2, <3>2 DEF Counted
    <3>4. QED
      BY <2>2, <3>1, <3>3, FS_Singleton
  <2>3. CASE /\ v \notin Automated
             /\ added = {Record(a, v, 1, success, "Provisional", reputations)}
    <3>1. Record(a, v, 1, success, "Provisional", reputations) \in Reputations
      BY <1>3 DEF Record, Reputations, Tiers
    <3>2. validations[v] \in Nat /\ successes[v] \in Nat
      BY DEF CountInv, TypeOK
    <3>3. ASSUME NEW x \in added  PROVE Counted(x)'
      <4>1. /\ x.of = v /\ x.total = 1 /\ x.successful = success
            /\ x.tier = "Provisional"
        BY <2>3 DEF Record
      <4>2. 1 <= validations'[v] /\ success <= successes'[v]
        BY <1>2, <3>2
      <4>3. QED
        BY <4>1, <4>2 DEF Counted
    <3>4. QED
      BY <2>3, <3>1, <3>3, FS_Singleton
  <2>4. ASSUME v \notin Automated, NEW x \in Of(reputations, v),
               added = Advance(a, v, success, x, reputations)
        PROVE  /\ IsFiniteSet(added)
               /\ added \subseteq Reputations
               /\ \A z \in added : Counted(z)'
    <3> DEFINE total == x.total + 1
               won == x.successful + success
    <3>1. /\ x \in Reputations /\ x.of = v /\ Counted(x)
          /\ validations[v] \in Nat /\ successes[v] \in Nat
      BY <2>4 DEF Of, CountInv, TypeOK
    <3>2. /\ total \in Nat /\ won \in Nat
          /\ total <= validations'[v] /\ won <= successes'[v]
      BY <1>2, <2>4, <3>1 DEF Reputations, Counted
    <3>3. /\ CertTier(total, won) \in Tiers
          /\ CertTier(total, won) # "Provisional" => total >= 3
      BY <3>2 DEF CertTier, Tiers
    <3>4. PICK y :
              y = Record(a, v, total, won, CertTier(total, won), reputations)
      OBVIOUS
    <3>5. y \in Reputations /\ Counted(y)'
      BY <1>3, <3>2, <3>3, <3>4 DEF Record, Reputations, Counted
    <3>6. added = {y}
      BY <2>4, <3>4 DEF Advance
    <3>7. \A z \in added : Counted(z)'
      BY <3>5, <3>6
    <3>8. QED
      BY <3>5, <3>6, <3>7, FS_Singleton
  <2>5. QED
    BY <2>1, <2>2, <2>3, <2>4, UpdateAddsAtMostOne DEF KindOf
<1>5. IsFiniteSet(reputations')
  BY <1>1, <1>4, FS_Union DEF CountInv
<1>6. TypeOK'
  BY <1>1, <1>2, <1>4 DEF TypeOK, CountInv
<1>7. ASSUME NEW x \in reputations  PROVE Counted(x)'
  <2>1. /\ x \in Reputations /\ Counted(x)
        /\ validations \in [Validator -> Nat]
        /\ successes \in [Validator -> Nat]
    BY DEF CountInv, TypeOK
  <2>2. x.of \in Validator /\ x.total \in Nat /\ x.successful \in Nat
    BY <2>1 DEF Reputations
  <2>3. QED
    BY <1>2, <2>1, <2>2 DEF Counted
<1>8. QED
  BY <1>1, <1>4, <1>5, <1>6, <1>7 DEF CountInv

\* CountInv is an invariant.
LEMMA CountInvariant == Spec => []CountInv
<1>1. Init => CountInv
  BY FS_EmptySet DEF Init, CountInv, TypeOK
<1>2. CountInv /\ [Next]_vars => CountInv'
  <2>1. CASE UNCHANGED vars
    BY <2>1 DEF vars, CountInv, TypeOK, Counted
  <2>2. QED
    BY <2>1, UpdateKeepsCount DEF Next
<1>3. QED
  BY <1>1, <1>2, PTL DEF Spec

(***************************************************************************)
(* Every reachable state has its type.                                     *)
(***************************************************************************)
THEOREM ReputationTypeCorrect == Spec => []TypeOK
<1>1. CountInv => TypeOK
  BY DEF CountInv
<1>2. QED
  BY <1>1, CountInvariant, PTL

(***************************************************************************)
(* No record counts more than was reported, nor a tier that was not earned *)
(* (_update_reputation_internal).                                          *)
(***************************************************************************)
THEOREM CountsAreEarned == Spec => []NeverOvercounted
<1>1. ASSUME CountInv  PROVE NeverOvercounted
  <2>1. SUFFICES ASSUME NEW x \in reputations, x.of \notin Automated
                 PROVE  /\ x.total <= validations[x.of]
                        /\ x.successful <= successes[x.of]
                        /\ x.tier # "Provisional" => validations[x.of] >= 3
    BY DEF NeverOvercounted
  <2>2. /\ x.total \in Nat /\ validations[x.of] \in Nat
        /\ Counted(x)
    BY <1>1 DEF CountInv, TypeOK, Reputations
  <2>3. QED
    BY <2>1, <2>2 DEF Counted
<1>2. QED
  BY <1>1, CountInvariant, PTL

(***************************************************************************)
(* A coordinator never writes a second record of an AI validator.          *)
(***************************************************************************)
THEOREM AutomatedStayFrozen == Spec => AutomatedIsFrozen
<1>1. ASSUME NEW b \in Coordinator, NEW u \in Validator, NEW success, NEW granted,
             UpdateValidatorReputation(b, u, success, granted),
             NEW a \in Coordinator, NEW v \in Automated,
             By(Of(reputations, v), a) # {}
      PROVE  By(Of(reputations', v), a) = By(Of(reputations, v), a)
  <2>1. PICK added \in Updates(b, u, KindOf(u), success, granted, reputations) :
            reputations' = reputations \cup added
    BY <1>1 DEF UpdateValidatorReputation
  <2>2. \A x \in added : x.by = b /\ x.of = u
    BY UpdateAddsAtMostOne DEF Advance, Record
  <2>3. CASE a = b /\ u = v
    <3>1. added = {}
      BY <1>1, <2>3, UpdateAddsAtMostOne DEF KindOf
    <3>2. QED
      BY <2>1, <3>1
  <2>4. CASE a # b \/ u # v
    BY <2>1, <2>2, <2>4 DEF By, Of
  <2>5. QED
    BY <2>3, <2>4
<1>2. [Next]_vars =>
        [\A a \in Coordinator, v \in Automated :
            By(Of(reputations, v), a) # {} =>
               By(Of(reputations', v), a) = By(Of(reputations, v), a)]_vars
  BY <1>1 DEF Next
<1>3. QED
  BY <1>2, PTL DEF Spec, AutomatedIsFrozen
=============================================================================
