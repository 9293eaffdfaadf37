------------------------ MODULE ReputationRules_proofs ------------------------
(***************************************************************************)
(* What one update of a validator's reputation may add, for any published  *)
(* records and any staleness of the read.                                  *)
(***************************************************************************)
EXTENDS ReputationRules, FiniteSetTheorems, TLAPS

\* The step an update of v by a takes: at most one record is added, an AI
\* validator's only if a has written none, and a human's either a first one or
\* one that builds on a record of the same validator.
LEMMA UpdateAddsAtMostOne ==
    ASSUME NEW a, NEW v, NEW kind, NEW success, NEW granted, NEW published,
           NEW added \in Updates(a, v, kind, success, granted, published)
    PROVE  \/ /\ kind = "AI"
              /\ added = {}
           \/ /\ kind = "AI"
              /\ By(Of(published, v), a) = {}
              /\ added = {Record(a, v, 0, 0, granted, published)}
           \/ /\ kind # "AI"
              /\ added = {Record(a, v, 1, success, "Provisional", published)}
           \/ /\ kind # "AI"
              /\ \E x \in Of(published, v) :
                    added = Advance(a, v, success, x, published)
<1> DEFINE reads  == Reads(Of(published, v), a)
           found  == UNION {Preferred(s) : s \in reads}
           Linked == {s \in reads : \E x \in Preferred(s) : x.by # a}
<1>1. CASE kind = "AI"
  <2>1. added \in {{Record(a, v, 0, 0, granted, published)} : s \in reads \cap {{}}}
                     \cup {{} : x \in found}
    BY <1>1 DEF Updates, KeepsItsRecord
  <2>2. {} \in reads => By(Of(published, v), a) = {}
    BY DEF Reads
  <2>3. QED
    BY <1>1, <2>1, <2>2
<1>2. CASE kind # "AI"
  <2>1. added \in {{Record(a, v, 1, success, "Provisional", published)} :
                       s \in (reads \cap {{}}) \cup Linked}
                     \cup {Advance(a, v, success, x, published) : x \in found}
    BY <1>2 DEF Updates, KeepsItsRecord
  <2>2. found \subseteq Of(published, v)
    BY DEF Preferred, Reads
  <2>3. QED
    BY <1>2, <2>1, <2>2
<1>3. QED
  BY <1>1, <1>2

\* The records coordinators of a set C may have published.
ReputationsBy(C) ==
    [by : C, of : Validator, total : Nat, successful : Nat, tier : Tiers, n : Nat]

\* What an update adds is a finite set of records of v by a, and where v has no
\* record yet it counts at most one validation.
LEMMA UpdateHasType ==
    ASSUME NEW C, NEW a \in C, NEW v \in Validator, NEW kind \in {"AI", "Human"},
           NEW success \in {0, 1}, NEW granted \in Tiers,
           NEW published \in SUBSET ReputationsBy(C), IsFiniteSet(published),
           NEW added \in Updates(a, v, kind, success, granted, published)
    PROVE  /\ IsFiniteSet(added)
           /\ added \subseteq ReputationsBy(C)
           /\ \A x \in added : x.by = a
           /\ Of(published, v) = {} => \A x \in added : x.total <= 1
<1>1. Cardinality(By(Of(published, v), a)) \in Nat
  <2>1. By(Of(published, v), a) \subseteq published
    BY DEF By, Of
  <2>2. QED
    BY <2>1, FS_Subset, FS_CardinalityType
<1>2. ASSUME NEW total \in Nat, NEW won \in Nat, NEW tier \in Tiers
      PROVE  /\ Record(a, v, total, won, tier, published) \in ReputationsBy(C)
             /\ Record(a, v, total, won, tier, published).by = a
             /\ Record(a, v, total, won, tier, published).total = total
  BY <1>1 DEF Record, ReputationsBy
<1> DEFINE Fits(rec) == /\ rec \in ReputationsBy(C)
                        /\ rec.by = a
                        /\ Of(published, v) = {} => rec.total <= 1
<1>3. ASSUME NEW rec, Fits(rec), added = {rec}
      PROVE  IsFiniteSet(added) /\ \A z \in added : Fits(z)
  BY <1>3, FS_Singleton
<1>4. SUFFICES IsFiniteSet(added) /\ \A z \in added : Fits(z)
  OBVIOUS
<1>5. CASE added = {}
  BY <1>5, FS_EmptySet
<1>6. CASE added = {Record(a, v, 0, 0, granted, published)}
  <2>1. Fits(Record(a, v, 0, 0, granted, published))
    BY <1>2
  <2>2. QED
    BY <1>3, <1>6, <2>1
<1>7. CASE added = {Record(a, v, 1, success, "Provisional", published)}
  <2>1. "Provisional" \in Tiers
    BY DEF Tiers
  <2>2. Fits(Record(a, v, 1, success, "Provisional", published))
    BY <1>2, <2>1
  <2>3. QED
    BY <1>3, <1>7, <2>2
<1>8. ASSUME NEW x \in Of(published, v),
             added = Advance(a, v, success, x, published)
      PROVE  IsFiniteSet(added) /\ \A z \in added : Fits(z)
  <2> DEFINE total == x.total + 1
             won == x.successful + success
             rec == Record(a, v, total, won, CertTier(total, won), published)
  <2>1. x \in ReputationsBy(C)
    BY DEF Of
  <2>2. total \in Nat /\ won \in Nat
    BY <2>1 DEF ReputationsBy
  <2>3. CertTier(total, won) \in Tiers
    BY <2>2 DEF CertTier, Tiers
  <2>4. rec \in ReputationsBy(C) /\ rec.by = a
    <3> HIDE DEF total, won
    <3>1. QED
      BY <1>2, <2>2, <2>3
  <2>5. Fits(rec)
    <3> HIDE DEF rec
    <3>1. QED
      BY <2>4
  <2>6. added = {rec}
    BY <1>8 DEF Advance
  <2>7. QED
    <3> HIDE DEF rec, Fits
    <3>1. QED
      BY <1>3, <2>5, <2>6
<1>9. QED
  BY <1>5, <1>6, <1>7, <1>8, UpdateAddsAtMostOne
=============================================================================
