------------------------- MODULE Finalisation_proofs -------------------------
(***************************************************************************)
(* Proofs of the safety properties of Finalisation, for any number of      *)
(* agents, validators, requests and coordinator keys, and of those of its  *)
(* extension with supersessions.                                           *)
(***************************************************************************)
EXTENDS Supersession, ReputationRules_proofs, WellFoundedInduction

\* A validator attests to the study once (the duplicate check of
\* submit_attestation, as the round shows it).
OneAttestationEach == \A x, y \in attestations : x.by = y.by => x = y

\* Whoever wrote a reputation of the study's validators wrote a record of it.
ReputationsFollowRecords == \A x \in reputations : By(records, x.by) # {}

\* Of the requests published, one is the latest.
SomeRequestIsLatest == requests # {} => Latest(requests) # {}

\* What the proofs carry.
FInv ==
    /\ TypeOK
    /\ SomeRequestIsLatest
    /\ IsFiniteSet(reputations)
    /\ OneAttestationEach
    /\ RecordsAreWhole
    /\ ReputationsFollowRecords
    /\ StudyCountsOnce

\* The attestations of a set are as many as their authors.
LEMMA AsManyAuthors ==
    ASSUME NEW all, all \subseteq [by : Validator, req : Request, outcome : Verdict],
           \A x, y \in all : x.by = y.by => x = y,
           NEW atts \in SUBSET all
    PROVE  /\ IsFiniteSet(atts)
           /\ Cardinality(Authors(atts)) = Cardinality(atts)
           /\ Cardinality(atts) \in Nat
<1> DEFINE f == [x \in atts |-> x.by]
<1>1. f \in Injection(atts, Validator)
  BY DEF Injection, IsInjective
<1>2. IsFiniteSet(atts)
  BY <1>1, FS_Injection, ReputationAssumption
<1>3. f \in Bijection(atts, Authors(atts))
  BY DEF Authors, Bijection, Injection, IsInjective, Surjection
<1>4. ExistsBijection(atts, Authors(atts))
  BY <1>3 DEF ExistsBijection
<1>5. QED
  BY <1>2, <1>4, FS_Bijection, FS_CardinalityType

\* One more request leaves one of them the latest.
LEMMA LatestAfterAdd ==
    ASSUME requests \subseteq Request, SomeRequestIsLatest, NEW r \in Request
    PROVE  Latest(requests \cup {r}) # {}
<1>1. r.at \in Nat /\ \A q \in requests : q.at \in Nat
  BY FinalisationAssumption
<1>2. CASE requests = {}
  BY <1>1, <1>2 DEF Latest
<1>3. CASE requests # {}
  <2>1. PICK l \in requests : \A q \in requests : q.at <= l.at
    BY <1>3 DEF SomeRequestIsLatest, Latest
  <2>2. CASE r.at <= l.at
    BY <2>1, <2>2 DEF Latest
  <2>3. CASE ~ (r.at <= l.at)
    <3>1. \A q \in requests \cup {r} : q.at <= r.at
      BY <1>1, <2>1, <2>3
    <3>2. QED
      BY <3>1 DEF Latest
  <2>4. QED
    BY <2>2, <2>3
<1>4. QED
  BY <1>2, <1>3

\* What anybody reads as the latest request is a published one.
LEMMA LatestIsPublished ==
    ASSUME NEW a, NEW r \in LatestRequests(a)  PROVE r \in requests
BY DEF LatestRequests, Latest, Reads

\* A badge issued for record h, and its index link, are of their type.
LEMMA BadgeHasType ==
    ASSUME requests \subseteq Request, badges \subseteq Badge,
           badgePaths \subseteq BadgePath,
           NEW a \in Agent, NEW h \in Harmony, TryIssueBadge(a, h)
    PROVE  badges' \subseteq Badge /\ badgePaths' \subseteq BadgePath
<1>1. PICK r \in LatestRequests(a) :
        LET b == [by |-> a, record |-> h, type |-> EarnedBadge(h), to |-> r.by]
        IN  /\ EarnedBadge(h) # NoBadge
            /\ badges' = badges \cup {b}
            /\ badgePaths' = badgePaths \cup {[by |-> a, badge |-> b]}
  BY DEF TryIssueBadge
<1>2. EarnedBadge(h) \in Badges
  BY <1>1 DEF EarnedBadge, EvaluateBadge, Badges
<1>3. r.by \in Agent
  BY FinalisationAssumption, LatestIsPublished
<1>4. QED
  BY <1>1, <1>2, <1>3 DEF Badge, BadgePath

\* What the reputation updates that follow a record add.
LEMMA UpdatesKeepReputations ==
    ASSUME FInv, NEW a \in Agent, NEW h, h.evidence \subseteq attestations,
           By(records, a) = {}, UpdateReputations(a, h)
    PROVE  /\ reputations' \subseteq Reputations
           /\ IsFiniteSet(reputations')
           /\ \A x \in reputations' : x \in reputations \/ x.by = a
           /\ Cardinality(Coordinator) = 1 => \A x \in reputations' : x.total <= 1
<1>1. CASE a \notin Coordinator
  BY <1>1 DEF UpdateReputations, FInv, TypeOK, StudyCountsOnce
<1>2. CASE a \in Coordinator
  <2>1. PICK updated \in SUBSET h.evidence :
           \E added \in [updated -> UNION {UpdatesFor(a, x) : x \in updated}] :
              /\ \A x \in updated : added[x] \in UpdatesFor(a, x)
              /\ reputations' = reputations \cup UNION {added[x] : x \in updated}
    BY <1>2 DEF UpdateReputations
  <2>2. PICK added \in [updated -> UNION {UpdatesFor(a, x) : x \in updated}] :
              /\ \A x \in updated : added[x] \in UpdatesFor(a, x)
              /\ reputations' = reputations \cup UNION {added[x] : x \in updated}
    BY <2>1
  <2>3. ASSUME NEW x \in updated
        PROVE  /\ IsFiniteSet(added[x])
               /\ added[x] \subseteq Reputations
               /\ \A z \in added[x] : z.by = a
               /\ reputations = {} => \A z \in added[x] : z.total <= 1
    <3>1. /\ x.by \in Validator
          /\ Succeeded(x) \in {0, 1}
          /\ IsFiniteSet(reputations)
          /\ reputations \subseteq Reputations
      BY <2>1 DEF FInv, TypeOK, Attestation, Succeeded
    <3>2. PICK kind \in KindsSeen(x.by), granted \in Tiers :
            added[x] \in Updates(a, x.by, kind, Succeeded(x), granted, reputations)
      BY <2>2 DEF UpdatesFor
    <3>3. reputations = {} => Of(reputations, x.by) = {}
      BY DEF Of
    <3>4. ASSUME NEW v \in Validator, NEW success \in {0, 1},
                 NEW new \in Updates(a, v, kind, success, granted, reputations)
          PROVE  /\ IsFiniteSet(new)
                 /\ new \subseteq Reputations
                 /\ \A z \in new : z.by = a
                 /\ Of(reputations, v) = {} => \A z \in new : z.total <= 1
      <4>1. a \in Coordinator /\ IsFiniteSet(reputations)
        BY <1>2, <3>1
      <4>2. Reputations = ReputationsBy(Coordinator)
        BY DEF Reputations, ReputationsBy
      <4>3. reputations \in SUBSET ReputationsBy(Coordinator)
        BY <3>1, <4>2
      <4>4. kind \in {"AI", "Human"}
        BY DEF KindsSeen
      <4>5. QED
        BY <4>1, <4>2, <4>3, <4>4, UpdateHasType
    <3>5. QED
      BY <3>1, <3>2, <3>3, <3>4
  <2>4. IsFiniteSet(UNION {added[x] : x \in updated})
    <3>1. IsFiniteSet(updated)
      BY <2>1, AsManyAuthors DEF FInv, TypeOK, OneAttestationEach, Attestation
    <3>2. [x \in updated |-> added[x]] \in Surjection(updated, {added[x] : x \in updated})
      BY DEF Surjection
    <3>3. IsFiniteSet({added[x] : x \in updated})
      BY <3>1, <3>2, FS_Surjection
    <3>4. \A T \in {added[x] : x \in updated} : IsFiniteSet(T)
      BY <2>3
    <3>5. QED
      BY <3>3, <3>4, FS_UNION
  <2>5. IsFiniteSet(reputations')
    BY <2>2, <2>4, FS_Union DEF FInv
  <2>6. \A z \in reputations' : z \in reputations \/ \E x \in updated : z \in added[x]
    BY <2>2
  <2>7. Cardinality(Coordinator) = 1 => reputations = {}
    <3>1. SUFFICES ASSUME Cardinality(Coordinator) = 1, NEW x \in reputations
                   PROVE  FALSE
      OBVIOUS
    <3>2. IsFiniteSet(Coordinator)
      BY FinalisationAssumption, FS_Subset
    <3>3. x.by = a
      <4>1. x.by \in Coordinator
        BY DEF FInv, TypeOK, Reputations
      <4>2. QED
        BY <1>2, <3>1, <3>2, <4>1, FS_Singleton
    <3>4. QED
      BY <3>3 DEF FInv, ReputationsFollowRecords
  <2>8. QED
    BY <2>3, <2>5, <2>6, <2>7 DEF FInv, TypeOK
<1>3. QED
  BY <1>1, <1>2

\* A round in which only requests, claims, releases, attestations and time move
\* on, and attestations only by validators without one, keeps FInv.
LEMMA RoundKeepsFInv ==
    ASSUME FInv,
           requests' \subseteq Request, SomeRequestIsLatest',
           claims' \subseteq Claim, releases' \subseteq Release,
           attestations \subseteq attestations', attestations' \subseteq Attestation,
           timedOut \subseteq timedOut', timedOut' \subseteq requests',
           \A x, y \in attestations' : x.by = y.by => x = y,
           UNCHANGED <<records, badges, badgePaths, reputations>>
    PROVE  FInv'
<1>1. TypeOK'
  BY DEF FInv, TypeOK
<1>2. IsFiniteSet(reputations') /\ StudyCountsOnce' /\ ReputationsFollowRecords'
  BY DEF FInv, StudyCountsOnce, ReputationsFollowRecords
<1>3. OneAttestationEach'
  BY DEF OneAttestationEach
<1>4. RecordsAreWhole'
  BY DEF FInv, RecordsAreWhole
<1>5. QED
  BY <1>1, <1>2, <1>3, <1>4 DEF FInv

\* A record that an agent without one publishes keeps FInv.
LEMMA RecordKeepsFInv ==
    ASSUME FInv, NEW a \in Agent, NEW atts \in Reads(attestations, a),
           NEW q \in requests, SeesNoRecord(a),
           WriteHarmonyRecord(a, atts, q.required), UNCHANGED round
    PROVE  FInv'
<1> DEFINE h == [by |-> a, evidence |-> atts, requested |-> q.required]
<1>1. /\ ValidRecord(h)
      /\ records' = records \cup {h}
      /\ TryIssueBadge(a, h) \/ UNCHANGED <<badges, badgePaths>>
      /\ UpdateReputations(a, h)
      /\ UNCHANGED <<requests, claims, releases, attestations, timedOut>>
  BY DEF WriteHarmonyRecord, round
<1>2. /\ h.by = a
      /\ h.evidence = atts
      /\ h.evidence \subseteq attestations
      /\ By(records, a) = {}
  BY DEF Reads, SeesNoRecord
<1>3. h \in Harmony
  <2>1. q.required \in Nat
    BY FinalisationAssumption DEF FInv, TypeOK
  <2>2. QED
    BY <1>2, <2>1 DEF FInv, TypeOK, Harmony
<1> HIDE DEF h
<1>4. /\ reputations' \subseteq Reputations
      /\ IsFiniteSet(reputations')
      /\ \A x \in reputations' : x \in reputations \/ x.by = a
      /\ Cardinality(Coordinator) = 1 => \A x \in reputations' : x.total <= 1
  BY <1>1, <1>2, UpdatesKeepReputations
<1>5. TypeOK'
  <2>1. badges' \subseteq Badge /\ badgePaths' \subseteq BadgePath
    BY <1>1, <1>3, BadgeHasType DEF FInv, TypeOK
  <2>2. QED
    BY <1>1, <1>3, <1>4, <2>1 DEF FInv, TypeOK
<1>6. OneAttestationEach' /\ StudyCountsOnce'
  BY <1>1, <1>4 DEF FInv, OneAttestationEach, StudyCountsOnce
<1>7. RecordsAreWhole'
  <2>1. PICK r \in Request :
          /\ \A x \in h.evidence : x.req = r
          /\ h.requested = r.required
          /\ Cardinality(h.evidence) < r.required => r \in timedOut
    BY <1>1 DEF ValidRecord, CheckAttestationEvidence
  <2>2. h.by \in Participants(h) /\ Cardinality(Participants(h)) <= h.requested
    BY <1>1 DEF ValidRecord, CheckAttestationEvidence
  <2>3. /\ Cardinality(Participants(h)) = Cardinality(h.evidence)
        /\ Cardinality(h.evidence) \in Nat
    BY <1>2, AsManyAuthors
       DEF FInv, TypeOK, OneAttestationEach, Attestation, Participants
  <2>4. r.required \in Nat
    BY FinalisationAssumption
  <2>5. \/ Cardinality(h.evidence) = r.required
        \/ Cardinality(h.evidence) < r.required /\ r \in timedOut
    BY <2>1, <2>2, <2>3, <2>4
  <2>6. QED
    BY <1>1, <1>2, <2>1, <2>2, <2>5 DEF FInv, RecordsAreWhole
<1>8. ReputationsFollowRecords'
  <2>1. SUFFICES ASSUME NEW x \in reputations'  PROVE By(records', x.by) # {}
    BY DEF ReputationsFollowRecords
  <2>2. CASE x \in reputations
    BY <1>1, <2>2 DEF FInv, ReputationsFollowRecords, By
  <2>3. CASE x.by = a
    BY <1>1, <1>2, <2>3 DEF By
  <2>4. QED
    BY <1>4, <2>2, <2>3
<1>9. SomeRequestIsLatest'
  BY <1>1 DEF FInv, SomeRequestIsLatest, Latest
<1>10. QED
  BY <1>4, <1>5, <1>6, <1>7, <1>8, <1>9 DEF FInv

\* Mending the badge of a record keeps FInv.
LEMMA BadgeKeepsFInv ==
    ASSUME FInv, NEW a \in Agent, NEW h \in records, IssueBadgeIfMissing(a, h),
           UNCHANGED <<records, reputations>>, UNCHANGED round
    PROVE  FInv'
<1>1. h \in Harmony
  BY DEF FInv, TypeOK
<1>2. badges' \subseteq Badge /\ badgePaths' \subseteq BadgePath
  <2>1. CASE TryIssueBadge(a, h)
    BY <1>1, <2>1, BadgeHasType DEF FInv, TypeOK
  <2>2. CASE \E b \in badges :
                /\ badgePaths' = badgePaths \cup {[by |-> a, badge |-> b]}
                /\ UNCHANGED badges
    BY <2>2 DEF FInv, TypeOK, BadgePath
  <2>3. QED
    BY <2>1, <2>2 DEF IssueBadgeIfMissing
<1>3. TypeOK'
  BY <1>2 DEF FInv, TypeOK, round
<1>4. QED
  BY <1>3 DEF FInv, round, OneAttestationEach, RecordsAreWhole,
              ReputationsFollowRecords, StudyCountsOnce, SomeRequestIsLatest, Latest

\* FInv is an invariant.
LEMMA FInvInvariant == Spec => []FInv
<1>1. Init => FInv
  BY FS_EmptySet DEF Init, FInv, TypeOK, OneAttestationEach, RecordsAreWhole,
                     ReputationsFollowRecords, StudyCountsOnce,
                     SomeRequestIsLatest
<1>2. ASSUME FInv, [Next]_vars  PROVE FInv'
  <2>1. CASE UNCHANGED vars
    BY <1>2, <2>1 DEF vars, FInv, TypeOK, OneAttestationEach, RecordsAreWhole,
                      ReputationsFollowRecords, StudyCountsOnce,
                      SomeRequestIsLatest, Latest
  <2>2. ASSUME NEW v \in Validator, ClaimMade(v)  PROVE FInv'
    <3>1. claims' \subseteq Claim
      BY <1>2, <2>2 DEF ClaimMade, FInv, TypeOK, Claim
    <3>2. QED
      BY <1>2, <2>2, <3>1, RoundKeepsFInv
         DEF ClaimMade, FInv, TypeOK, OneAttestationEach, SomeRequestIsLatest, Latest
  <2>3. ASSUME NEW a \in Agent, NEW held \in SUBSET claims, ClaimsReleased(a, held)
        PROVE  FInv'
    <3>1. releases' \subseteq Release
      BY <1>2, <2>3 DEF ClaimsReleased, FInv, TypeOK, Release
    <3>2. QED
      BY <1>2, <2>3, <3>1, RoundKeepsFInv
         DEF ClaimsReleased, FInv, TypeOK, OneAttestationEach,
             SomeRequestIsLatest, Latest
  <2>4. ASSUME NEW v \in Validator, NEW r \in Request, NEW o \in Verdict,
               AttestationMade(v, r, o)
        PROVE  FInv'
    <3> DEFINE new == [by |-> v, req |-> r, outcome |-> o]
    <3>1. attestations' = attestations \cup {new}
      BY <2>4 DEF AttestationMade
    <3>2. new \in Attestation /\ \A x \in attestations : x.by # new.by
      BY <2>4 DEF AttestationMade, Attestation, By
    <3> HIDE DEF new
    <3>3. \A x, y \in attestations' : x.by = y.by => x = y
      BY <1>2, <3>1, <3>2 DEF FInv, OneAttestationEach
    <3>4. QED
      BY <1>2, <2>4, <3>1, <3>2, <3>3, RoundKeepsFInv
         DEF AttestationMade, FInv, TypeOK, SomeRequestIsLatest, Latest
  <2>5. ASSUME NEW r \in Request, RequestTimesOut(r)  PROVE FInv'
    BY <1>2, <2>5, RoundKeepsFInv
       DEF RequestTimesOut, FInv, TypeOK, OneAttestationEach,
           SomeRequestIsLatest, Latest
  <2>6. ASSUME NEW a \in Agent, CheckAndCreateHarmonyRecord(a)  PROVE FInv'
    <3>1. CASE /\ SeesNoRecord(a)
               /\ \E atts \in Reads(attestations, a), r \in LatestRequests(a) :
                    /\ Cardinality(atts) >= r.required
                    /\ WriteHarmonyRecord(a, atts, r.required)
      BY <1>2, <2>6, <3>1, RecordKeepsFInv, LatestIsPublished DEF CheckAndCreateHarmonyRecord
    <3>2. CASE /\ \E h \in records : IssueBadgeIfMissing(a, h)
               /\ UNCHANGED <<records, reputations>>
      BY <1>2, <2>6, <3>2, BadgeKeepsFInv DEF CheckAndCreateHarmonyRecord
    <3>3. QED
      BY <2>6, <3>1, <3>2 DEF CheckAndCreateHarmonyRecord
  <2>7. ASSUME NEW a \in Agent, ForceFinalizeRound(a)  PROVE FInv'
    BY <1>2, <2>7, RecordKeepsFInv, LatestIsPublished
       DEF ForceFinalizeRound, ForceFinalize
  <2>8. ASSUME NEW r \in Request, RequestMade(r)  PROVE FInv'
    <3>1. requests' = requests \cup {r}
      BY <2>8 DEF RequestMade
    <3>2. Latest(requests \cup {r}) # {}
      BY <1>2, LatestAfterAdd DEF FInv, TypeOK
    <3>3. SomeRequestIsLatest'
      BY <3>1, <3>2 DEF SomeRequestIsLatest
    <3>4. QED
      BY <1>2, <2>8, <3>1, <3>3, RoundKeepsFInv
         DEF RequestMade, FInv, TypeOK, OneAttestationEach
  <2>9. QED
    BY <1>2, <2>1, <2>2, <2>3, <2>4, <2>5, <2>6, <2>7, <2>8 DEF Next, RoundNext
<1>3. QED
  BY <1>1, <1>2, PTL DEF Spec

(***************************************************************************)
(* Every reachable state has its type.                                     *)
(***************************************************************************)
THEOREM FinalisationTypeCorrect == Spec => []TypeOK
<1>1. FInv => TypeOK
  BY DEF FInv
<1>2. QED
  BY <1>1, FInvInvariant, PTL

(***************************************************************************)
(* No record passes a part of a round off as the whole: peers only accept  *)
(* a complete cohort or one whose request has timed out                    *)
(* (check_attestation_evidence).                                           *)
(***************************************************************************)
THEOREM RecordsAreAlwaysWhole == Spec => []RecordsAreWhole
<1>1. FInv => RecordsAreWhole
  BY DEF FInv
<1>2. QED
  BY <1>1, FInvInvariant, PTL

(***************************************************************************)
(* Concurrent finalisers agree on the evidence: the records of a request   *)
(* that has neither timed out nor gathered too many answers, and the full  *)
(* ones of one that has timed out, rest on all the attestations there are  *)
(* (check_and_create_harmony_record).                                      *)
(***************************************************************************)
THEOREM ConcurrentRecordsAgree == Spec => []FullRecordsAgree
<1>1. ASSUME FInv  PROVE FullRecordsAgree
  <2> SUFFICES ASSUME NEW h \in records, NEW r \in Request,
                      h.evidence \subseteq {x \in attestations : x.req = r},
                      Cardinality({x \in attestations : x.req = r}) <= r.required,
                      r \notin timedOut \/ Cardinality(h.evidence) = r.required
               PROVE  h.evidence = {x \in attestations : x.req = r}
    BY DEF FullRecordsAgree
  <2> DEFINE answering == {x \in attestations : x.req = r}
  <2>1. PICK q \in Request :
          /\ \A x \in h.evidence : x.req = q
          /\ \/ Cardinality(h.evidence) = q.required
             \/ Cardinality(h.evidence) < q.required /\ q \in timedOut
    BY <1>1 DEF FInv, RecordsAreWhole
  <2>2. PICK x \in h.evidence : x.by = h.by
    BY <1>1 DEF FInv, RecordsAreWhole, Participants, Authors
  <2>3. q = r
    BY <2>1, <2>2
  <2>4. Cardinality(h.evidence) = r.required
    BY <2>1, <2>3
  <2>5. IsFiniteSet(answering) /\ Cardinality(answering) \in Nat
    BY <1>1, AsManyAuthors DEF FInv, TypeOK, OneAttestationEach, Attestation
  <2>6. r.required \in Nat
    BY FinalisationAssumption
  <2>7. h.evidence \subseteq answering /\ Cardinality(answering) <= r.required
    OBVIOUS
  <2> HIDE DEF answering
  <2>8. Cardinality(h.evidence) = Cardinality(answering)
    BY <2>4, <2>5, <2>6, <2>7, FS_Subset
  <2>9. h.evidence = answering
    BY <2>5, <2>7, <2>8, FS_Subset
  <2> QED
    BY <2>9 DEF answering
<1>2. QED
  BY <1>1, FInvInvariant, PTL

(***************************************************************************)
(* Where one coordinator key writes reputations, a study counts at most    *)
(* once for each validator: the key sees its own record and never writes a *)
(* second (the idempotency checks).                                        *)
(***************************************************************************)
THEOREM EveryStudyCountsOnce == Spec => []StudyCountsOnce
<1>1. FInv => StudyCountsOnce
  BY DEF FInv
<1>2. QED
  BY <1>1, FInvInvariant, PTL
-----------------------------------------------------------------------------
\* Every badge is of a record, and passed its peers' check.
BadgesKept == \A b \in badges : b.record \in records /\ ValidBadge(b)

\* What issuing or mending a badge of record h adds.
LEMMA IssuedBadge ==
    ASSUME NEW a, NEW h, TryIssueBadge(a, h)
    PROVE  \A b \in badges' : b \in badges \/ (b.record = h /\ ValidBadge(b))
<1>1. PICK r \in LatestRequests(a) :
        LET b == [by |-> a, record |-> h, type |-> EarnedBadge(h), to |-> r.by]
        IN  ValidBadge(b) /\ badges' = badges \cup {b}
  BY DEF TryIssueBadge
<1> DEFINE b == [by |-> a, record |-> h, type |-> EarnedBadge(h), to |-> r.by]
<1>2. ValidBadge(b) /\ badges' = badges \cup {b} /\ b.record = h
  BY <1>1
<1> HIDE DEF b
<1>3. QED
  BY <1>2

LEMMA BadgesInvariant == Spec => []BadgesKept
<1>1. Init => BadgesKept
  BY DEF Init, BadgesKept
<1>2. ASSUME BadgesKept, [Next]_vars  PROVE BadgesKept'
  <2>1. ASSUME NEW a, NEW atts, NEW n, WriteHarmonyRecord(a, atts, n)  PROVE BadgesKept'
    <3> DEFINE h == [by |-> a, evidence |-> atts, requested |-> n]
    <3>1. /\ records' = records \cup {h}
          /\ TryIssueBadge(a, h) \/ UNCHANGED badges
      BY <2>1 DEF WriteHarmonyRecord
    <3> HIDE DEF h
    <3>2. QED
      BY <1>2, <3>1, IssuedBadge DEF BadgesKept, ValidBadge
  <2>2. ASSUME NEW a, NEW h \in records, IssueBadgeIfMissing(a, h), UNCHANGED records
        PROVE  BadgesKept'
    BY <1>2, <2>2, IssuedBadge DEF IssueBadgeIfMissing, BadgesKept, ValidBadge
  <2>3. CASE UNCHANGED <<records, badges>>
    BY <1>2, <2>3 DEF BadgesKept, ValidBadge
  <2>4. QED
    BY <1>2, <2>1, <2>2, <2>3
    DEF Next, RoundNext, vars, RequestMade, ClaimMade, ClaimsReleased, AttestationMade, RequestTimesOut,
        CheckAndCreateHarmonyRecord, ForceFinalizeRound, ForceFinalize
<1>3. QED
  BY <1>1, <1>2, PTL DEF Spec

\* The sizes of the two parts that a finite set is split into.
LEMMA SplitSize ==
    ASSUME NEW S, IsFiniteSet(S), NEW T, NEW U, S = T \cup U, T \cap U = {}
    PROVE  /\ Cardinality(S) = Cardinality(T) + Cardinality(U)
           /\ Cardinality(T) \in Nat /\ Cardinality(U) \in Nat
<1>1. IsFiniteSet(T) /\ IsFiniteSet(U)
  BY FS_Subset
<1>2. /\ Cardinality(T) \in Nat /\ Cardinality(U) \in Nat
      /\ Cardinality(T \cap U) = 0
  BY <1>1, FS_CardinalityType, FS_EmptySet
<1>3. Cardinality(S) = Cardinality(T) + Cardinality(U) - Cardinality(T \cap U)
  BY <1>1, FS_Union
<1>4. QED
  BY <1>2, <1>3

\* A tally counts every attestation, and those that reproduced as successes.
LEMMA TallyCounts ==
    ASSUME NEW atts, IsFiniteSet(atts), \A x \in atts : x.outcome \in Outcomes
    PROVE  /\ TallyOf(atts) \in [Outcomes -> Nat]
           /\ Total(TallyOf(atts)) = Cardinality(atts)
           /\ Successes(TallyOf(atts)) = Cardinality({x \in atts : Succeeded(x) = 1})
<1> DEFINE With(o) == {x \in atts : x.outcome = o}
           good    == {x \in atts : Succeeded(x) = 1}
           bad     == {x \in atts : Succeeded(x) # 1}
<1>1. /\ good = With("Reproduced") \cup With("PartiallyReproduced")
      /\ bad = With("FailedToReproduce") \cup With("UnableToAssess")
  BY DEF Succeeded, Outcomes
<1>2. /\ IsFiniteSet(good) /\ IsFiniteSet(bad)
      /\ atts = good \cup bad /\ good \cap bad = {}
  BY FS_Subset
<1>3. /\ With("Reproduced") \cap With("PartiallyReproduced") = {}
      /\ With("FailedToReproduce") \cap With("UnableToAssess") = {}
  OBVIOUS
<1> DEFINE size(o) == Cardinality(With(o))
<1>4. \A o \in Outcomes : TallyOf(atts)[o] = size(o)
  BY DEF TallyOf
<1>5. TallyOf(atts) = [o \in Outcomes |-> size(o)]
  BY DEF TallyOf
<1> HIDE DEF With, good, bad
<1>6. Cardinality(atts) = Cardinality(good) + Cardinality(bad)
  BY <1>2, SplitSize
<1>7. /\ Cardinality(good) = size("Reproduced") + size("PartiallyReproduced")
      /\ size("Reproduced") \in Nat /\ size("PartiallyReproduced") \in Nat
  <2> DEFINE T == With("Reproduced")
             U == With("PartiallyReproduced")
  <2>1. IsFiniteSet(good) /\ good = T \cup U /\ T \cap U = {}
    BY <1>1, <1>2, <1>3
  <2> HIDE DEF T, U
  <2>2. /\ Cardinality(good) = Cardinality(T) + Cardinality(U)
        /\ Cardinality(T) \in Nat /\ Cardinality(U) \in Nat
    BY <2>1, SplitSize
  <2>3. QED
    BY <2>2 DEF T, U
<1>8. /\ Cardinality(bad) = size("FailedToReproduce") + size("UnableToAssess")
      /\ size("FailedToReproduce") \in Nat /\ size("UnableToAssess") \in Nat
  <2> DEFINE T == With("FailedToReproduce")
             U == With("UnableToAssess")
  <2>1. IsFiniteSet(bad) /\ bad = T \cup U /\ T \cap U = {}
    BY <1>1, <1>2, <1>3
  <2> HIDE DEF T, U
  <2>2. /\ Cardinality(bad) = Cardinality(T) + Cardinality(U)
        /\ Cardinality(T) \in Nat /\ Cardinality(U) \in Nat
    BY ONLY <2>1, SplitSize, SMTT(30)
  <2>3. QED
    BY <2>2 DEF T, U
<1> HIDE DEF size
<1>9. TallyOf(atts) \in [Outcomes -> Nat]
  BY <1>5, <1>7, <1>8 DEF Outcomes
<1>10. Total(TallyOf(atts)) = Cardinality(atts)
  BY <1>4, <1>6, <1>7, <1>8 DEF Total, Outcomes
<1>11. Successes(TallyOf(atts)) = Cardinality(good)
  BY <1>4, <1>7 DEF Successes, Outcomes
<1>12. QED
  BY <1>9, <1>10, <1>11 DEF good

\* What peers accept on a tally.
LEMMA AcceptedOnTally ==
    ASSUME NEW t \in [Outcomes -> Nat], NEW type \in Badges,
           AcceptableBadge(type, DeriveAgreementLevel(t), Total(t))
    PROVE  /\ Total(t) >= 3
           /\ type # "Failed" => 2 * Successes(t) >= Total(t)
<1>1. /\ t["Reproduced"] \in Nat /\ t["PartiallyReproduced"] \in Nat
      /\ t["FailedToReproduce"] \in Nat /\ t["UnableToAssess"] \in Nat
  BY DEF Outcomes
<1> DEFINE level == DeriveAgreementLevel(t)
           n == Total(t)
           ceiling == BadgeCeiling(level, n)
<1>2. n \in Nat /\ Successes(t) \in Nat
  BY <1>1 DEF Total, Successes
<1>3. ceiling # NoBadge /\ ((BadgeRank(type) > 0) <=> (BadgeRank(ceiling) > 0))
  BY DEF AcceptableBadge
<1>4. level \in {"ExactMatch", "WithinTolerance", "DirectionalMatch"}
        => 2 * Successes(t) >= n
  BY <1>1 DEF DeriveAgreementLevel, Total, Successes
<1>5. n >= 3
  BY <1>2, <1>3 DEF BadgeCeiling
<1>6. type # "Failed" => BadgeRank(type) > 0
  BY DEF Badges, BadgeRank
<1>7. level \notin {"ExactMatch", "WithinTolerance", "DirectionalMatch"}
        => ceiling \in {"Failed", NoBadge}
  BY DEF BadgeCeiling
<1>8. ~ (BadgeRank("Failed") > 0)
  BY DEF BadgeRank
<1>9. QED
  BY <1>3, <1>4, <1>5, <1>6, <1>7, <1>8

(***************************************************************************)
(* No badge without at least three published attestations behind it, and   *)
(* none that praises what most of them did not reproduce.                  *)
(***************************************************************************)
THEOREM BadgesAreAlwaysBacked == Spec => []BadgesAreBacked
<1>1. ASSUME FInv, BadgesKept, NEW b \in badges
      PROVE  LET backing == {x \in attestations : x.by \in Participants(b.record)}
                 reproduced == {x \in backing : Succeeded(x) = 1}
             IN  /\ b.record \in records
                 /\ Cardinality(backing) >= 3
                 /\ b.type # "Failed" =>
                       2 * Cardinality(reproduced) >= Cardinality(backing)
  <2> DEFINE E == b.record.evidence
             backing == {x \in attestations : x.by \in Participants(b.record)}
             reproduced == {x \in backing : Succeeded(x) = 1}
  <2>1. b.record \in records /\ ValidBadge(b) /\ b.type \in Badges
    BY <1>1 DEF BadgesKept, FInv, TypeOK, Badge
  <2>2. E \subseteq attestations
    BY <1>1, <2>1 DEF FInv, RecordsAreWhole
  <2>3. backing = E
    BY <1>1, <2>2 DEF Participants, Authors, FInv, OneAttestationEach
  <2>4. /\ IsFiniteSet(E)
        /\ Cardinality(Participants(b.record)) = Cardinality(E)
    BY <1>1, <2>2, AsManyAuthors
       DEF FInv, TypeOK, OneAttestationEach, Attestation, Participants
  <2>5. \A x \in E : x.outcome \in Outcomes
    BY <1>1, <2>2, FinalisationAssumption DEF FInv, TypeOK, Attestation
  <2>6. /\ TallyOf(E) \in [Outcomes -> Nat]
        /\ Total(TallyOf(E)) = Cardinality(E)
        /\ Successes(TallyOf(E)) = Cardinality({x \in E : Succeeded(x) = 1})
    <3> HIDE DEF E
    <3>1. QED
      BY <2>4, <2>5, TallyCounts
  <2>7. AcceptableBadge(b.type, DeriveAgreementLevel(TallyOf(E)), Total(TallyOf(E)))
    BY <2>1, <2>4, <2>6 DEF ValidBadge, AgreementOf
  <2>8. /\ Total(TallyOf(E)) >= 3
        /\ b.type # "Failed" => 2 * Successes(TallyOf(E)) >= Total(TallyOf(E))
    BY <2>1, <2>6, <2>7, AcceptedOnTally
  <2>9. QED
    BY <2>1, <2>3, <2>6, <2>8
<1>2. FInv /\ BadgesKept => BadgesAreBacked
  BY <1>1 DEF BadgesAreBacked
<1>3. QED
  BY <1>2, FInvInvariant, BadgesInvariant, PTL
-----------------------------------------------------------------------------
(***************************************************************************)
(* Supersessions.  What is carried: records keep their timestamps, and     *)
(* every link joins two of them in order and was made in a role.           *)
(***************************************************************************)
LinksKept ==
    /\ written \in [records -> Clock]
    /\ \A s \in supersessions :
          /\ s.old \in records
          /\ s.new \in records
          /\ written[s.old] < written[s.new]
          /\ HasRole(s)

\* A record, once published, stays.
LEMMA RecordsStay ==
    ASSUME [Next]_vars  PROVE records \subseteq records'
<1>1. CASE UNCHANGED vars
  BY <1>1 DEF vars
<1>2. ASSUME NEW a \in Agent, CheckAndCreateHarmonyRecord(a)  PROVE records \subseteq records'
  BY <1>2 DEF CheckAndCreateHarmonyRecord, WriteHarmonyRecord
<1>3. ASSUME NEW a \in Agent, ForceFinalizeRound(a)  PROVE records \subseteq records'
  BY <1>3 DEF ForceFinalizeRound, ForceFinalize, WriteHarmonyRecord
<1>4. QED
  BY <1>1, <1>2, <1>3
  DEF Next, RoundNext, RequestMade, ClaimMade, ClaimsReleased, AttestationMade, RequestTimesOut

LEMMA SupersedingIsFinalising == SupersedingSpec => Spec
<1>1. SupersedingInit => Init
  BY DEF SupersedingInit
<1>2. [SupersedingNext]_supersedingVars => [Next]_vars
  BY DEF SupersedingNext, Finalises, SupersedeHarmonyRecord, supersedingVars
<1>3. QED
  BY <1>1, <1>2, PTL DEF SupersedingSpec, Spec

LEMMA LinksInvariant == SupersedingSpec => []LinksKept
<1>1. SupersedingInit => LinksKept
  BY DEF SupersedingInit, Init, LinksKept
<1>2. ASSUME LinksKept, [SupersedingNext]_supersedingVars  PROVE LinksKept'
  <2>1. CASE Finalises(Next)
    <3>1. records \subseteq records' /\ UNCHANGED supersessions
      BY <2>1, RecordsStay DEF Finalises
    <3>2. PICK t \in Clock :
            written' = [h \in records' |-> IF h \in records THEN written[h] ELSE t]
      BY <2>1 DEF Finalises, Stamped
    <3>3. written' \in [records' -> Clock]
      BY <1>2, <3>2 DEF LinksKept
    <3>4. \A h \in records : written'[h] = written[h]
      BY <3>1, <3>2
    <3>5. QED
      BY <1>2, <3>1, <3>3, <3>4 DEF LinksKept, HasRole, AsValidator, AsResearcher
  <2>2. ASSUME NEW a \in Agent, SupersedeHarmonyRecord(a)  PROVE LinksKept'
    <3>1. PICK old \in records, new \in records, role \in Roles, t \in Clock :
            LET s == [by |-> a, old |-> old, new |-> new, role |-> role, at |-> t]
            IN  CheckSupersession(s) /\ supersessions' = supersessions \cup {s}
      BY <2>2 DEF SupersedeHarmonyRecord
    <3> DEFINE s == [by |-> a, old |-> old, new |-> new, role |-> role, at |-> t]
    <3>2. s.old \in records /\ s.new \in records
      OBVIOUS
    <3>3. CheckSupersession(s) /\ supersessions' = supersessions \cup {s}
      BY <3>1
    <3>4. UNCHANGED <<records, written>>
      BY <2>2 DEF SupersedeHarmonyRecord, vars
    <3> HIDE DEF s
    <3>5. QED
      BY <1>2, <3>2, <3>3, <3>4
      DEF LinksKept, CheckSupersession, Ordered, HasRole, AsValidator, AsResearcher
  <2>3. CASE UNCHANGED supersedingVars
    BY <1>2, <2>3 DEF supersedingVars, vars, LinksKept, HasRole, AsValidator, AsResearcher
  <2>4. QED
    BY <1>2, <2>1, <2>2, <2>3 DEF SupersedingNext
<1>3. QED
  BY <1>1, <1>2, PTL DEF SupersedingSpec

\* A set of times that are bounded has a latest.
LEMMA LatestTime ==
    ASSUME NEW times, NEW bound \in Nat, times \subseteq 0 .. bound, times # {}
    PROVE  \E t \in times : \A u \in times : u <= t
<1> DEFINE R == OpToRel(<, Nat)
           left == {bound - t : t \in times}
<1>1. left \subseteq Nat /\ left # {}
  <2> HIDE DEF R
  <2>1. \A t \in times : bound - t \in Nat
    OBVIOUS
  <2>2. PICK t \in times : TRUE
    OBVIOUS
  <2>3. bound - t \in left
    OBVIOUS
  <2>4. QED
    BY <2>1, <2>3
<1>2. IsWellFoundedOn(R, Nat)
  BY NatLessThanWellFounded
<1>3. PICK x \in left : \A y \in left : ~ (<<y, x>> \in R)
  <2> HIDE DEF R, left
  <2>1. QED
    BY <1>1, <1>2, WFMin
<1>4. \A y \in left : ~ (y < x)
  BY <1>1, <1>3 DEF OpToRel
<1>5. PICK t \in times : x = bound - t
  OBVIOUS
<1>6. ASSUME NEW u \in times  PROVE u <= t
  <2>1. bound - u \in left
    OBVIOUS
  <2>2. ~ (bound - u < bound - t)
    BY <1>4, <1>5, <2>1
  <2>3. u \in Nat /\ t \in Nat
    OBVIOUS
  <2>4. QED
    BY <2>2, <2>3
<1>7. QED
  BY <1>6

(***************************************************************************)
(* Supersessions never run in a circle: each leads to a later timestamp.   *)
(***************************************************************************)
THEOREM ALatestRecordIsLeft == SupersedingSpec => []SomeRecordIsLatest
<1>1. ASSUME LinksKept, NEW attempts \in SUBSET records, attempts # {}
      PROVE  \E h \in attempts : \A s \in supersessions : s.old = h => s.new \notin attempts
  <2> DEFINE times == {written[h] : h \in attempts}
  <2>1. MaxClock \in Nat /\ Clock \subseteq 0 .. MaxClock
    BY SupersessionAssumption DEF Clock
  <2>2. \A h \in attempts : written[h] \in Clock
    BY <1>1 DEF LinksKept
  <2>3. ASSUME NEW g \in attempts  PROVE written[g] \in 0 .. MaxClock /\ written[g] \in Nat
    <3>1. written[g] \in 0 .. MaxClock
      BY <2>1, <2>2
    <3>2. QED
      BY <2>1, <3>1
  <2>4. PICK t \in times : \A u \in times : u <= t
    <3>1. times \subseteq 0 .. MaxClock /\ times # {}
      BY <1>1, <2>3
    <3> HIDE DEF times
    <3>2. QED
      BY <2>1, <3>1, LatestTime
  <2>5. PICK h \in attempts : written[h] = t
    OBVIOUS
  <2>6. ASSUME NEW s \in supersessions, s.old = h, s.new \in attempts  PROVE FALSE
    <3>1. written[h] < written[s.new]
      BY <1>1, <2>6 DEF LinksKept
    <3>2. written[s.new] <= written[h]
      <4>1. \A g \in attempts : written[g] \in times
        OBVIOUS
      <4> HIDE DEF times
      <4>2. QED
        BY <2>4, <2>5, <2>6, <4>1
    <3>3. written[h] \in Nat /\ written[s.new] \in Nat
      BY <2>3, <2>6
    <3>4. QED
      BY <3>1, <3>2, <3>3
  <2>7. QED
    BY <2>6
<1>2. LinksKept => SomeRecordIsLatest
  BY <1>1 DEF SomeRecordIsLatest
<1>3. QED
  BY <1>2, LinksInvariant, PTL

(***************************************************************************)
(* Whoever links two records took part in the study behind one of them.    *)
(***************************************************************************)
THEOREM AlwaysLinkedByItsParties == SupersedingSpec => []LinkedByItsParties
<1>1. ASSUME LinksKept, RecordsAreWhole, NEW s \in supersessions
      PROVE  \E h \in {s.old, s.new} :
                \/ \E x \in attestations \cap h.evidence : x.by = s.by
                \/ \A x \in h.evidence : x.req.by = s.by
  <2>1. HasRole(s) /\ s.old \in records /\ s.new \in records
    BY <1>1 DEF LinksKept
  <2>2. CASE AsValidator(s)
    <3>1. PICK h \in {s.old, s.new} : s.by \in Participants(h)
      BY <2>2 DEF AsValidator
    <3>2. h.evidence \subseteq attestations
      BY <1>1, <2>1, <3>1 DEF RecordsAreWhole
    <3>3. QED
      BY <3>1, <3>2 DEF Participants, Authors
  <2>3. CASE AsResearcher(s)
    <3>1. PICK h \in {s.old, s.new} : \E r \in StatedBy(h) : r.by = s.by
      BY <2>3 DEF AsResearcher
    <3>2. PICK q \in Request : \A x \in h.evidence : x.req = q
      BY <1>1, <2>1, <3>1 DEF RecordsAreWhole
    <3>3. q.by = s.by
      BY <3>1, <3>2 DEF StatedBy
    <3>4. QED
      BY <3>1, <3>2, <3>3
  <2>4. QED
    BY <2>1, <2>2, <2>3 DEF HasRole
<1>2. LinksKept /\ RecordsAreWhole => LinkedByItsParties
  BY <1>1 DEF LinkedByItsParties
<1>3. QED
  BY <1>2, LinksInvariant, SupersedingIsFinalising, RecordsAreAlwaysWhole, PTL
-----------------------------------------------------------------------------
(***************************************************************************)
(* From the sweep's fairness to a record.  As in SealedRound_proofs, the   *)
(* guards of the fair step are written out, and what is assumed of ENABLED *)
(* is that the sweep is possible when they hold.                           *)
(***************************************************************************)
MaySweep(a) ==
    /\ records = {}
    /\ Cardinality(attestations) >= MinRequired
    /\ Latest(requests) \cap timedOut # {}
    /\ NobodyStillWorking(attestations, claims, releases)
    /\ \E r \in Latest(requests) :
          ValidRecord([by |-> a, evidence |-> attestations, requested |-> r.required])

SweepGuardsSuffice ==
    \A a \in Agent : MaySweep(a) => ENABLED <<SweepTimedOutRounds(a)>>_vars

\* The study can be closed, and has been assessed by whoever sweeps: the latest
\* request has timed out and asks for as many as the one that was answered.
LEMMA ClosableCanBeSwept ==
    ASSUME FInv, Closable, records = {}, NEW a \in Authors(attestations)
    PROVE  MaySweep(a)
<1>1. PICK r \in requests : /\ \A x \in attestations : x.req = r
                            /\ Cardinality(attestations) <= r.required
                            /\ \A s \in Latest(requests) : s.required = r.required
  BY DEF Closable
<1>2. Cardinality(Authors(attestations)) = Cardinality(attestations)
  <2>1. attestations \subseteq [by : Validator, req : Request, outcome : Verdict]
    BY DEF FInv, TypeOK, Attestation
  <2>2. \A x, y \in attestations : x.by = y.by => x = y
    BY DEF FInv, OneAttestationEach
  <2>3. attestations \in SUBSET attestations
    OBVIOUS
  <2>4. QED
    BY <2>1, <2>2, <2>3, AsManyAuthors
<1>3. PICK latest \in Latest(requests) : latest.required = r.required
  BY <1>1 DEF FInv, SomeRequestIsLatest
<1>4. latest \in timedOut
  BY <1>3 DEF Closable, Latest
<1> DEFINE h == [by |-> a, evidence |-> attestations, requested |-> latest.required]
<1>5. ValidRecord(h)
  <2>1. Participants(h) = Authors(attestations) /\ h.evidence = attestations
    BY DEF Participants
  <2>2. h.by = a /\ h.requested = r.required
    BY <1>3
  <2> HIDE DEF h
  <2>3. CheckAttestationEvidence(h)
    BY <1>1, <2>1, <2>2 DEF CheckAttestationEvidence, Closable, FInv, TypeOK
  <2>4. QED
    BY <1>1, <1>2, <2>1, <2>2, <2>3 DEF ValidRecord, Closable
<1>6. NobodyStillWorking(attestations, claims, releases)
  BY DEF Closable, NobodyStillWorking, Authors, By
<1>7. QED
  BY <1>3, <1>4, <1>5, <1>6 DEF MaySweep, Closable

\* Whoever has attested stays among the study's authors.
LEMMA AuthorsStay ==
    ASSUME [Next]_vars  PROVE Authors(attestations) \subseteq Authors(attestations')
<1>1. attestations \subseteq attestations'
  BY DEF Next, RoundNext, vars, round, RequestMade, ClaimMade, ClaimsReleased,
         AttestationMade, RequestTimesOut, CheckAndCreateHarmonyRecord, ForceFinalizeRound, ForceFinalize
<1>2. QED
  BY <1>1 DEF Authors

(***************************************************************************)
(* A round that is over is recorded in the end, though no client asks: the *)
(* sweep of somebody who attested writes a record that its peers accept,   *)
(* where the latest request asks for as many as the one that was answered  *)
(* (Closable).                                                             *)
(***************************************************************************)
THEOREM OverdueRoundsAreRecorded ==
    FairSpec /\ []SweepGuardsSuffice => EventuallyRecorded
<1>1. ASSUME NEW a \in Agent
      PROVE  FairSpec /\ []SweepGuardsSuffice /\ <>[]Closable
                /\ <>(a \in Authors(attestations)) => <>(records # {})
  <2> DEFINE Author == a \in Authors(attestations)
             Recorded == records # {}
             E == ENABLED <<SweepTimedOutRounds(a)>>_vars
  <2>1. FInv /\ SweepGuardsSuffice /\ Closable /\ Author /\ ~Recorded => E
    BY ClosableCanBeSwept DEF SweepGuardsSuffice
  <2>2. Author /\ [Next]_vars => Author'
    BY AuthorsStay
  <2>3. <<SweepTimedOutRounds(a)>>_vars => Recorded'
    BY DEF SweepTimedOutRounds, ForceFinalize, WriteHarmonyRecord
  <2>4. FairSpec => Spec /\ Sweeps(a)
    BY DEF FairSpec
  <2>5. Spec => [][Next]_vars
    BY DEF Spec
  <2>6. Sweeps(a) => WF_vars(SweepTimedOutRounds(a))
    BY PTL DEF Sweeps
  <2>7. QED
    BY <2>1, <2>2, <2>3, <2>4, <2>5, <2>6, FInvInvariant, PTL
<1>2. Closable /\ FInv => \E a \in Agent : a \in Authors(attestations)
  <2>1. SUFFICES ASSUME Closable, FInv  PROVE \E a \in Agent : a \in Authors(attestations)
    OBVIOUS
  <2>2. attestations # {}
    <3>1. MinRequired \in Nat /\ MinRequired # 0
      BY FinalisationAssumption DEF MinRequired
    <3>2. Cardinality({}) = 0
      BY FS_EmptySet
    <3>3. Cardinality(attestations) >= MinRequired
      BY <2>1 DEF Closable
    <3>4. SUFFICES ASSUME attestations = {}  PROVE FALSE
      OBVIOUS
    <3>5. 0 >= MinRequired
      BY <3>2, <3>3, <3>4
    <3>6. QED
      BY <3>1, <3>5
  <2>3. \A x \in attestations : x.by \in Agent
    BY <2>1, FinalisationAssumption DEF FInv, TypeOK, Attestation
  <2>4. QED
    BY <2>2, <2>3 DEF Authors
<1>3. FairSpec => Spec
  BY DEF FairSpec
<1>4. FairSpec /\ <>[]Closable => <>(\E a \in Agent : a \in Authors(attestations))
  BY <1>2, <1>3, FInvInvariant, PTL
<1>5. <>(\E a \in Agent : a \in Authors(attestations))
        => \E a \in Agent : <>(a \in Authors(attestations))
  OBVIOUS
<1>6. FairSpec /\ []SweepGuardsSuffice /\ <>[]Closable => <>(records # {})
  BY <1>1, <1>4, <1>5
<1>7. QED
  BY <1>6 DEF EventuallyRecorded
=============================================================================
