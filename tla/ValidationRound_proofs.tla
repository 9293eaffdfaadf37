----------------------- MODULE ValidationRound_proofs -----------------------
(***************************************************************************)
(* Proofs about ValidationRound, for every set of agents and institutions, *)
(* every quorum and every bound.                                           *)
(***************************************************************************)
EXTENDS ValidationRound, FiniteSetTheorems, TLAPS

(***************************************************************************)
(* The compact form in which actions read the unreleased claims names      *)
(* exactly what one read of the claims and one of the releases leave.      *)
(***************************************************************************)
LEMMA ActiveReadsAreReads ==
    ASSUME NEW someClaims, NEW a
    PROVE  ActiveReads(someClaims, a) =
             {Unreleased(c, x) : c \in Reads(someClaims, a),
                                 x \in Reads(releases, a)}
<1>1. ASSUME NEW c \in Reads(someClaims, a), NEW x \in Reads(releases, a)
      PROVE  Unreleased(c, x) \in ActiveReads(someClaims, a)
  BY <1>1 DEF Reads, By, Unreleased, ActiveReads
<1>2. ASSUME NEW seen \in ActiveReads(someClaims, a)
      PROVE  \E c \in Reads(someClaims, a), x \in Reads(releases, a) :
                seen = Unreleased(c, x)
  <2> DEFINE c == seen \cup By(someClaims, a)
             x == {y \in releases : y.by = a \/ y.claim \notin seen}
  <2>1. c \in Reads(someClaims, a) /\ x \in Reads(releases, a)
    BY <1>2 DEF Reads, By, Unreleased, ActiveReads
  <2>2. seen = Unreleased(c, x)
    <3>1. seen \subseteq Unreleased(c, x)
      BY <1>2 DEF Reads, By, Unreleased, ActiveReads
    <3>2. ASSUME NEW d \in Unreleased(c, x), d \notin seen  PROVE FALSE
      <4>1. d \in By(someClaims, a) /\ ~ \E y \in releases : y.claim = d
        BY <3>2 DEF Unreleased
      <4>2. QED
        BY <4>1, <3>2, <1>2 DEF Unreleased, ActiveReads, By
    <3>3. QED
      BY <3>1, <3>2
  <2>3. QED
    BY <2>1, <2>2
<1>3. QED
  BY <1>1, <1>2
-----------------------------------------------------------------------------
\* The published claims and anchors are finite: they are counted.
FiniteRecords == IsFiniteSet(claims) /\ IsFiniteSet(anchors)

LEMMA LatestIsARequest ==
    ASSUME NEW a, NEW r \in LatestRequests(a), requests \subseteq Request
    PROVE  r \in requests /\ r \in Request
BY DEF LatestRequests, Latest, Reads

\* What one call of notify_commitment_sealed publishes: the caller's first
\* anchor, for a submitted request, and perhaps a marker that peers accept.
LEMMA NotifyPublishes ==
    ASSUME NEW a, NotifyCommitmentSealed(a)
    PROVE  \E own \in [by : {a}, req : requests] :
             /\ By(anchors, a) = {}
             /\ anchors' = anchors \cup {own}
             /\ \/ markers' = markers
                \/ \E cohort \in SUBSET anchors' :
                     LET m == [by |-> a, cohort |-> cohort]
                     IN  ValidMarker(m, own) /\ markers' = markers \cup {m}
             /\ UNCHANGED <<requests, claims, aged, releases, commitments,
                            attestations, reveals>>
<1>1. PICK local \in Reads(requests, a), network \in Reads(requests, a),
           late \in Reads(markers, a) :
        \E mine \in Latest(local), asked \in Latest(network) :
          LET own == [by |-> a, req |-> mine]
          IN  /\ anchors' = anchors \cup {own}
              /\ \E counted \in Reads(anchors', a) :
                   IF AllSealed(counted, asked) /\ late = {}
                   THEN \E listed \in Reads(anchors', a) :
                          LET m == [by |-> a, cohort |-> listed]
                          IN  ValidMarker(m, own) /\ markers' = markers \cup {m}
                   ELSE UNCHANGED markers
  BY DEF NotifyCommitmentSealed
<1>2. PICK mine \in Latest(local) :
        LET own == [by |-> a, req |-> mine]
        IN  /\ anchors' = anchors \cup {own}
            /\ \/ \E listed \in Reads(anchors', a) :
                    LET m == [by |-> a, cohort |-> listed]
                    IN  ValidMarker(m, own) /\ markers' = markers \cup {m}
               \/ markers' = markers
  BY <1>1
<1> DEFINE own == [by |-> a, req |-> mine]
<1>3. mine \in requests
  BY DEF Latest, Reads
<1>4. own \in [by : {a}, req : requests]
  BY <1>3
<1>5. \/ markers' = markers
      \/ \E cohort \in SUBSET anchors' :
           LET m == [by |-> a, cohort |-> cohort]
           IN  ValidMarker(m, own) /\ markers' = markers \cup {m}
  BY <1>2 DEF Reads
<1>6. QED
  BY <1>2, <1>4, <1>5 DEF NotifyCommitmentSealed

(***************************************************************************)
(* Type correctness: the records published are well formed, and finitely   *)
(* many of those that are counted.                                         *)
(***************************************************************************)
THEOREM TypeCorrect == Spec => [](TypeOK /\ FiniteRecords)
<1>1. Init => TypeOK /\ FiniteRecords
  BY FS_EmptySet DEF Init, TypeOK, FiniteRecords
<1>2. ASSUME TypeOK, FiniteRecords, [Next]_vars
      PROVE  TypeOK' /\ FiniteRecords'
  <2> USE <1>2, RoundAssumption DEF TypeOK, FiniteRecords
  <2>1. ASSUME NEW r \in Request, SubmitValidationRequest(r)
        PROVE  TypeOK' /\ FiniteRecords'
    BY <2>1 DEF SubmitValidationRequest
  <2>2. ASSUME NEW a \in Agent, PublishResearcherCommitment(a)
        PROVE  TypeOK' /\ FiniteRecords'
    BY <2>2 DEF PublishResearcherCommitment, Commitment
  <2>3. ASSUME NEW a \in Agent, ClaimStudy(a)
        PROVE  TypeOK' /\ FiniteRecords'
    <3> DEFINE n == Cardinality(By(claims, a)) + 1
    <3>1. PICK r \in LatestRequests(a) :
            /\ n <= MaxClaims
            /\ claims' = claims \cup {[by |-> a, req |-> r, n |-> n]}
            /\ UNCHANGED <<requests, aged, releases, commitments, anchors,
                           markers, attestations, reveals>>
      BY <2>3 DEF ClaimStudy
    <3>2. n \in 1..MaxClaims
      <4>1. IsFiniteSet(By(claims, a))
        BY FS_Subset DEF By
      <4>2. Cardinality(By(claims, a)) \in Nat
        BY <4>1, FS_CardinalityType
      <4>3. QED
        BY <4>2, <3>1
    <3>3. r \in Request
      BY LatestIsARequest
    <3>4. claims' \subseteq Claim
      BY <3>1, <3>2, <3>3 DEF Claim
    <3>5. IsFiniteSet(claims')
      BY <3>1, FS_AddElement
    <3>6. QED
      BY <3>1, <3>4, <3>5
  <2>4. ASSUME NEW c \in claims, ClaimAges(c)
        PROVE  TypeOK' /\ FiniteRecords'
    BY <2>4 DEF ClaimAges
  <2>5. ASSUME NEW a \in Leaver, ReleaseClaim(a)
        PROVE  TypeOK' /\ FiniteRecords'
    BY <2>5 DEF ReleaseClaim, ClaimsToRelease, ActiveReads, Unreleased, By, Release
  <2>6. ASSUME NEW a \in Reclaimer, NEW c \in claims, ReclaimAbandonedClaim(a, c)
        PROVE  TypeOK' /\ FiniteRecords'
    BY <2>6 DEF ReclaimAbandonedClaim, Release
  <2>7. ASSUME NEW a \in Agent, NotifyCommitmentSealed(a)
        PROVE  TypeOK' /\ FiniteRecords'
    <3>1. PICK own \in [by : {a}, req : requests] :
            /\ anchors' = anchors \cup {own}
            /\ \/ markers' = markers
               \/ \E cohort \in SUBSET anchors' :
                    markers' = markers \cup {[by |-> a, cohort |-> cohort]}
            /\ UNCHANGED <<requests, claims, aged, releases, commitments,
                           attestations, reveals>>
      BY <2>7, NotifyPublishes
    <3>2. own \in Anchor
      BY DEF Anchor
    <3>3. anchors' \subseteq Anchor
      BY <3>1, <3>2
    <3>4. IsFiniteSet(anchors')
      BY <3>1, FS_AddElement
    <3>5. markers' \subseteq Marker
      BY <3>1, <3>3 DEF Marker
    <3>6. QED
      BY <3>1, <3>3, <3>4, <3>5
  <2>8. ASSUME NEW a \in Agent, SubmitAttestation(a)
        PROVE  TypeOK' /\ FiniteRecords'
    BY <2>8 DEF SubmitAttestation, By, Anchor, Attestation
  <2>9. ASSUME NEW a \in Agent, RevealResearcherResult(a)
        PROVE  TypeOK' /\ FiniteRecords'
    BY <2>9, LatestIsARequest DEF RevealResearcherResult, Reveal
  <2>10. ASSUME UNCHANGED vars
         PROVE  TypeOK' /\ FiniteRecords'
    BY <2>10 DEF vars
  <2>11. QED
    BY <1>2, <2>1, <2>2, <2>3, <2>4, <2>5, <2>6, <2>7, <2>8, <2>9, <2>10
    DEF Next
<1>3. QED
  BY <1>1, <1>2, PTL DEF Spec
-----------------------------------------------------------------------------
(***************************************************************************)
(* The blind round, for any number of requests.  BlindUntilQuorum is not   *)
(* inductive: the reveals rest on a marker, the marker on its evidence,    *)
(* and the evidence on anchors that answer submitted requests.             *)
(***************************************************************************)
AnchorsAnswerRequests == \A x \in anchors : x.req \in requests

OpenedFirst ==
    Credentialed /\ (attestations # {} \/ reveals # {}) => markers # {}

RoundInv ==
    /\ AnchorsAnswerRequests
    /\ CohortEvidence
    /\ OpenedFirst

LEMMA SeesOpenOnlyIfOpen ==
    ASSUME NEW a, SeesRevealOpen(a)  PROVE markers # {}
BY DEF SeesRevealOpen, Reads, By

LEMMA RoundInvStep ==
    ASSUME TypeOK, RoundInv, [Next]_vars
    PROVE  RoundInv'
<1> USE DEF RoundInv
<1>1. ASSUME UNCHANGED <<anchors, markers, attestations, reveals>>,
             requests \subseteq requests'
      PROVE  RoundInv'
  BY <1>1 DEF AnchorsAnswerRequests, CohortEvidence, OpenedFirst
<1>2. ASSUME NEW a \in Agent, NotifyCommitmentSealed(a)
      PROVE  RoundInv'
  <2>1. PICK own \in [by : {a}, req : requests] :
          /\ anchors' = anchors \cup {own}
          /\ \/ markers' = markers
             \/ \E cohort \in SUBSET anchors' :
                  LET m == [by |-> a, cohort |-> cohort]
                  IN  ValidMarker(m, own) /\ markers' = markers \cup {m}
          /\ UNCHANGED <<requests, attestations, reveals>>
    BY <1>2, NotifyPublishes
  <2>2. AnchorsAnswerRequests'
    BY <2>1 DEF AnchorsAnswerRequests
  <2>3. CohortEvidence'
    <3>1. CASE markers' = markers
      BY <3>1, <2>1 DEF CohortEvidence
    <3>2. CASE markers' # markers
      <4>1. PICK cohort \in SUBSET anchors' :
              /\ ValidMarker([by |-> a, cohort |-> cohort], own)
              /\ markers' = markers \cup {[by |-> a, cohort |-> cohort]}
        BY <2>1, <3>2
      <4>2. \A m \in markers : m.cohort \subseteq anchors'
        BY <2>1 DEF CohortEvidence
      <4>3. QED
        BY <4>1, <4>2 DEF CohortEvidence, ValidMarker
    <3>3. QED
      BY <3>1, <3>2
  <2>4. OpenedFirst'
    BY <2>1 DEF OpenedFirst
  <2>5. QED
    BY <2>2, <2>3, <2>4
<1>3. ASSUME NEW a \in Agent, SubmitAttestation(a)
      PROVE  RoundInv'
  BY <1>3, SeesOpenOnlyIfOpen
  DEF SubmitAttestation, AnchorsAnswerRequests, CohortEvidence, OpenedFirst
<1>4. ASSUME NEW a \in Agent, RevealResearcherResult(a)
      PROVE  RoundInv'
  BY <1>4, SeesOpenOnlyIfOpen
  DEF RevealResearcherResult, AnchorsAnswerRequests, CohortEvidence, OpenedFirst
<1>5. ASSUME Next  PROVE RoundInv'
  <2>1. ASSUME NEW r \in Request, SubmitValidationRequest(r)  PROVE RoundInv'
    BY <2>1, <1>1 DEF SubmitValidationRequest
  <2>2. ASSUME NEW a \in Agent, PublishResearcherCommitment(a)  PROVE RoundInv'
    BY <2>2, <1>1 DEF PublishResearcherCommitment
  <2>3. ASSUME NEW a \in Agent, ClaimStudy(a)  PROVE RoundInv'
    BY <2>3, <1>1 DEF ClaimStudy
  <2>4. ASSUME NEW c \in claims, ClaimAges(c)  PROVE RoundInv'
    BY <2>4, <1>1 DEF ClaimAges
  <2>5. ASSUME NEW a \in Leaver, ReleaseClaim(a)  PROVE RoundInv'
    BY <2>5, <1>1 DEF ReleaseClaim
  <2>6. ASSUME NEW a \in Reclaimer, NEW c \in claims, ReclaimAbandonedClaim(a, c)
        PROVE  RoundInv'
    BY <2>6, <1>1 DEF ReclaimAbandonedClaim
  <2>7. QED
    BY <1>5, <1>2, <1>3, <1>4, <2>1, <2>2, <2>3, <2>4, <2>5, <2>6 DEF Next
<1>6. QED
  BY <1>5, <1>1 DEF vars

LEMMA RoundInvHolds == Spec => []RoundInv
<1>1. Init => RoundInv
  BY DEF Init, RoundInv, AnchorsAnswerRequests, CohortEvidence, OpenedFirst
<1>2. QED
  BY <1>1, TypeCorrect, RoundInvStep, PTL DEF Spec

(***************************************************************************)
(* Every PhaseMarker proves that one request's whole cohort committed.     *)
(***************************************************************************)
THEOREM MarkersProveCohort == Spec => []CohortEvidence
<1>1. RoundInv => CohortEvidence
  BY DEF RoundInv
<1>2. QED
  BY <1>1, RoundInvHolds, PTL

\* A marker's evidence is a quorum among the anchors.
LEMMA EvidenceIsQuorum ==
    ASSUME FiniteRecords, TypeOK, RoundInv, markers # {}
    PROVE  QuorumCommitted
<1>0. PICK m \in markers : TRUE
  OBVIOUS
<1>1. PICK own \in m.cohort :
        /\ m.cohort \subseteq anchors
        /\ \A x \in m.cohort : x.req = own.req
        /\ Cardinality(Committed(m.cohort)) >= own.req.required
  BY DEF RoundInv, CohortEvidence
<1>2. own.req \in requests
  BY <1>1 DEF RoundInv, AnchorsAnswerRequests
<1>3. Committed(m.cohort) \subseteq Cohort(own.req)
  BY <1>1 DEF Committed, Cohort
<1>4. IsFiniteSet(Cohort(own.req))
  <2>1. Cohort(own.req) \subseteq Agent
    BY DEF Cohort, Committed, TypeOK, Anchor
  <2>2. QED
    BY <2>1, FS_Subset, RoundAssumption
<1>5. /\ Cardinality(Committed(m.cohort)) <= Cardinality(Cohort(own.req))
      /\ Cardinality(Committed(m.cohort)) \in Nat
      /\ Cardinality(Cohort(own.req)) \in Nat
  BY <1>3, <1>4, FS_Subset, FS_CardinalityType
<1>6. own.req.required \in Nat
  BY <1>2, RoundAssumption DEF TypeOK
<1>7. Cardinality(Cohort(own.req)) >= own.req.required
  BY <1>1, <1>5, <1>6
<1>8. QED
  BY <1>2, <1>7 DEF QuorumCommitted

(***************************************************************************)
(* Nothing is revealed on a credentialed network before a quorum of        *)
(* distinct validators has committed.                                      *)
(***************************************************************************)
THEOREM RoundIsBlind == Spec => []BlindUntilQuorum
<1>1. TypeOK /\ FiniteRecords /\ RoundInv => BlindUntilQuorum
  BY EvidenceIsQuorum DEF BlindUntilQuorum, RoundInv, OpenedFirst
<1>2. QED
  BY <1>1, TypeCorrect, RoundInvHolds, PTL
-----------------------------------------------------------------------------
\* A validator's own unreleased claims are among the active ones it reads.
LEMMA OwnLiveClaimsAreRead ==
    ASSUME NEW a, NEW active \in ActiveReads(claims, a), By(active, a) = {}
    PROVE  \A c \in LiveClaims : c.by # a
BY DEF ActiveReads, Unreleased, LiveClaims, By

(***************************************************************************)
(* However stale its view, a validator never holds two live claims: its    *)
(* own claims are in its own store, and releases are for ever.             *)
(***************************************************************************)
THEOREM ClaimsAreSingle == Spec => []SingleLiveClaim
<1>1. Init => SingleLiveClaim
  BY DEF Init, SingleLiveClaim, LiveClaims, Unreleased
<1>2. ASSUME SingleLiveClaim, [Next]_vars  PROVE SingleLiveClaim'
  <2>1. ASSUME UNCHANGED claims, releases \subseteq releases'
        PROVE  SingleLiveClaim'
    BY <1>2, <2>1 DEF SingleLiveClaim, LiveClaims, Unreleased
  <2>2. ASSUME NEW a \in Agent, ClaimStudy(a)  PROVE SingleLiveClaim'
    <3> DEFINE c(r) == [by |-> a, req |-> r, n |-> Cardinality(By(claims, a)) + 1]
    <3>1. PICK r \in LatestRequests(a) :
            claims' = claims \cup {c(r)} /\ UNCHANGED releases
      BY <2>2 DEF ClaimStudy
    <3>2. \A d \in LiveClaims : d.by # a
      <4>1. PICK active \in ActiveReads(claims, a) : By(active, a) = {}
        BY <2>2 DEF ClaimStudy, MayClaim
      <4>2. QED
        BY <4>1, OwnLiveClaimsAreRead
    <3>3. LiveClaims' \subseteq LiveClaims \cup {c(r)}
      BY <3>1 DEF LiveClaims, Unreleased
    <3>4. QED
      BY <1>2, <3>1, <3>2, <3>3 DEF SingleLiveClaim
  <2>3. ASSUME NEW r \in Request, SubmitValidationRequest(r)
        PROVE  SingleLiveClaim'
    BY <2>3, <2>1 DEF SubmitValidationRequest
  <2>4. ASSUME NEW a \in Agent, PublishResearcherCommitment(a)
        PROVE  SingleLiveClaim'
    BY <2>4, <2>1 DEF PublishResearcherCommitment
  <2>5. ASSUME NEW c \in claims, ClaimAges(c)  PROVE SingleLiveClaim'
    BY <2>5, <2>1 DEF ClaimAges
  <2>6. ASSUME NEW a \in Leaver, ReleaseClaim(a)  PROVE SingleLiveClaim'
    BY <2>6, <2>1 DEF ReleaseClaim
  <2>7. ASSUME NEW a \in Reclaimer, NEW c \in claims, ReclaimAbandonedClaim(a, c)
        PROVE  SingleLiveClaim'
    BY <2>7, <2>1 DEF ReclaimAbandonedClaim
  <2>8. ASSUME NEW a \in Agent, NotifyCommitmentSealed(a)  PROVE SingleLiveClaim'
    BY <2>8, <2>1 DEF NotifyCommitmentSealed
  <2>9. ASSUME NEW a \in Agent, SubmitAttestation(a)  PROVE SingleLiveClaim'
    BY <2>9, <2>1 DEF SubmitAttestation
  <2>10. ASSUME NEW a \in Agent, RevealResearcherResult(a)  PROVE SingleLiveClaim'
    BY <2>10, <2>1 DEF RevealResearcherResult
  <2>11. QED
    BY <1>2, <2>1, <2>2, <2>3, <2>4, <2>5, <2>6, <2>7, <2>8, <2>9, <2>10
    DEF Next, vars
<1>3. QED
  BY <1>1, <1>2, PTL DEF Spec

\* Guard 1 passes only with a claim that the validator has not given up.
LEMMA LiveClaimIsOwn ==
    ASSUME NEW a, HoldsLiveClaim(a)
    PROVE  Unreleased(By(claims, a), By(releases, a)) # {}
BY DEF HoldsLiveClaim, ActiveReads

-----------------------------------------------------------------------------
(***************************************************************************)
(* Where commitments come from, for any number of requests: claims were    *)
(* checked, whoever committed had claimed (Guard 1), validators commit     *)
(* after a researcher (Guard 2), and a researcher commits a result for a   *)
(* request of its own.                                                     *)
(***************************************************************************)
ClaimsValid == \A c \in claims : ValidClaim(c.by, c.req)

CommittersClaimed == Credentialed => \A x \in anchors : By(claims, x.by) # {}

ResearcherFirst == Credentialed /\ anchors # {} => commitments # {}

ResearchersAsked ==
    Credentialed => \A k \in commitments : \E r \in requests : r.by = k.by

OriginInv == ClaimsValid /\ CommittersClaimed /\ ResearcherFirst /\ ResearchersAsked

LEMMA ValidClaimIsIndependent ==
    ASSUME NEW a, NEW r, ValidClaim(a, r)
    PROVE  /\ a # r.by
           /\ Institution[a] # NoInstitution
           /\ Institution[a] # Institution[r.by]
BY DEF ValidClaim

LEMMA ByGrows ==
    ASSUME NEW S, NEW T, S \subseteq T, NEW a, By(S, a) # {}  PROVE By(T, a) # {}
BY DEF By

LEMMA OriginInvStep ==
    ASSUME OriginInv, [Next]_vars  PROVE OriginInv'
<1> USE DEF OriginInv
<1>1. ASSUME UNCHANGED <<claims, anchors, commitments>>, requests \subseteq requests'
      PROVE  OriginInv'
  BY <1>1 DEF ClaimsValid, CommittersClaimed, ResearcherFirst, ResearchersAsked
<1>2. ASSUME NEW a \in Agent, PublishResearcherCommitment(a)  PROVE OriginInv'
  <2>1. Credentialed => \E r \in requests : r.by = a
    BY <1>2 DEF PublishResearcherCommitment, LatestRequests, Latest, Reads
  <2>2. /\ commitments' = commitments \cup {[by |-> a]}
        /\ UNCHANGED <<claims, anchors, requests>>
    BY <1>2 DEF PublishResearcherCommitment
  <2> QED
    BY <2>1, <2>2 DEF ClaimsValid, CommittersClaimed, ResearcherFirst, ResearchersAsked
<1>3. ASSUME NEW a \in Agent, ClaimStudy(a)  PROVE OriginInv'
  <2>1. PICK r, n : /\ ValidClaim(a, r)
                    /\ claims' = claims \cup {[by |-> a, req |-> r, n |-> n]}
                    /\ UNCHANGED <<requests, anchors, commitments>>
    BY <1>3 DEF ClaimStudy
  <2>2. ClaimsValid'
    BY <2>1 DEF ClaimsValid, ValidClaim
  <2>3. CommittersClaimed'
    BY <2>1, ByGrows DEF CommittersClaimed
  <2> QED
    BY <2>1, <2>2, <2>3 DEF ResearcherFirst, ResearchersAsked
<1>4. ASSUME NEW a \in Agent, NotifyCommitmentSealed(a)  PROVE OriginInv'
  <2>1. PICK own \in [by : {a}, req : requests] :
          /\ anchors' = anchors \cup {own}
          /\ UNCHANGED <<requests, claims, commitments>>
    BY <1>4, NotifyPublishes
  <2>2. Credentialed => By(claims, a) # {}
    BY <1>4, LiveClaimIsOwn DEF NotifyCommitmentSealed, Unreleased
  <2>3. Credentialed => commitments # {}
    BY <1>4 DEF NotifyCommitmentSealed, SeesCommitment, Reads, By
  <2>4. CommittersClaimed'
    BY <2>1, <2>2 DEF CommittersClaimed, By
  <2> QED
    BY <2>1, <2>3, <2>4 DEF ClaimsValid, ResearcherFirst, ResearchersAsked
<1>5. ASSUME Next  PROVE OriginInv'
  BY <1>5, <1>1, <1>2, <1>3, <1>4
  DEF Next, SubmitValidationRequest, ClaimAges, ReleaseClaim, ReclaimAbandonedClaim,
      SubmitAttestation, RevealResearcherResult
<1> QED
  BY <1>1, <1>5 DEF vars

LEMMA OriginInvHolds == Spec => []OriginInv
<1>1. Init => OriginInv
  BY DEF Init, OriginInv, ClaimsValid, CommittersClaimed, ResearcherFirst,
         ResearchersAsked
<1> QED
  BY <1>1, OriginInvStep, PTL DEF Spec

(***************************************************************************)
(* However many researchers ask for the study, whoever commits claimed it  *)
(* for one that it is independent of, after one of them was bound.         *)
(***************************************************************************)
THEOREM CommittersAreIndependent == Spec => []IndependentWhereClaimed
<1>1. ASSUME OriginInv, Credentialed, NEW x \in anchors
      PROVE  /\ \E c \in By(claims, x.by) :
                   c.req.by # x.by /\ Institution[c.req.by] # Institution[x.by]
             /\ \E k \in commitments, r \in requests : r.by = k.by
  <2>1. PICK c \in claims : c.by = x.by
    BY <1>1 DEF OriginInv, CommittersClaimed, By
  <2>2. ValidClaim(x.by, c.req)
    BY <1>1, <2>1 DEF OriginInv, ClaimsValid
  <2>3. \E k \in commitments, r \in requests : r.by = k.by
    BY <1>1 DEF OriginInv, ResearcherFirst, ResearchersAsked
  <2> QED
    BY <2>1, <2>2, <2>3, ValidClaimIsIndependent DEF By
<1>2. OriginInv => IndependentWhereClaimed
  BY <1>1 DEF IndependentWhereClaimed
<1> QED
  BY <1>2, OriginInvHolds, PTL
=============================================================================
