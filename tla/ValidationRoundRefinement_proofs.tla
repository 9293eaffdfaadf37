------------------ MODULE ValidationRoundRefinement_proofs ------------------
(***************************************************************************)
(* Proofs that relate the records of a study to one another: that any      *)
(* number of requests make a BlindRound together, and, for a study with    *)
(* one request, what holds between its researcher and its cohort.  Nothing *)
(* binds the anchors and commitments of two requests to each other.        *)
(***************************************************************************)
EXTENDS ValidationRoundRefinement, ValidationRound_proofs

SoleRequest == \E r : Request = {r}

(***************************************************************************)
(* Nobody who commits made the request or works where its maker does.      *)
(***************************************************************************)
THEOREM CohortIsIndependent ==
    ASSUME SoleRequest  PROVE Spec => []IndependentCohort
<1>1. ASSUME TypeOK, OriginInv, Credentialed, NEW x \in anchors
      PROVE  /\ x.by # x.req.by
             /\ Institution[x.by] # NoInstitution
             /\ Institution[x.by] # Institution[x.req.by]
  <2>1. PICK c \in claims : c.by = x.by
    BY <1>1 DEF OriginInv, CommittersClaimed, By
  <2>2. ValidClaim(x.by, c.req)
    BY <1>1, <2>1 DEF OriginInv, ClaimsValid
  <2>3. c.req = x.req
    BY <1>1 DEF SoleRequest, TypeOK, Claim, Anchor
  <2> QED
    BY <2>2, <2>3, ValidClaimIsIndependent
<1>2. TypeOK /\ OriginInv => IndependentCohort
  BY <1>1 DEF IndependentCohort
<1> QED
  BY <1>2, TypeCorrect, OriginInvHolds, PTL

\* Once the researcher committed, its own commitment is in its store and no
\* second one is published.
LEMMA OneResearcherCommitment ==
    ASSUME SoleRequest, TypeOK, OriginInv, Credentialed, commitments # {},
           NEW a \in Agent
    PROVE  ~ PublishResearcherCommitment(a)
<1> SUFFICES ASSUME PublishResearcherCommitment(a)  PROVE FALSE
  OBVIOUS
<1>1. PICK r \in requests : r.by = a
  BY DEF PublishResearcherCommitment, LatestRequests, Latest, Reads
<1>2. PICK k \in commitments, q \in requests : q.by = k.by
  BY DEF OriginInv, ResearchersAsked
<1>3. q = r
  BY DEF SoleRequest, TypeOK
<1>4. By(commitments, a) # {}
  BY <1>1, <1>2, <1>3 DEF By
<1> QED
  BY <1>4 DEF PublishResearcherCommitment, Reads

(***************************************************************************)
(* Validators commit after the researcher's commitment is published, and   *)
(* it is the last one.                                                     *)
(***************************************************************************)
THEOREM ResearcherIsBoundFirst ==
    ASSUME SoleRequest  PROVE Spec => BoundBeforeWork
<1>1. ASSUME TypeOK, OriginInv, OriginInv', [Next]_vars, Credentialed, anchors' # {}
      PROVE  commitments # {} /\ commitments' = commitments
  <2>1. ASSUME commitments' # commitments
        PROVE  \E a \in Agent : PublishResearcherCommitment(a) /\ UNCHANGED anchors
    BY <1>1, <2>1
    DEF Next, vars, SubmitValidationRequest, PublishResearcherCommitment,
        ClaimStudy, ClaimAges, ReleaseClaim, ReclaimAbandonedClaim,
        NotifyCommitmentSealed, SubmitAttestation, RevealResearcherResult
  <2>2. commitments' = commitments
    BY <1>1, <2>1, OneResearcherCommitment DEF OriginInv, ResearcherFirst
  <2> QED
    BY <1>1, <2>2 DEF OriginInv, ResearcherFirst
<1>2. TypeOK /\ OriginInv /\ OriginInv' /\ [Next]_vars =>
        [Credentialed /\ anchors' # {} =>
            commitments # {} /\ commitments' = commitments]_vars
  BY <1>1
<1> QED
  BY <1>2, OriginInvHolds, TypeCorrect, PTL DEF Spec, BoundBeforeWork
-----------------------------------------------------------------------------
(***************************************************************************)
(* The round keeps the promise of BlindRound, step by step.                *)
(***************************************************************************)
StudyInv == TypeOK /\ FiniteRecords /\ RoundInv /\ OriginInv

LEMMA StudyInvHolds == Spec => []StudyInv
BY TypeCorrect, RoundInvHolds, OriginInvHolds, PTL DEF StudyInv

LEMMA CommittedAreAgents ==
    ASSUME TypeOK  PROVE Committed(anchors) \subseteq Agent
BY DEF TypeOK, Anchor, Committed

\* An open round has a quorum of committed validators.
LEMMA OpenHasQuorum ==
    ASSUME StudyInv, markers # {}  PROVE Committed(anchors) \in SomeQuorum
<1> USE DEF StudyInv
<1>1. PICK r \in requests : Cardinality(Cohort(r)) >= r.required
  BY EvidenceIsQuorum DEF QuorumCommitted
<1>2. r \in Request /\ r.required \in Nat
  BY RoundAssumption DEF TypeOK
<1>3. Cohort(r) \subseteq Committed(anchors) /\ Committed(anchors) \subseteq Agent
  BY CommittedAreAgents DEF Cohort, Committed
<1>4. IsFiniteSet(Committed(anchors))
  BY <1>3, FS_Subset, RoundAssumption
<1>5. /\ Cardinality(Cohort(r)) <= Cardinality(Committed(anchors))
      /\ Cardinality(Cohort(r)) \in Nat /\ Cardinality(Committed(anchors)) \in Nat
  BY <1>3, <1>4, FS_Subset, FS_CardinalityType
<1>6. Cardinality(Committed(anchors)) >= r.required
  BY <1>1, <1>2, <1>5
<1> QED
  BY <1>2, <1>3, <1>6 DEF SomeQuorum

\* Whoever committed had claimed, and a claim was checked.
LEMMA CommittersAreEligible ==
    ASSUME StudyInv, Credentialed, NEW x \in anchors  PROVE x.by \in Eligible
<1>1. PICK c \in claims : c.by = x.by
  BY DEF StudyInv, OriginInv, CommittersClaimed, By
<1>2. ValidClaim(x.by, c.req)
  BY <1>1 DEF StudyInv, OriginInv, ClaimsValid
<1> QED
  BY <1>2 DEF Eligible, StudyInv, TypeOK, Claim, Anchor

\* A call that leaves the mapped state alone is a stutter.
LEMMA StutterKeepsPromise ==
    ASSUME UNCHANGED <<commitments, anchors, markers, attestations, reveals>>
    PROVE  [Promise!RoundNext]_(Promise!roundVars)
BY DEF Promise!roundVars, Committed

\* The commitment of a second researcher binds nobody anew.
LEMMA PublishKeepsPromise ==
    ASSUME Credentialed, StudyInv, NEW a \in Agent, PublishResearcherCommitment(a)
    PROVE  [Promise!RoundNext]_(Promise!roundVars)
<1>1. /\ commitments' # {}
      /\ UNCHANGED <<anchors, markers, attestations, reveals>>
  BY DEF PublishResearcherCommitment
<1>2. CASE commitments = {}
  <2>1. anchors = {}
    BY <1>2 DEF StudyInv, OriginInv, ResearcherFirst
  <2>2. Promise!BindResearcher
    BY <1>1, <1>2, <2>1 DEF Promise!BindResearcher, Committed
  <2> QED
    BY <2>2 DEF Promise!RoundNext
<1>3. CASE commitments # {}
  BY <1>1, <1>3 DEF Promise!roundVars, Committed
<1> QED
  BY <1>2, <1>3

LEMMA CommittedAfterAdd ==
    ASSUME NEW as, NEW x
    PROVE  Committed(as \cup {x}) = Committed(as) \cup {x.by}
BY DEF Committed

LEMMA NotifyKeepsPromise ==
    ASSUME Credentialed, StudyInv, StudyInv', NEW a \in Agent, NotifyCommitmentSealed(a)
    PROVE  [Promise!RoundNext]_(Promise!roundVars)
<1>1. PICK own \in [by : {a}, req : requests] :
        /\ By(anchors, a) = {}
        /\ anchors' = anchors \cup {own}
        /\ \/ markers' = markers
           \/ \E cohort \in SUBSET anchors' :
                markers' = markers \cup {[by |-> a, cohort |-> cohort]}
        /\ UNCHANGED <<requests, commitments, attestations, reveals>>
  BY NotifyPublishes
<1>2. a \notin Committed(anchors) /\ Committed(anchors') = Committed(anchors) \cup {a}
  BY <1>1, CommittedAfterAdd DEF Committed, By
<1>3. commitments # {}
  BY DEF NotifyCommitmentSealed, SeesCommitment, Reads, By
<1>4. a \in Eligible
  <2>1. PICK c \in claims : c.by = a
    BY LiveClaimIsOwn DEF NotifyCommitmentSealed, Unreleased, By
  <2>2. ValidClaim(a, c.req) /\ c.req \in Request
    BY <2>1 DEF StudyInv, OriginInv, ClaimsValid, TypeOK, Claim
  <2> QED
    BY <2>2 DEF Eligible
<1>5. \/ UNCHANGED (markers # {})
      \/ Committed(anchors') \in SomeQuorum /\ markers' # {}
  <2>1. CASE markers' = markers
    BY <2>1
  <2>2. CASE markers' # markers
    <3>1. markers' # {}
      BY <1>1, <2>2
    <3>2. (markers # {})'
      BY <3>1
    <3>3. Committed(anchors') \in SomeQuorum
      <4>1. StudyInv' /\ (markers # {})' => (Committed(anchors) \in SomeQuorum)'
        BY OpenHasQuorum, PTL
      <4> QED
        BY <4>1, <3>2 DEF Committed, SomeQuorum
    <3> QED
      BY <3>1, <3>3
  <2> QED
    BY <2>1, <2>2
<1>6. Promise!Bind(a)
  BY <1>1, <1>2, <1>3, <1>5 DEF Promise!Bind, Committed
<1> QED
  BY <1>4, <1>6 DEF Promise!RoundNext

LEMMA AttestKeepsPromise ==
    ASSUME Credentialed, StudyInv, NEW a \in Agent, SubmitAttestation(a)
    PROVE  [Promise!RoundNext]_(Promise!roundVars)
<1>1. PICK x \in By(anchors, a) :
        attestations' = attestations \cup {[by |-> a, req |-> x.req]}
  BY DEF SubmitAttestation
<1>2. a \in Committed(anchors) \ Committed(attestations)
  BY <1>1 DEF SubmitAttestation, HasNotRevealed, By, Committed
<1>3. Committed(attestations') = Committed(attestations) \cup {a}
  BY <1>1, CommittedAfterAdd
<1>4. markers # {}
  BY SeesOpenOnlyIfOpen DEF SubmitAttestation
<1>5. a \in Eligible
  BY <1>1, CommittersAreEligible DEF By
<1>6. Promise!Show(a)
  BY <1>2, <1>3, <1>4 DEF SubmitAttestation, Promise!Show, Committed
<1> QED
  BY <1>5, <1>6 DEF Promise!RoundNext

\* The reveal of a second researcher shows no first result.
LEMMA RevealKeepsPromise ==
    ASSUME NEW a \in Agent, RevealResearcherResult(a)
    PROVE  [Promise!RoundNext]_(Promise!roundVars)
<1>1. /\ reveals' # {}
      /\ UNCHANGED <<commitments, anchors, markers, attestations>>
  BY DEF RevealResearcherResult
<1>2. markers # {}
  BY SeesOpenOnlyIfOpen DEF RevealResearcherResult
<1>3. CASE reveals = {}
  <2>1. Promise!ShowResult
    BY <1>1, <1>2, <1>3 DEF Promise!ShowResult, Committed
  <2> QED
    BY <2>1 DEF Promise!RoundNext
<1>4. CASE reveals # {}
  BY <1>1, <1>4 DEF Promise!roundVars, Committed
<1> QED
  BY <1>3, <1>4

(***************************************************************************)
(* On a credentialed network the round of a study implements BlindRound,   *)
(* whatever each node has received and however many researchers ask for    *)
(* it: a researcher is bound first, then those who may validate, each      *)
(* once; nothing is shown before a quorum is bound, and nothing twice.     *)
(***************************************************************************)
THEOREM RoundKeepsPromise == ASSUME Credentialed  PROVE Spec => KeepsPromise
<1>1. Init => Promise!RoundInit
  BY DEF Init, Promise!RoundInit, Committed
<1>2. ASSUME StudyInv, StudyInv', [Next]_vars
      PROVE  [Promise!RoundNext]_(Promise!roundVars)
  <2>1. ASSUME NEW r \in Request, SubmitValidationRequest(r)
        PROVE  [Promise!RoundNext]_(Promise!roundVars)
    BY <2>1, StutterKeepsPromise DEF SubmitValidationRequest
  <2>2. ASSUME NEW a \in Agent, ClaimStudy(a)
        PROVE  [Promise!RoundNext]_(Promise!roundVars)
    BY <2>2, StutterKeepsPromise DEF ClaimStudy
  <2>3. ASSUME NEW c \in claims, ClaimAges(c)
        PROVE  [Promise!RoundNext]_(Promise!roundVars)
    BY <2>3, StutterKeepsPromise DEF ClaimAges
  <2>4. ASSUME NEW a \in Leaver, ReleaseClaim(a)
        PROVE  [Promise!RoundNext]_(Promise!roundVars)
    BY <2>4, StutterKeepsPromise DEF ReleaseClaim
  <2>5. ASSUME NEW a \in Reclaimer, NEW c \in claims, ReclaimAbandonedClaim(a, c)
        PROVE  [Promise!RoundNext]_(Promise!roundVars)
    BY <2>5, StutterKeepsPromise DEF ReclaimAbandonedClaim
  <2>6. ASSUME UNCHANGED vars
        PROVE  [Promise!RoundNext]_(Promise!roundVars)
    BY <2>6, StutterKeepsPromise DEF vars
  <2> QED
    BY <1>2, <2>1, <2>2, <2>3, <2>4, <2>5, <2>6, PublishKeepsPromise,
       NotifyKeepsPromise, AttestKeepsPromise, RevealKeepsPromise DEF Next
<1> QED
  BY <1>1, <1>2, StudyInvHolds, PTL DEF Spec, KeepsPromise, Promise!RoundSpec
=============================================================================
