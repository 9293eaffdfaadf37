------------------------- MODULE FinalisationState -------------------------
(***************************************************************************)
(* What the governance coordinator works on for one study: the claims and  *)
(* attestations it is handed by the attestation coordinator of its own     *)
(* node (DNA 3), and the records it publishes on the governance DHT        *)
(* (DNA 4).                                                                *)
(***************************************************************************)
EXTENDS ReputationRules, Outcome

CONSTANTS
    Agent,            \* keys that have joined the network
    Request,          \* the ValidationRequests made for the study
    Verdict,          \* the outcomes validators report
    MinAttestations,  \* DNA property min_attestations_for_finalization
    Coordinator,      \* the agents validate() accepts as reputation authors
    Leaver,           \* the validators that release their own claims
    Reclaimer,        \* the agents that release other agents' claims
    MaxClaims,        \* bound: claims one validator makes on the study
    MaxBadgePaths     \* bound: index links of one badge

ASSUME FinalisationAssumption ==
    /\ IsFiniteSet(Agent)
    /\ Validator \subseteq Agent
    /\ IsFiniteSet(Request)
    /\ Request \subseteq [by : Agent, at : Nat, required : Nat \ {0}]
    /\ Verdict \subseteq Outcomes
    /\ MinAttestations \in Nat
    /\ Coordinator \subseteq Agent
    /\ Leaver \subseteq Validator
    /\ Reclaimer \subseteq Agent
    /\ MaxClaims \in Nat
    /\ MaxBadgePaths \in Nat

VARIABLES
    requests,      \* the ValidationRequests published
    claims,        \* StudyClaims
    releases,      \* StudyClaimReleases
    attestations,  \* ValidationAttestations, each stating the request it answers
    timedOut,      \* the requests older than round_timeout_secs
    records,       \* HarmonyRecords, with RequestToHarmonyRecord
    badges,        \* ReproducibilityBadges, with StudyToBadge
    badgePaths,    \* BadgePath links
    reputations    \* ValidatorReputations, with ValidatorToReputation

vars == <<requests, claims, releases, attestations, timedOut, records, badges,
          badgePaths, reputations>>

round == <<requests, claims, releases, attestations, timedOut>>

Claim       == [by : Validator, n : 1..MaxClaims]
Release     == [by : Agent, claim : Claim]
Attestation == [by : Validator, req : Request, outcome : Verdict]
Harmony     == [by : Agent, evidence : SUBSET Attestation, requested : Nat]
Badge       == [by : Agent, record : Harmony, type : Badges, to : Agent]
BadgePath   == [by : Agent, badge : Badge]
Reputations ==
    [by : Coordinator, of : Validator, total : Nat, successful : Nat,
     tier : Tiers, n : Nat]

TypeOK ==
    /\ requests \subseteq Request
    /\ claims \subseteq Claim
    /\ releases \subseteq Release
    /\ attestations \subseteq Attestation
    /\ timedOut \subseteq requests
    /\ records \subseteq Harmony
    /\ badges \subseteq Badge
    /\ badgePaths \subseteq BadgePath
    /\ reputations \subseteq Reputations

Init ==
    /\ requests = {}
    /\ claims = {}
    /\ releases = {}
    /\ attestations = {}
    /\ timedOut = {}
    /\ records = {}
    /\ badges = {}
    /\ badgePaths = {}
    /\ reputations = {}
-----------------------------------------------------------------------------
\* The requests that may be the latest agent a reads, of all for the study's data.
LatestRequests(a) == UNION {Latest(seen) : seen \in Reads(requests, a)}

\* The validators behind some attestations.
Authors(atts) == {x.by : x \in atts}

\* participating_validators of a HarmonyRecord.
Participants(h) == Authors(h.evidence)

TallyOf(atts) ==
    [o \in Outcomes |-> Cardinality({x \in atts : x.outcome = o})]

\* The fields of a HarmonyRecord that follow from its evidence.
OutcomeOf(h)   == DeriveMajorityOutcome(TallyOf(h.evidence))
AgreementOf(h) == DeriveAgreementLevel(TallyOf(h.evidence))

\* min_attestations_for_finalization, of which 0 means 1.
MinRequired == IF MinAttestations = 0 THEN 1 ELSE MinAttestations
=============================================================================
