------------------------ MODULE ValidationRoundState ------------------------
(***************************************************************************)
(* The records of one study's round on the shared Attestation DHT (DNA 3)  *)
(* and what follows from them.                                             *)
(*                                                                         *)
(* The state is what has been published: sets of records that only grow,   *)
(* each record standing for an entry together with its links.              *)
(***************************************************************************)
EXTENDS Published

CONSTANTS
    Agent,             \* keys that have joined the network
    Request,           \* the ValidationRequests that may be submitted for the study
    Institution,       \* the institution of each agent's latest profile
    NoInstitution,     \* the empty institution string
    MinimumValidators, \* DNA property minimum_validators
    Credentialed,      \* DNA property authorized_joining_certificate_issuer is set
    Leaver,            \* the agents that may give up a claim
    Reclaimer,         \* the agents that may reclaim abandoned claims
    MaxClaims          \* bound: claims one agent makes on the study

ASSUME RoundAssumption ==
    /\ IsFiniteSet(Agent)
    /\ Request \subseteq [by : Agent, at : Nat, required : Nat]
    /\ MinimumValidators \in Nat
    /\ MaxClaims \in Nat
    /\ Credentialed \in BOOLEAN
    /\ Leaver \subseteq Agent
    /\ Reclaimer \subseteq Agent

VARIABLES
    requests,     \* ValidationRequests under the study's path
    claims,       \* StudyClaims, with RequestToClaim and ValidatorToClaim
    aged,         \* the claims older than the reclaim timeout
    releases,     \* StudyClaimReleases, with their three links
    commitments,  \* ResearcherResultCommitments
    anchors,      \* CommitmentAnchors, with RequestToCommitment
    markers,      \* PhaseMarkers; the only phase written is RevealOpen
    attestations, \* ValidationAttestations, with ValidatorToAttestation
    reveals       \* ResearcherReveals

vars == <<requests, claims, aged, releases, commitments, anchors, markers,
          attestations, reveals>>

Claim       == [by : Agent, req : Request, n : 1..MaxClaims]
Release     == [by : Agent, claim : Claim]
Commitment  == [by : Agent]
Anchor      == [by : Agent, req : Request]
Marker      == [by : Agent, cohort : SUBSET Anchor]
Attestation == [by : Agent, req : Request]
Reveal      == [by : Agent, req : Request]

TypeOK ==
    /\ requests \subseteq Request
    /\ claims \subseteq Claim
    /\ aged \subseteq claims
    /\ releases \subseteq Release
    /\ commitments \subseteq Commitment
    /\ anchors \subseteq Anchor
    /\ markers \subseteq Marker
    /\ attestations \subseteq Attestation
    /\ reveals \subseteq Reveal

Init ==
    /\ requests = {}
    /\ claims = {}
    /\ aged = {}
    /\ releases = {}
    /\ commitments = {}
    /\ anchors = {}
    /\ markers = {}
    /\ attestations = {}
    /\ reveals = {}
-----------------------------------------------------------------------------
\* What is left of some claims after a reads which were released: any of them
\* that a has not released itself, and at least a's own that nobody released.
\* These are the sets Unreleased(c, x) with c and x any reads of the claims and
\* of the releases (LEMMA ActiveReadsAreReads).
ActiveReads(someClaims, a) ==
    {seen \in SUBSET Unreleased(someClaims, By(releases, a)) :
        Unreleased(By(someClaims, a), releases) \subseteq seen}

\* The distinct validators behind a set of anchors.
Committed(as) == {x.by : x \in as}
=============================================================================
