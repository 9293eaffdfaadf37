-------------------------- MODULE ValidationRound --------------------------
(***************************************************************************)
(* One study's commit-reveal round: the calls of the attestation           *)
(* coordinator and the checks of the attestation integrity zome.           *)
(*                                                                         *)
(* A zome call is one action: Holochain keeps a call's writes in a scratch *)
(* space and publishes all of them or, when a write fails validation,      *)
(* none.  A call that returns an error or finds nothing to do leaves the   *)
(* state alone and is a stuttering step.  The integrity zome's checks on a *)
(* create are conjuncts of the action that creates (the Valid operators).  *)
(*                                                                         *)
(* Commitment hashes and nonces are left out: an anchor or a commitment    *)
(* stands for the sealed content itself, and a reveal of other content is  *)
(* a refused call.  reject_if_warranted refuses agents with warrants, and  *)
(* an agent that runs this code earns none.                                *)
(***************************************************************************)
EXTENDS ValidationRoundState

-----------------------------------------------------------------------------
(***************************************************************************)
(* Faulty variants of operators below, no part of the model: what the code *)
(* would be with a check lost or a limit moved.  Each must break the       *)
(* property it is named for in PROJECT.json.                               *)
(***************************************************************************)
\* claim_study without its already_claimed check.
MayClaimTwice(a, r, active) == Cardinality(active) < r.required

\* The StudyClaim check without the conflict-of-interest comparison.
ValidClaimOfColleague(a, r) == a # r.by /\ Institution[a] # NoInstitution

\* notify_commitment_sealed without Guard 1.
NeedsNoClaim(a) == TRUE

\* notify_commitment_sealed without Guard 2.
NeedsNoCommitment(a) == TRUE

\* Guard 2 with a read of the caller's own records in place of the network's.
SeesOwnCommitment(a) == By(commitments, a) # {}

\* get_current_phase with a read of the caller's own records in place of the
\* network's.
SeesOwnMarker(a) == By(markers, a) # {}

\* get_current_phase taken for open before any marker was written.
PhaseAlwaysOpen(a) == TRUE

\* The PhaseMarker check without the distinct-validator count and the
\* same-request rule.
ValidMarkerByOwnAnchor(m, own) == own \in m.cohort

\* The duplicate guard of submit_attestation inverted: only a caller that has
\* revealed may reveal.
OnlyAgain(a) == By(attestations, a) # {}

\* The author comparison of a ResearcherReveal inverted.
ValidRevealOfAnother(a, r, c) == Credentialed => r.by # a /\ c.by = a
-----------------------------------------------------------------------------
ValidRequest(r) ==
    /\ r.required >= 1
    /\ r.required >= MinimumValidators

SubmitValidationRequest(r) ==
    /\ {} \in Reads(requests, r.by)
    /\ ValidRequest(r)
    /\ requests' = requests \cup {r}
    /\ UNCHANGED <<claims, aged, releases, commitments, anchors, markers,
                   attestations, reveals>>

\* The requests that may be the latest agent a reads.
LatestRequests(a) == UNION {Latest(seen) : seen \in Reads(requests, a)}

\* publish_researcher_commitment has no phase gate: only the first guard keeps
\* it from running after the validators have committed.
PublishResearcherCommitment(a) ==
    /\ {} \in Reads(commitments, a)
    /\ Credentialed => a \in {r.by : r \in LatestRequests(a)}
    /\ commitments' = commitments \cup {[by |-> a]}
    /\ UNCHANGED <<requests, claims, aged, releases, anchors, markers,
                   attestations, reveals>>
-----------------------------------------------------------------------------
\* No agent validates its own request; a validator names an institution, and
\* not the one the researcher named.
ValidClaim(a, r) ==
    /\ a # r.by
    /\ Institution[a] # NoInstitution
    /\ Institution[r.by] # NoInstitution => Institution[a] # Institution[r.by]

\* claim_study counts the claims it sees active, and refuses a second one of
\* the caller's.
MayClaim(a, r, active) ==
    /\ Cardinality(active) < r.required
    /\ By(active, a) = {}

ClaimStudy(a) ==
    LET n == Cardinality(By(claims, a)) + 1
    IN  \E r \in LatestRequests(a) :
            /\ n <= MaxClaims
            /\ ValidClaim(a, r)
            /\ {active \in ActiveReads(claims, a) : MayClaim(a, r, active)} # {}
            /\ claims' = claims \cup {[by |-> a, req |-> r, n |-> n]}
            /\ UNCHANGED <<requests, aged, releases, commitments, anchors,
                           markers, attestations, reveals>>

\* Time passes: a claim reaches the age at which it may be reclaimed.  Nothing
\* but ReclaimAbandonedClaim asks.
ClaimAges(c) ==
    /\ Reclaimer # {}
    /\ c \notin aged
    /\ aged' = aged \cup {c}
    /\ UNCHANGED <<requests, claims, releases, commitments, anchors, markers,
                   attestations, reveals>>

\* Peers accept a release of any published claim by anyone; who may release is
\* up to the coordinator.
ValidRelease(x) == x.claim \in claims

\* The claims of agent a's own that it finds still to be released.
ClaimsToRelease(a) == ActiveReads(By(claims, a), a) \ {{}}

\* Releases every claim of a that a does not see released.  Neither this nor
\* ReclaimAbandonedClaim asks whether the claimant has committed.
ReleaseClaim(a) ==
    \E held \in ClaimsToRelease(a) :
        /\ \A c \in held : ValidRelease([by |-> a, claim |-> c])
        /\ releases' = releases \cup {[by |-> a, claim |-> c] : c \in held}
        /\ UNCHANGED <<requests, claims, aged, commitments, anchors, markers,
                       attestations, reveals>>

ReclaimAbandonedClaim(a, c) ==
    /\ c \in aged
    /\ {} \in Reads(By(attestations, c.by), a)
    /\ {c} \in ActiveReads({c}, a)
    /\ ValidRelease([by |-> a, claim |-> c])
    /\ releases' = releases \cup {[by |-> a, claim |-> c]}
    /\ UNCHANGED <<requests, claims, aged, commitments, anchors, markers,
                   attestations, reveals>>
-----------------------------------------------------------------------------
\* Guard 1: the caller holds a claim of which it sees no release.
HoldsLiveClaim(a) == \E held \in ActiveReads(By(claims, a), a) : held # {}

\* Guard 2: the caller sees the researcher's commitment.
SeesCommitment(a) == Reads(commitments, a) # {{}}

\* Peers accept an anchor of its author's own that answers a published request.
ValidAnchor(a, x) == x.by = a /\ x.req \in requests

\* Peers accept a marker whose author committed, whose anchors all answer the
\* author's request, and that shows the whole cohort.
ValidMarker(m, own) ==
    /\ own \in m.cohort
    /\ \A x \in m.cohort : x.req = own.req
    /\ Cardinality(Committed(m.cohort)) >= own.req.required

\* The quorum test of check_all_commitments_sealed: distinct authors of the
\* anchors read, against a request read from the network.
AllSealed(seenAnchors, r) == Cardinality(Committed(seenAnchors)) >= r.required

\* The anchor names the latest request of the caller's own store; the quorum
\* is that of the latest one on the network.  The phase is read twice, at the
\* gate and before the marker is written, and a marker that arrives in between
\* suppresses the second one.  So are the anchors: to count them, and to list
\* them in the marker.  An invalid marker takes the whole call with it, the
\* anchor included.
NotifyCommitmentSealed(a) ==
    /\ {} \in Reads(markers, a)
    /\ By(anchors, a) = {}
    /\ Credentialed => HoldsLiveClaim(a)
    /\ Credentialed => SeesCommitment(a)
    /\ \E local \in Reads(requests, a), network \in Reads(requests, a),
          late \in Reads(markers, a) :
        /\ local \subseteq network
        /\ \E mine \in Latest(local), asked \in Latest(network) :
            LET own == [by |-> a, req |-> mine]
            IN  /\ ValidAnchor(a, own)
                /\ anchors' = anchors \cup {own}
                /\ \E counted \in Reads(anchors', a) :
                     IF AllSealed(counted, asked) /\ late = {}
                     THEN \E listed \in Reads(anchors', a) :
                            LET m == [by |-> a, cohort |-> listed]
                            IN  ValidMarker(m, own) /\ markers' = markers \cup {m}
                     ELSE UNCHANGED markers
    /\ UNCHANGED <<requests, claims, aged, releases, commitments,
                   attestations, reveals>>

\* get_current_phase as agent a reads it.
SeesRevealOpen(a) == Reads(markers, a) # {{}}

\* The duplicate guard of submit_attestation.
HasNotRevealed(a) == By(attestations, a) = {}

\* Peers accept an attestation that rests on an anchor of its author's own and
\* states the terms of the request which that anchor answers.
ValidAttestation(y, x) ==
    /\ x.by = y.by
    /\ x.req = y.req

SubmitAttestation(a) ==
    \E x \in By(anchors, a) :
        LET y == [by |-> a, req |-> x.req]
        IN  /\ Credentialed => SeesRevealOpen(a)
            /\ HasNotRevealed(a)
            /\ ValidAttestation(y, x)
            /\ attestations' = attestations \cup {y}
            /\ UNCHANGED <<requests, claims, aged, releases, commitments, anchors,
                           markers, reveals>>

\* Peers accept a reveal that answers the revealer's own request and its own
\* commitment; without an issuer any author may reveal.  The coordinator's own
\* author test, on its local store, asks no more.
ValidReveal(a, r, c) == Credentialed => r.by = a /\ c.by = a

RevealResearcherResult(a) ==
    \E r \in LatestRequests(a), c \in commitments :
        /\ {} \in Reads(reveals, a)
        /\ SeesRevealOpen(a)
        /\ ValidReveal(a, r, c)
        /\ reveals' = reveals \cup {[by |-> a, req |-> r]}
        /\ UNCHANGED <<requests, claims, aged, releases, commitments, anchors,
                       markers, attestations>>
-----------------------------------------------------------------------------
Next ==
    \/ \E r \in Request : SubmitValidationRequest(r)
    \/ \E a \in Agent : PublishResearcherCommitment(a)
    \/ \E a \in Agent : ClaimStudy(a)
    \/ \E c \in claims : ClaimAges(c)
    \/ \E a \in Leaver : ReleaseClaim(a)
    \/ \E a \in Reclaimer, c \in claims : ReclaimAbandonedClaim(a, c)
    \/ \E a \in Agent : NotifyCommitmentSealed(a)
    \/ \E a \in Agent : SubmitAttestation(a)
    \/ \E a \in Agent : RevealResearcherResult(a)

Spec == Init /\ [][Next]_vars

\* The callers of submit_attestation and reveal_researcher_result poll the
\* phase until it is open and then reveal, so a reveal whose records are
\* published is not put off for ever.
FairSpec ==
    /\ Spec
    /\ \A a \in Agent : WF_vars(SubmitAttestation(a))
    /\ \A a \in Agent : WF_vars(RevealResearcherResult(a))

\* Everybody who can act does: studies are submitted and claimed, results and
\* assessments are sealed, and nothing is left to a reluctant participant.
EagerSpec ==
    /\ FairSpec
    /\ \A r \in Request : WF_vars(SubmitValidationRequest(r))
    /\ \A a \in Agent : /\ WF_vars(PublishResearcherCommitment(a))
                        /\ WF_vars(ClaimStudy(a))
                        /\ WF_vars(NotifyCommitmentSealed(a))
-----------------------------------------------------------------------------
\* The claims no published release vacates.
LiveClaims == Unreleased(claims, releases)

\* The validators that committed to request r.
Cohort(r) == Committed({x \in anchors : x.req = r})

QuorumCommitted == \E r \in requests : Cardinality(Cohort(r)) >= r.required

(***************************************************************************)
(* The round is blind: on a credentialed network no validator's assessment *)
(* and no researcher's result is public before as many distinct validators *)
(* as a request asks for have committed (#51, #52: the phase gates of      *)
(* submit_attestation and reveal_researcher_result, and the evidence a     *)
(* PhaseMarker must carry).                                                *)
(***************************************************************************)
BlindUntilQuorum ==
    Credentialed /\ (attestations # {} \/ reveals # {}) => QuorumCommitted

(***************************************************************************)
(* Whoever opens the reveal phase proves that the cohort committed: every  *)
(* PhaseMarker lists its author's own anchor and published anchors only,   *)
(* all for one request, from as many distinct validators as it asks for.   *)
(***************************************************************************)
CohortEvidence ==
    \A m \in markers :
        /\ m.cohort \subseteq anchors
        /\ \E own \in m.cohort :
              /\ own.by = m.by
              /\ \A x \in m.cohort : x.req = own.req
              /\ Cardinality(Committed(m.cohort)) >= own.req.required

(***************************************************************************)
(* The researcher is bound first: on a credentialed network a validator    *)
(* commits only after the researcher's commitment is published (Guard 2 of *)
(* notify_commitment_sealed), and none is published after that.            *)
(***************************************************************************)
BoundBeforeWork ==
    [][Credentialed /\ anchors' # {} =>
          commitments # {} /\ commitments' = commitments]_vars

(***************************************************************************)
(* No validator ever holds two live claims on the study, however stale its *)
(* view and whoever released its earlier ones (the already_claimed check   *)
(* of claim_study, over reads that may miss other agents' releases).       *)
(***************************************************************************)
SingleLiveClaim ==
    \A c, d \in LiveClaims : c.by = d.by => c = d

(***************************************************************************)
(* The cohort is independent: on a credentialed network nobody who         *)
(* committed to a request made it or shares the requester's institution.   *)
(* The anchor check does not ask; it rests on the claim check and Guard 1. *)
(***************************************************************************)
IndependentCohort ==
    Credentialed =>
        \A x \in anchors : /\ x.by # x.req.by
                            /\ Institution[x.by] # NoInstitution
                            /\ Institution[x.by] # Institution[x.req.by]

(***************************************************************************)
(* With several requests for the data the claim check looks at the one the *)
(* validator claims, and the anchor names whichever is latest.  What is    *)
(* left of independence: nobody commits who has not claimed the study for  *)
(* a researcher other than itself, of another institution, and nobody      *)
(* before one who asked for validation is bound to a result.               *)
(***************************************************************************)
IndependentWhereClaimed ==
    Credentialed =>
        \A x \in anchors :
            /\ \E c \in By(claims, x.by) :
                  c.req.by # x.by /\ Institution[c.req.by] # Institution[x.by]
            /\ \E k \in commitments, r \in requests : r.by = k.by

(***************************************************************************)
(* The reveal completes: once the reveal phase is open, every validator    *)
(* that committed, whenever it did, comes to publish its attestation.      *)
(***************************************************************************)
RevealCompletes ==
    \A a \in Agent :
        (markers # {} /\ By(anchors, a) # {}) ~> (By(attestations, a) # {})
-----------------------------------------------------------------------------
(***************************************************************************)
(* What the repository says of the round, and the code does not do.        *)
(***************************************************************************)
\* The phase opens once every required validator has committed (the comment
\* on Signal::RevealOpen).
RoundOpens == QuorumCommitted ~> (markers # {})
=============================================================================
