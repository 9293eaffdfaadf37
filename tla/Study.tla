------------------------------- MODULE Study -------------------------------
(***************************************************************************)
(* A whole study: the sealed round, and what the governance DNA makes of   *)
(* the records that the attestation DNA hands it.  The mapping forgets the *)
(* request in a claim, what was committed, and the terms and work in an    *)
(* attestation but for the request it answers and its outcome.             *)
(*                                                                         *)
(* A cross-DNA call that fails is a stuttering step of its caller, and the *)
(* call that a reveal makes to finalise is a step of its own: it finds the *)
(* reveal published or not.  AI validators and the readings of clocks are  *)
(* left to Finalisation and Supersession.                                  *)
(***************************************************************************)
EXTENDS SealedRound

CONSTANTS
    MinAttestations,  \* DNA property min_attestations_for_finalization
    Coordinator,      \* the agents validate() accepts as reputation authors
    MaxBadgePaths     \* bound: index links of one badge

VARIABLES
    timedOut,      \* as in Finalisation
    records,
    badges,
    badgePaths,
    reputations

governance == <<timedOut, records, badges, badgePaths, reputations>>

studyVars == <<sealedVars, governance>>

-----------------------------------------------------------------------------
\* What the governance coordinator reads of a claim.
Claimed(c) == [by |-> c.by, n |-> c.n]

ClaimsHanded       == {Claimed(c) : c \in claims}
ReleasesHanded     == {[by |-> x.by, claim |-> Claimed(x.claim)] : x \in releases}
AttestationsHanded == {[by |-> y.by, req |-> y.draft.terms,
                        outcome |-> y.draft.finding] : y \in shown}

Final == INSTANCE Finalisation WITH
    Validator    <- Agent,
    Automated    <- {},
    Verdict      <- {d.finding : d \in Draft},
    claims       <- ClaimsHanded,
    releases     <- ReleasesHanded,
    attestations <- AttestationsHanded

ASSUME StudyAssumption ==
    /\ MinAttestations \in Nat
    /\ Coordinator \subseteq Agent
    /\ MaxBadgePaths \in Nat
    /\ IsFiniteSet(Request)
    /\ \A r \in Request : r.required # 0
    /\ \A d \in Draft : d.finding \in Final!Outcomes

Finalises(a) ==
    /\ UNCHANGED sealedVars
    /\ Final!CheckAndCreateHarmonyRecord(a) \/ Final!ForceFinalizeRound(a)

TimesOut(r) == UNCHANGED sealedVars /\ Final!RequestTimesOut(r)

\* The hourly sweep of a node to which everything has been gossiped.
Sweep(a) == UNCHANGED sealedVars /\ Final!SweepTimedOutRounds(a)
-----------------------------------------------------------------------------
StudyInit ==
    /\ SealedInit
    /\ timedOut = {}
    /\ records = {}
    /\ badges = {}
    /\ badgePaths = {}
    /\ reputations = {}

StudyNext ==
    \/ SealedNext /\ UNCHANGED governance
    \/ \E r \in requests : TimesOut(r)
    \/ \E a \in Agent : Finalises(a)

StudySpec == StudyInit /\ [][StudyNext]_studyVars

Sweeps(a) == WF_studyVars(Sweep(a))

FairStudySpec == StudySpec /\ \A a \in Agent : Diligent(a) /\ Sweeps(a)
-----------------------------------------------------------------------------
(***************************************************************************)
(* A verdict is earned: on a credentialed network nothing is recorded      *)
(* before the researcher is bound and a quorum has committed, and every    *)
(* attestation behind a record is one that its author had sealed, with     *)
(* that finding, and committed to for the request it answers, through      *)
(* every call from the private workspace to the HarmonyRecord.             *)
(***************************************************************************)
VerdictsAreEarned ==
    \A h \in records :
        /\ Credentialed => QuorumCommitted /\ commitments # {}
        /\ \A x \in h.evidence :
              /\ \E k \in By(anchors, x.by) : k.req = x.req
              /\ \E g \in By(hashes, x.by), s \in By(seals, x.by) :
                    /\ s.copy.finding = x.outcome
                    /\ g.hash = CommitmentHash(Rebuilt(s.copy), Nonce(s))

(***************************************************************************)
(* What governance does with the rounds that the attestation DNA runs is   *)
(* what Finalisation does with the rounds it assumes: a validator attests  *)
(* once, for one of the requests, with the outcome it sealed, and only     *)
(* after it held a claim (Guard 1 of notify_commitment_sealed, the         *)
(* duplicate guard and the stamped terms of submit_attestation), however   *)
(* claims, releases, retries, reveals and finalising calls interleave.     *)
(***************************************************************************)
FinalisesRealRounds == Final!Spec

\* Every request has timed out, and whoever holds a claim has committed; all
\* committed to one request, enough of them and not more than it asks for,
\* which is as many as the latest request asks for.
Overdue ==
    /\ markers # {}
    /\ timedOut = requests
    /\ \A c \in LiveClaims : By(anchors, c.by) # {}
    /\ Cardinality(Committed(anchors)) >= Final!MinRequired
    /\ \E r \in requests : /\ \A x \in anchors : x.req = r
                           /\ Cardinality(Committed(anchors)) <= r.required
                           /\ \A s \in Latest(requests) : s.required = r.required

(***************************************************************************)
(* A study whose reveal phase opened ends in a record: polling validators  *)
(* reveal what they sealed, and the hourly sweep then closes the round,    *)
(* whichever calls failed on the way.                                      *)
(***************************************************************************)
OpenedStudiesAreRecorded == <>[]Overdue => <>(records # {})
=============================================================================
