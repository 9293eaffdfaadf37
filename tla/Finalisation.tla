---------------------------- MODULE Finalisation ----------------------------
(***************************************************************************)
(* Finalisation of one study's round: the writes of the governance         *)
(* coordinator and the checks of the governance integrity zome.            *)
(*                                                                         *)
(* A zome call is one action: its writes are published together or, when   *)
(* one of them fails validation, not at all.  A call that returns an error *)
(* or None leaves the state alone and is a stuttering step; so does one    *)
(* whose cross-DNA call fails, which the code turns into None.             *)
(*                                                                         *)
(* Attestations enter with the request they answer and their outcome.      *)
(* Signatures, discipline, durations, hardware and the network name are    *)
(* left out: an agent that runs this code derives them from the evidence   *)
(* as its peers do.  No agent that runs this code is warranted.            *)
(***************************************************************************)
EXTENDS FinalisationState

-----------------------------------------------------------------------------
(***************************************************************************)
(* Faulty variants of operators below, no part of the model: what the code *)
(* would be with a check lost or a limit moved.  Each must break the       *)
(* property it is named for in PROJECT.json.                               *)
(***************************************************************************)
\* The HarmonyRecord check without check_attestation_evidence's completeness
\* rules.
ValidRecordOfAnySize(h) ==
    /\ h.by \in Participants(h)
    /\ Cardinality(Participants(h)) >= MinRequired

\* The liveness gate without the exception for claimants that have attested.
NobodyHoldsAClaim(atts, someClaims, someReleases) ==
    Unreleased(someClaims, someReleases) = {}

\* The idempotency check lost.
NeverMindRecords(a) == TRUE
-----------------------------------------------------------------------------
\* The round as the governance coordinator sees it through the attestation
\* coordinator of a credentialed network; Study shows that it is such a round.
RequestMade(r) ==
    /\ By(requests, r.by) = {}
    /\ requests' = requests \cup {r}
    /\ UNCHANGED <<claims, releases, attestations, timedOut, records, badges,
                   badgePaths, reputations>>

ClaimMade(v) ==
    /\ requests # {}
    /\ \E n \in 1..MaxClaims : claims' = claims \cup {[by |-> v, n |-> n]}
    /\ UNCHANGED <<requests, releases, attestations, timedOut, records, badges,
                   badgePaths, reputations>>

\* A validator gives its claims up, or somebody else reclaims one.
ClaimsReleased(a, held) ==
    /\ \/ a \in Leaver /\ held \subseteq By(claims, a)
       \/ a \in Reclaimer /\ \E c \in claims : held = {c}
    /\ releases' = releases \cup {[by |-> a, claim |-> c] : c \in held}
    /\ UNCHANGED <<requests, claims, attestations, timedOut, records, badges,
                   badgePaths, reputations>>

\* A validator that holds or held a claim reveals, once.
AttestationMade(v, r, o) ==
    /\ r \in requests
    /\ By(claims, v) # {}
    /\ By(attestations, v) = {}
    /\ attestations' = attestations \cup {[by |-> v, req |-> r, outcome |-> o]}
    /\ UNCHANGED <<requests, claims, releases, timedOut, records, badges,
                   badgePaths, reputations>>

\* Time passes: a request reaches round_timeout_secs.
RequestTimesOut(r) ==
    /\ r \in requests
    /\ timedOut' = timedOut \cup {r}
    /\ UNCHANGED <<requests, claims, releases, attestations, records, badges,
                   badgePaths, reputations>>
-----------------------------------------------------------------------------
\* The signed attestations a record carries answer one request, as many as that
\* request asks for, or fewer once it timed out.
CheckAttestationEvidence(h) ==
    \E r \in Request :
        /\ \A x \in h.evidence : x.req = r
        /\ h.requested = r.required
        /\ Cardinality(h.evidence) < r.required => r \in timedOut

\* Peers accept a record by one of its participants that reports neither more of
\* them than were requested nor fewer than the network requires.
ValidRecord(h) ==
    /\ h.by \in Participants(h)
    /\ Cardinality(Participants(h)) <= h.requested
    /\ Cardinality(Participants(h)) >= MinRequired
    /\ CheckAttestationEvidence(h)

\* The badge of record h that a may issue: to whoever made the request a reads
\* as the study's.
EarnedBadge(h) == EvaluateBadge(AgreementOf(h), Cardinality(Participants(h)))

ValidBadge(b) ==
    /\ b.by \in Participants(b.record)
    /\ AcceptableBadge(b.type, AgreementOf(b.record),
                       Cardinality(Participants(b.record)))

TryIssueBadge(a, h) ==
    \E r \in LatestRequests(a) :
        LET b == [by |-> a, record |-> h, type |-> EarnedBadge(h), to |-> r.by]
        IN  /\ EarnedBadge(h) # NoBadge
            /\ ValidBadge(b)
            /\ badges' = badges \cup {b}
            /\ badgePaths' = badgePaths \cup {[by |-> a, badge |-> b]}

\* Without a badge in sight, issue one; with one whose index link is not in
\* sight, write the link.
IssueBadgeIfMissing(a, h) ==
    \/ {} \in Reads(badges, a) /\ TryIssueBadge(a, h)
    \/ \E b \in badges :
          LET paths == {p \in badgePaths : p.badge = b}
          IN
          /\ Cardinality(paths) < MaxBadgePaths
          /\ {} \in Reads(paths, a)
          /\ badgePaths' = badgePaths \cup {[by |-> a, badge |-> b]}
          /\ UNCHANGED badges

Succeeded(x) ==
    IF x.outcome \in {"Reproduced", "PartiallyReproduced"} THEN 1 ELSE 0

\* An AI validator whose certification cannot be looked up, and that declared
\* no type when it attested, is taken for a human.
KindsSeen(v) == IF v \in Automated THEN {"AI", "Human"} ELSE {"Human"}

\* What a's update for attestation x may add: an AI validator starts at the tier
\* it was granted.
UpdatesFor(a, x) ==
    UNION {UNION {Updates(a, x.by, kind, Succeeded(x), granted, reputations) :
                    granted \in Tiers} :
             kind \in KindsSeen(x.by)}

\* A writer that is the system coordinator updates its participants'
\* reputations, those of them whose update does not fail.
UpdateReputations(a, h) ==
    IF a \notin Coordinator THEN UNCHANGED reputations
    ELSE \E updated \in SUBSET h.evidence :
         \E added \in [updated -> UNION {UpdatesFor(a, x) : x \in updated}] :
            /\ \A x \in updated : added[x] \in UpdatesFor(a, x)
            /\ reputations' = reputations \cup UNION {added[x] : x \in updated}

\* The badge may be deferred: the attestation cell may be busy with the very
\* call that led here.
WriteHarmonyRecord(a, atts, n) ==
    LET h == [by |-> a, evidence |-> atts, requested |-> n]
    IN  /\ ValidRecord(h)
        /\ records' = records \cup {h}
        /\ TryIssueBadge(a, h) \/ UNCHANGED <<badges, badgePaths>>
        /\ UpdateReputations(a, h)

\* The idempotency check of both finalising calls.
SeesNoRecord(a) == {} \in Reads(records, a)

\* The round is complete with as many attestations as the latest request asks
\* for.  A caller that sees a record only mends the badge of the latest one it
\* sees.
CheckAndCreateHarmonyRecord(a) ==
    /\ \/ /\ SeesNoRecord(a)
          /\ \E atts \in Reads(attestations, a), r \in LatestRequests(a) :
                /\ Cardinality(atts) >= r.required
                /\ WriteHarmonyRecord(a, atts, r.required)
       \/ /\ \E h \in records : IssueBadgeIfMissing(a, h)
          /\ UNCHANGED <<records, reputations>>
    /\ UNCHANGED round

\* No claimant is still working: whoever holds a claim has attested.
NobodyStillWorking(atts, someClaims, someReleases) ==
    \A c \in Unreleased(someClaims, someReleases) : c.by \in Authors(atts)

\* force_finalize_round by a that sees no record, with what it reads of the
\* attestation DHT.  The age and the size of the cohort are those of the latest
\* request, which is read anew for the second.
ForceFinalize(a, latest, atts, someClaims, someReleases) ==
    /\ Cardinality(atts) >= MinRequired
    /\ latest \cap timedOut # {}
    /\ NobodyStillWorking(atts, someClaims, someReleases)
    /\ \E r \in latest : WriteHarmonyRecord(a, atts, r.required)
    /\ UNCHANGED round

ForceFinalizeRound(a) ==
    /\ SeesNoRecord(a)
    /\ \E atts \in Reads(attestations, a), someClaims \in Reads(claims, a),
          someReleases \in Reads(releases, a) :
        ForceFinalize(a, LatestRequests(a), atts, someClaims, someReleases)

\* The hourly sweep of a node to which everything has been gossiped.
SweepTimedOutRounds(a) ==
    /\ records = {}
    /\ ForceFinalize(a, Latest(requests), attestations, claims, releases)
-----------------------------------------------------------------------------
RoundNext ==
    \/ \E r \in Request : RequestMade(r)
    \/ \E v \in Validator : ClaimMade(v)
    \/ \E a \in Agent, held \in SUBSET claims : ClaimsReleased(a, held)
    \/ \E v \in Validator, r \in Request, o \in Verdict : AttestationMade(v, r, o)
    \/ \E r \in Request : RequestTimesOut(r)

Next ==
    \/ RoundNext
    \/ \E a \in Agent : CheckAndCreateHarmonyRecord(a)
    \/ \E a \in Agent : ForceFinalizeRound(a)

\* What a round hands over, before anybody finalises.
RoundSpec == Init /\ [][RoundNext]_vars

Spec == Init /\ [][Next]_vars

\* The conductor runs every node's sweep each hour, and gossip reaches every
\* node, so a sweep that sees everything does not stay away for ever.
Sweeps(a) == WF_vars(SweepTimedOutRounds(a))

FairSpec == Spec /\ \A a \in Agent : Sweeps(a)
-----------------------------------------------------------------------------
(***************************************************************************)
(* A record never passes a part of a round off as the whole: its evidence  *)
(* is published attestations that all answer one request, its author's     *)
(* among them, and they are as many as that request asks for unless it has *)
(* timed out (#11, #47).  The count the coordinator gates on may be that   *)
(* of another request.                                                     *)
(***************************************************************************)
RecordsAreWhole ==
    \A h \in records :
        /\ h.evidence \subseteq attestations
        /\ h.by \in Participants(h)
        /\ \E r \in Request :
              /\ \A x \in h.evidence : x.req = r
              /\ \/ Cardinality(h.evidence) = r.required
                 \/ Cardinality(h.evidence) < r.required /\ r \in timedOut

(***************************************************************************)
(* Finalisation is settled: a record of a request that has not timed out,  *)
(* and one as large as its request asks for, rest on every attestation     *)
(* that answers the request, unless it has more of them than it asked for. *)
(* So all such records carry one verdict, whoever wrote them and whatever  *)
(* they saw, and nothing is lost by calls that race (the TOCTOU note of    *)
(* check_and_create_harmony_record); what a sweep closed short is a part   *)
(* of them.                                                                *)
(***************************************************************************)
FullRecordsAgree ==
    \A h \in records, r \in Request :
        LET answering == {x \in attestations : x.req = r}
        IN  (/\ h.evidence \subseteq answering
             /\ Cardinality(answering) <= r.required
             /\ r \notin timedOut \/ Cardinality(h.evidence) = r.required)
              => h.evidence = answering

(***************************************************************************)
(* A badge is backed by what was published: at least three validators      *)
(* attested to one request, and a reproducible badge never stands on a     *)
(* cohort of which most did not reproduce the result.                      *)
(***************************************************************************)
BadgesAreBacked ==
    \A b \in badges :
        LET backing == {x \in attestations : x.by \in Participants(b.record)}
            reproduced == {x \in backing : Succeeded(x) = 1}
        IN  /\ b.record \in records
            /\ Cardinality(backing) >= 3
            /\ b.type # "Failed" =>
                  2 * Cardinality(reproduced) >= Cardinality(backing)

(***************************************************************************)
(* A study counts once: where one coordinator key writes reputations, no   *)
(* validator's count grows by more than one for the study, however often   *)
(* the finalising calls are repeated.                                      *)
(***************************************************************************)
StudyCountsOnce ==
    Cardinality(Coordinator) = 1 => \A x \in reputations : x.total <= 1

\* What the sweep can close: every request has timed out, whoever holds a
\* claim has attested, and all attestations answer one request, not more than
\* it asks for.  The latest request has to ask for as many as that one: the
\* sweep reports its size, and peers refuse a size that is not the answered
\* request's (CheckAttestationEvidence).
Closable ==
    /\ timedOut = requests
    /\ Cardinality(attestations) >= MinRequired
    /\ \A c \in Unreleased(claims, releases) : By(attestations, c.by) # {}
    /\ \E r \in requests :
          /\ \A x \in attestations : x.req = r
          /\ Cardinality(attestations) <= r.required
          /\ \A s \in Latest(requests) : s.required = r.required

(***************************************************************************)
(* A round that has timed out and that nobody works on any more is         *)
(* recorded: the sweep of a participant closes it without a live client    *)
(* (sweep_timed_out_rounds).                                               *)
(***************************************************************************)
EventuallyRecorded == <>[]Closable => <>(records # {})
-----------------------------------------------------------------------------
(***************************************************************************)
(* What the repository says of finalisation, and the code does not do.     *)
(***************************************************************************)
\* The sweep finalises the rounds whose timeout has elapsed (the header of
\* sweep_timed_out_rounds), those of a cohort larger than asked for included.
SweepCloses ==
    <>[](/\ timedOut = requests
         /\ attestations # {}
         /\ \A c \in claims : By(attestations, c.by) # {})
      => <>(records # {})
=============================================================================
