# Verification of the ValiChord core

ValiChord lets independent validators reproduce a computational study without
seeing each other's answers. It is a Holochain application of four DNAs; every
participant runs all of them on a node of its own, and nodes share records
through a DHT that promises neither order nor promptness. This directory holds
TLA+ models of the core of the Rust code, TLC runs on small instances, and
TLAPS proofs for all values of the constants.

Paths below are relative to `src/`; `AC`, `AI`, `GC`, `GI` stand for the
`lib.rs` of `attestation_coordinator`, `attestation_integrity`,
`governance_coordinator` and `governance_integrity` under `valichord/dnas/`,
`ST` for `valichord/shared_types`, and `WC`, `WI`, `RC`, `RI` for the
coordinator and integrity zomes of `validator_workspace` and
`researcher_repository`.

To check: `tlc -workers 2 -config MC_<run>.cfg <module>.tla` with the modules
named in the table of runs, and `tlapm <module>_proofs.tla`.

## 1. Inventory

How a study travels: the researcher locks a result in the private DNA 1 and
publishes its hash in DNA 3 together with a ValidationRequest; validators claim
the study in DNA 3, work, seal their attestation in the private DNA 2, whose
`post_commit` notifies DNA 3 of the commitment. The commitment that completes
the quorum writes the PhaseMarker; everybody reveals; a participant's node
finalises the round in DNA 4 with a HarmonyRecord, a badge and reputation
updates.

| Component | State | Operations | Talks to | What is hard | What makes it correct |
|---|---|---|---|---|---|
| Attestation round, DNA 3 (`AC`, `AI`) | requests, claims, releases, researcher commitments, anchors, phase markers, attestations, reveals | `submit_validation_request`, `claim_study`, `release_claim`, `reclaim_abandoned_claim`, `publish_researcher_commitment`, `notify_commitment_sealed`, `submit_attestation`, `reveal_researcher_result` | called by DNA 1 and 2 and by clients; calls DNA 4 after a reveal | no lock anywhere: each call reads the DHT and then writes; reads are stale; two requests for one data hash; concurrent commits | blindness until the quorum, evidence for every marker, independence of the cohort, one live claim each, reveals complete |
| Finalisation and badges, DNA 4 (`GC`, `GI`) | HarmonyRecords, ReproducibilityBadges, badge index links | `check_and_create_harmony_record`, `force_finalize_round`, `sweep_timed_out_rounds`, `issue_badge_if_missing` | reads DNA 3 by cross-DNA calls, which may fail or re-enter a busy cell | concurrent finalisers, timeouts, retries, partial failure inside one call | records are whole, concurrent records agree, badges are backed, a round left alone is closed |
| Outcome rules (`ST`, `GI`) | none | `derive_majority_outcome`, `derive_agreement_level`, `evaluate_badge`, `badge_ceiling` | used by coordinator and peers | thresholds, ties, two copies of one table | the copies agree; one more answer moves the level the right way |
| Reputation, DNA 4 (`GC`, `GI`) | ValidatorReputations and their tagged links | `_update_reputation_internal`, `get_validator_reputation` | called by finalisation and by the reputation service | read-modify-write over stale reads, tag width | no invented work; a study counts once; an AI validator's record stays as it is |
| Validator workspace, DNA 2 (`WC`, `WI`) | tasks, sealed attestations, recusals | `receive_task`, `seal_private_attestation`, `record_deliberate_abstention`, `post_commit` | calls DNA 3 after the commit | a crash or a refusal between commit and notification; a study that is a task twice; fields hashed and not kept | every anchor can be opened by its author; what is revealed is what was sealed; a lost notification is made good |
| Researcher repository, DNA 1 (`RC`, `RI`) | studies, protocols, snapshots, deviations, locked results | `lock_researcher_result`, `get_locked_result` and private creates | calls DNA 3 before its own commit | the second of two writes fails; another attempt | a lock that is held opens what was published; its holder comes to reveal |
| Membrane, certificates (`AI`, `AC`) | one certificate per agent | `genesis_self_check`, `validate`, `check_joining_certificate`, `check_profile_certification` | external issuers | two issuers, each for one kind of validator | nobody chooses its certification |
| Profiles, discovery (`AC`, `AI`) | profile versions, two indexes | `publish_validator_profile`, `update_validator_profile`, lookups | read by claims and reputation | two orders: a clock in a link tag and the action's timestamp; updates that merge into the latest version | no update undoes another; the two orders agree |
| Difficulty assessments | one per assessor | `assess_difficulty` | none | none | advisory |
| Identity links (`AC`, `AI`) | link entries, tagged links, deletes | `sign_for_identity_link`, `link_agent_identity`, `revoke_agent_identity_link` | the second signature comes from outside | signatures stay good after a revocation; both agents may link at once | a revoked link is not put back by whoever made it |
| Supersession (`GC`, `GI`) | statements that one record supersedes another | `supersede_harmony_record` | reads records | several parties, clocks of their own, several researchers for one study | a latest record is left; only the parties to a record link it |
| Governance decisions | decisions | `create_governance_decision` | none | none | coordinator key only |
| Immutability guards | all published records | `validate` of updates and deletes | all | none at run time | published records only accumulate |
| Commitment format (`ST`) | none | `commitment_msgpack_bytes`, hash with a nonce | DNA 1, 2, 3 | fields the coordinator stamps after the hash | a reveal equals what was sealed |
| Web interface, demo nodes, tests | presentation, drivers | | all DNAs | | evidence for who retries what |

`PROJECT.json` lists the same components with their status and the hazards at
their lines.

## 2. Modules

| Module | Models | Lines up with |
|---|---|---|
| `Published` | what a call may read of a DHT | `get_links` and `get`, by their use in `AC` and `GC` |
| `ValidationRoundState`, `ValidationRound` | one study's round: state, and one action per zome call with the integrity checks its creates must pass | `AC` 122-2037, `AI` 706-1250 |
| `BlindRound` | the abstract specification: what a blind round promises | |
| `ValidationRoundRefinement` | the refinement mapping, for any number of requests for one study | |
| `Outcome`, `VoteCount` | the outcome rules as operators on tallies; tallies that grow one answer at a time | `ST` 264-810, `GI` 494-548, 770-826 |
| `ReputationRules`, `Reputation` | how the next record is derived; the service that calls it | `GC` 712-728, 901-938, 1173-1321 |
| `FinalisationState`, `Finalisation` | the writes of DNA 4 for one study; `EXTENDS` the two above | `GC` 112-694, 1009-1171, 1323-1379, `GI` 382-548, 877-1038 |
| `Supersession` | finalisation, and what is said of its records afterwards | `GC` 740-890, `GI` 190-230, 1050-1139 |
| `ValidatorWorkspace` | the private stores of the validators, and what a commitment binds | `WC` 45-358, `WI` 33-118, `ST` 588-623 |
| `ResearcherRepository` | the researchers' locked results | `RC` 207-317, `RI` 60-88 |
| `SealedRound` | the two above composed with `ValidationRound`: every call between DNAs 1, 2 and 3, and the hashes | `WC` 292-358, `RC` 207-289, `AC` 219-384, 1385-1602, 1788-1928 |
| `Study` | `SealedRound` and `Finalisation` in one state space: a study across all four DNAs | `AC` 971-1000, 1142-1190, `GC` 112-424, 1323-1379 |
| `Profiles` | joining, certificates, profiles and lookups | `AC` 105-115, 386-558, 1223-1255, 2093-2126, `AI` 160-230, 1252-1372 |
| `IdentityLinks` | the links between keys | `AC` 2245-2426, `AI` 376-407 |
| `Directory` | `Profiles` and `IdentityLinks` side by side | |
| `*_proofs` | theorems and their proofs | |
| `MC*` | instances for TLC | |

Most modules hold a section of faulty variants of their operators, each the
code with a check lost. They are no part of the model: putting one in the place
of the operator must break the property `PROJECT.json` names for it.

### How state and actions correspond to the code

*Records.* DHT entries are immutable and validation refuses their deletion, so
the state is a set of published records per entry type and only grows. An entry
and the links created with it are one record: a zome call publishes all its
writes or none. That is also why each call is one action.

*Reads.* A call of agent `a` that reads a set of records gets any subset that
contains `a`'s own (`Reads(published, a)`). This is weaker than any gossip
order: staleness differs from read to read of one call, and nobody ever has to
have received anything. `GetStrategy::Local` and `Network` are the same choice,
for a network read may be answered by an authority that lacks the record.
Where two reads in one call are compared (`Reads` of claims and of releases)
they are chosen apart; `ActiveReads` gives the sets that result, and the lemma
`ActiveReadsAreReads` proves that it gives exactly those.

*Errors.* A call that returns an error, or finds nothing to do, changes nothing
and is a stuttering step. A cross-DNA call that fails ends in one of these,
except where the code goes on without the answer: the badge in
`WriteHarmonyRecord` and the certification lookup (`KindsSeen`), which are
disjuncts.

*Time.* Two timeouts matter, and both are facts that become true at a moment
nobody controls: a claim may be reclaimed (`ClaimAges`), a request is timed out
(`RequestTimesOut`).

*Calls between DNAs.* The cells of one node commit apart. `post_commit` calls
DNA 3 after the seal is committed: the call may be refused or fail, and a
conductor that stops before it does not repeat it (`PostCommit`). A client may
repeat it, as the signal `CommitmentNotifyFailed` asks (`RetryNotify`).
`lock_researcher_result` calls DNA 3 before its own commit: the commitment is
published, and the lock may be lost (`KeptOrLost`); then the guard against a
second lock does not bite, and the guard of DNA 3 does.

*Abstraction.* In `ValidationRound` an anchor or a commitment stands for the
sealed content itself, and a reveal of something else is a refused call;
`SealedRound` brings the content, the hash and the nonce back, with SHA-256
taken to be injective and nonces to be fresh. A signature is membership of the
set of things signed. An assessment has three parts: what was found, the work
behind it, and the terms that the coordinator stamps on it. In the round and in
finalisation institutions, validator types and the coordinator key are
constants; `Profiles` says where they come from.
`Credentialed` says whether `authorized_joining_certificate_issuer` is set,
which switches the checks `AC` and `AI` make only in production. Warrants do not
occur: an agent that runs this code earns none. Discipline, durations,
signatures and network names are left out of records. In `Outcome` the rates
compared as `f64` are compared as integers, which agrees for fewer than 256
attestations.

*Several markers, several requests.* `submit_validation_request` checks that
the data hash has no request and then writes one: two researchers who do not
see each other both succeed, and every reader takes the one it sees with the
latest timestamp (`Latest`). `notify_commitment_sealed` reads the request twice,
once from its own store for the anchor and once from the network for the
quorum, the marker twice, at the gate and before it writes one, and the anchors
twice, to count them and to list them in the marker; the action makes each of
those reads apart.

*Finalisation's view of the round.* `Finalisation` does not run the round
again. Its five `round` variables hold what `GC` obtains from DNA 3, with the
steps that may change them (`RoundNext`): a researcher makes its request, a
validator claims, gives its claims up or has one reclaimed, a validator that has
held a claim attests to one of the requests once, and requests time out.
Finalisation never asks which request was answered: the age of the round, the
size of its cohort and the recipient of a badge are those of the request it reads
as the latest for the data hash (`LatestRequests`; `AC` 674, 698), each read
anew. Its peers do ask, and refuse a record whose size is not that of the request
its evidence answers (`CheckAttestationEvidence`, `GI` 959). For the safety
properties the reads may be of anything published; the sweep that is fair has
everything, so its latest request is `Latest(requests)` and no other, and
`Closable`, the premise of `EventuallyRecorded`, has to say that this request
asks for as many as the answered one (section 6 says what happens when not).
`Study` puts the two together: its `Finalises(a)` is
`Finalisation` instantiated with what a `SealedRound` has published, in the
terms governance reads it in (`ClaimsHanded`, `ReleasesHanded`,
`AttestationsHanded`). Every behaviour of a study on a credentialed network is
then one of `Finalisation` (`FinalisesRealRounds`, checked and proved), so what
is shown of records and badges holds of the rounds that DNA 3 really runs.
Without an issuer DNA 3 does not ask for a claim before a commitment, and the
relation fails. AI validators and the clocks of supersessions stay in
`Finalisation` and `Supersession`.

*Two orders of profiles.* Each profile has a number, its place on its author's
chain (the action's timestamp never steps back there), and a tag, the reading
of a clock which may. Properties about the latest profile are stated for
validators whose clock has been steady, for otherwise they fail.

## 3. Runs

| Run | Module | Shows | States |
|---|---|---|---|
| `round_safety` | `MCValidationRound` | one request for two validators, contended by three and by a colleague of the researcher, one of which may claim again; claims are released, age and are reclaimed: blindness, independence, order, single claims | 244,308 |
| `round_race` | `MCValidationRound` | two researchers with a request each: evidence, what is left of independence, and that the round implements `BlindRound` | 287,977 |
| `study` | `MCStudy` | a whole study: two validators, one given the study twice and free to withdraw, the other to recuse itself; two assessments; notifications that fail and are repeated, locks that are lost, everyone finalises: seals and locks open, reveals and recorded verdicts are what was sealed, nobody is stuck, retries and reveals happen, the fair `BlindRound` is implemented, the rounds recorded are those of `Finalisation`, and an opened study ends in a record | 47,280 |
| `directory` | `MCDirectory` | a human and an AI validator with certificates of two issuers, one of them of the wrong one, whose profiles are published and updated under clocks that step back, and who link and revoke their keys | 425,712 |
| `votes` | `VoteCount` | every count of up to eleven attestations, past every threshold of every rate and badge | 1,365 |
| `reputation` | `MCReputation` | two coordinators update a human and an AI validator from stale records | 13,585 |
| `final_races` | `MCFinalisation` | two researchers ask for one study, the second for as many validators or for fewer; claims are reclaimed, one participant has the coordinator key, one is an AI validator, and everyone finalises at once and again: records are whole, full ones agree, a study counts once, and the hourly sweep closes a round left alone | 56,935 |
| `final_badge` | `MCFinalisation` | three validators, full or short: every badge is backed | 187,747 |
| `supersession` | `MCSupersession` | two requests of different sizes, records superseded under clocks that differ: a latest record is left, only parties link | 73,877 |
| `round_opens` | `MCValidationRound` | **violated**, see section 6 | |
| `reputation_tag` | `MCReputation` | **violated**, see section 6 | |
| `overfull` | `MCFinalisation` | **violated**, see section 6 | |

`CHECK_DEADLOCK FALSE` is set because every study ends: when all records that
may be written are written, nothing is left to do.

*Bounds.* Three validators for a cohort of two give concurrent commits on both
sides of the quorum and one commit after it; since a commit, a marker and a
reveal occur at most once per agent, further agents repeat these cases, and the
theorems below hold for any number. `MaxClaims` bounds claims per agent: 2 lets
a validator claim, lose or give up, and claim again; `study` and the
runs about finalisation set it to 1, for there only whether a claim is live matters. `MaxBadgePaths` = 2 allows
one repaired index link besides the original. `MaxUpdates` bounds updates per
validator. Two requests are enough for every read to be able to mix them; in
`final_races` the later one asks for one validator or for two where the earlier
asks for two (in `supersession`, for one), so that the attestations may answer the latest request, an earlier
one of the same size, or an earlier one of another size.
`final_badge` needs three validators, the least for which a badge exists, and
sets `min_attestations_for_finalization` to 2, so that a record may still be
short; the other runs leave it at 0, which the code takes for 1.
`study` gives one validator the study as a task twice, the least for which two
seals exist; its two drafts differ in the finding and in the work, so that a
record, a reveal and a seal can each be told from the other draft's. A second
claim is left to `round_safety`, and the coordinator key, which only
reputations depend on, to `final_races` and `reputation`. In `directory` the human publishes three profiles, so that
an update can build on one that is neither the first nor the last, and `Clock`
has three readings, one for each in a steady order; the AI validator needs one.
`MaxClock` = 2 orders two records or leaves them level, and two supersessions
are the shortest circle. Identity links are bounded by `Key` alone: the
duplicate check keeps each agent to one link for a pair.
Symmetry permutes validators, and only in runs without liveness properties.

*Fairness.* `Diligent(a)` puts weak fairness on revealing what is in one's own
store (`RevealOwn`, `RevealResult`): the drivers poll `get_current_phase` until
it answers RevealOpen and then reveal (`demo/ai_validator.py:416`,
`demo/ai_validator_cma.py:861`, `demo/custom_runner.py:707`,
`demo/researcher-node.mjs:14`). A validator reveals what its private entry
carries and nothing else (`Rebuilt`), so a seal that cannot be opened shows as a
reveal that never comes. It also puts weak fairness on `NotifyAgain`, because
the signal tells the validator to call again; `post_commit` itself has none, and
nobody is obliged to claim, to seal or to submit. `ResultFollows` holds for a
researcher that has its lock; one that lost it never reveals. `EagerSpec` of the
round obliges everybody to act; it is used only by `round_opens`, so that the
counterexample is not somebody's idleness. `Sweeps(a)`, in `FairSpec` of
finalisation and `FairStudySpec`, puts weak fairness on
the sweep: the conductor schedules it hourly on every node
(`Schedule::Persisted`, `GC` 1349), and gossip reaches every node, so some sweep
of each node sees everything. No fairness is put on clients' finalising calls,
for nothing in the code repeats them, nor on the passing of time: that a study
is overdue is a premise of `OpenedStudiesAreRecorded`.

## 4. Proofs

All theorems hold for any finite set of agents, any set of requests (one where
stated), any cohort size and any staleness, under the assumptions named in the
modules that declare the constants (finite sets, natural numbers, subsets).

*Round* (`ValidationRound_proofs`). `TypeOK` with finiteness of the records is
inductive alone. Blindness is not: that an attestation exists says nothing of
anchors. `RoundInv` adds that anchors answer published requests, that every
marker carries the evidence of one request's cohort (`CohortEvidence`), and
that reveals presuppose a marker on a credentialed network (`OpenedFirst`);
then evidence in a marker is a quorum among the anchors, whose cardinality only
grows. `SingleLiveClaim` needs that a claimant always reads its own claims
without published releases (`OwnLiveClaimsAreRead`).

*Refinement* (`ValidationRoundRefinement_proofs`). On a credentialed network,
and for any number of requests for one study, every action maps to a step of
`BlindRound` or to a stutter (`RoundKeepsPromise`). A marker of any request
stands for the abstract opening, because it carries the evidence of some
request's quorum (`SomeQuorum`), and the validators that may commit are those
independent of some researcher (`Eligible`). `OriginInv`, in
`ValidationRound_proofs`, strengthens what is left of independence: claims and
commitments are valid, whoever committed has claimed, and nobody has an anchor
before some researcher is bound. The anchor's check does not compare
institutions, so independence has to be carried from the claim to the
commitment; it gives `CommittersAreIndependent` for any number of requests,
and, for one, `CohortIsIndependent` and `ResearcherIsBoundFirst`.

*Outcome rules* (`VoteCount_proofs`): linear arithmetic over any tally.

*Reputation* (`ReputationRules_proofs`, `Reputation_proofs`): an update adds at
most one record (`UpdateAddsAtMostOne`), and `CountInv` bounds the counts in
every record by the validations and successes reported so far; a lost update
loses work and never invents it.

*Finalisation* (`Finalisation_proofs`). `FInv` joins types, one attestation per
validator, `RecordsAreWhole`, "reputations follow records", `StudyCountsOnce`,
and that of the requests published one is the latest (`SomeRequestIsLatest`). One attestation each makes participants as many as
attestations (`AsManyAuthors`). A record of a request that has not timed out is
not short, and one that is neither short nor larger than asked for holds all
attestations to its request, now and later: this is `FullRecordsAgree`, the
reason why concurrent finalisers cannot disagree unless the round was closed
short or was overfull. The coordinator's own records are always in its view, so
the holder of the key that has finalised finds a record and stops.

`OverdueRoundsAreRecorded` reduces `EventuallyRecorded` to the fairness of the
sweep: while a round is `Closable` and has no record, the sweep of anybody who
attested satisfies every guard and every check of the peers
(`ClosableCanBeSwept`: the sweep reports the size of the latest request, which
exists by `SomeRequestIsLatest`, has timed out, and asks for as many as the
answered one), somebody has attested, and who has attested stays an
author (`AuthorsStay`).

`BadgesAreBacked` adds to `FInv` that every badge passed the peers' table
(`BadgesKept`): with one attestation per validator the participants behind a
badge split into those who reproduced the result and the others, and the
agreement level that the table asks for bounds the first by half.

*Supersession* (also `Finalisation_proofs`). Every link leads from an earlier
stamp to a later one, and stamps do not change, so in any set of records one
with the highest stamp has no successor there (`ALatestRecordIsLeft`). The
author of a link is a party because a record's evidence answers one request
(`RecordsAreWhole`).

*Sealed round* (`SealedRound_proofs`). Every step is a step of
`ValidationRound` or leaves it alone (`SealedRoundIsARound`), so the theorems
about the round hold with the private sides and their failures. `SInv` says
that hashes come from seals, that every anchor has a hash and every attestation
a content that was checked against one, and that an attempt which published
left a commitment, which blocks every later attempt. From a hash in an anchor
the seal behind it is recovered by injectivity, which gives `SealsAlwaysOpen`,
`RevealsAreSealed` and `LocksAlwaysOpen`.

`SealedTypeCorrect` is the type invariant of the composed system; the number of
a lock is a count of earlier attempts, so it rests on their being finitely many
(`PrivateOK`).

*Progress* (also `SealedRound_proofs`). The four results on liveness split it in
two. The provers know nothing of ENABLED, so that an action whose guards hold is
enabled is a hypothesis, `[]GuardsSuffice`, and the same of the sweep
(`[]SweepGuardsSuffice`). Both say of an action exactly that its guards are its
enabling condition; they hold by the form of the actions, whose primed
variables are all assigned, and TLC has confirmed them on the instances of
`study`, `final_races`, `final_badge` and `overfull`. What is proved is the rest:
`OweInv` and the three lemmas `Owed*IsPossible` show that whoever owes a call
satisfies every guard of it, on seals, nonces, hashes, claims, requests and
phase, whatever failed before (`NobodyIsEverStuck`); that owing lasts until the
call is made; and that the call discharges it. Weak fairness then gives
`CommittedComeToReveal`, `LockedResultsFollow` and `LostNoticesAreMadeGood`.

*Study* (also `SealedRound_proofs`). A study is a sealed round to which
governance adds and from which it takes nothing (`StudyIsASealedRound`), so all
of the above holds of it, progress included (`StudiesProgress`). In the other
direction whoever attested on a credentialed network has claimed the study
(`OriginInv`, Guard 1), and only attested content is shown (`ShownAttested`);
claims are finite, so the number that the next one gets is in range. Each call
then maps to one step of `Finalisation` or to a stutter
(`RealRoundsAreFinalised`). A study meets `Finalisation`'s assumptions on
constants (`FinalisationApplies`), so the theorems of `Finalisation_proofs`
hold of it. `VerdictsAreAlwaysEarned` follows the evidence of a record back
through every call: what a finaliser read was shown (`EvidenceHeld`), what was
shown was committed to and sealed by its author (`ShownAnchored`, `SInv`), and a
reveal presupposes a marker, hence a quorum and a bound researcher.

*Directory* (`Directory_proofs`). `DInv` says that every profile carries the
certificate its author joined with, which every peer checked, and that an
author's profiles are numbered in the order of publication; under a steady
clock the highest tag is then the highest number, hence what was set last.

*Only model-checked:*

- `KeepsPromiseFairly`. Fairness of the abstract round is about ENABLED of
  abstract actions under the mapping, which is not ENABLED with the mapping
  substituted; the provers can take neither.
- `OpenedStudiesAreRecorded`. Its halves are proved (`CommittedComeToReveal`,
  `OverdueRoundsAreRecorded`); joining them needs that eventually all members of
  a finite set have revealed, an induction over the set with a temporal
  formula.
- `GuardsSuffice` and `SweepGuardsSuffice`, as said under *Progress*.
- `IndependentCohort` and `BoundBeforeWork` hold for one request only, and are
  proved for it; with two they fail (section 6) and `IndependentWhereClaimed` is
  what is left.

## 5. Not modelled, and why

- Studies, protocols, snapshots and deviations in DNA 1: private creates that
  no other call reads. Deletion of a locked result has no caller.
- Difficulty assessments and governance decisions: single creates behind one
  check, on which nothing depends.
- The arms of `validate` that refuse updates and deletes, one by one: that
  records only accumulate is how every module is built. The one delete that is
  allowed, of an identity link, is an action of `IdentityLinks`.
- Checks of single fields (lengths, disciplines, hardware, durations) and the
  encodings: nothing here tells their values apart. A seal whose fields the
  reveal would refuse is therefore not in `SealedRound`, see section 6.
- The discipline index, ORCID, capacity and `person_key` of profiles: kept and
  merged as the institution is.
- A conductor that loses its database: the code keeps nothing elsewhere.
- The web interface, demo scripts and tests are outside.

## 6. Divergences

Checked as runs that TLC must find violated:

- `round_opens` (`AC` 1541, code bug). Two validators that commit at the same
  time each miss the other's anchor. Neither writes the marker; neither may
  commit again; no other call writes one. The round stays closed although its
  quorum has committed.
- `reputation_tag` (`GC` 1293, code bug). The link tag of a human validator's
  reputation is the four bytes of a `u32`; the reader takes anything shorter
  than eight bytes for zero. All links tie and an older record may be returned.
- `overfull` (`GI` 440, code bug). Concurrent claims let one validator more
  than asked for attest. The finalising calls pass all attestations on, peers
  refuse a record with more participants than requested, and no call tries a
  part. The sweep never closes the round.

Met while modelling, and seen as counterexamples of properties that are not
kept as runs:

- After the marker is written a validator that has not received it still
  commits (`AC` 1392 calls the window closed). `BlindRound` admits the late
  commitment.
- `claim_study` "cannot claim if num_validators_required claims already exist"
  (`AC` 796): concurrent claims exceed it.
- "identical content" of concurrent markers "would collapse to the same hash"
  (`AC` 1541): each holds its author's own anchor hash.
- The researcher's result "is only revealed ... after all validators have
  submitted their public reveals" (`AC` 1660): the gate is RevealOpen, which
  precedes them.
- With two requests for one data hash a claim is checked for conflict of
  interest against the request it names, and the anchor names whichever request
  is latest at the commitment (`AI` 812): a colleague of the second researcher
  may end up in its cohort. `IndependentWhereClaimed` states what is kept.
- A round is not closed short "while any validator still holds a claim"
  (`docs/10_Harmony_Records.md:95`): the finaliser counts the claims it has
  received (`GC` 365).
- `force_finalize_round` is "called by any participant (researcher, validator,
  or operator)" (`GC` 241): peers refuse a record whose author did not attest
  (`GI` 387).
- A badge that the back-call could not issue is mended only by another direct
  call of `check_and_create_harmony_record`; the sweep returns early for a study
  with a record (`GC` 622, `docs/10_Harmony_Records.md:104`).
- Concurrent finalisers each issue a badge (`GC` 1024 says only if none exists).
- The sweep "finalises validation rounds whose timeout has elapsed" (`GC` 1326).
  With two requests for one data hash that ask for different numbers of
  validators, and attestations that answer the earlier one, every finalising call
  and every hourly sweep reports the size of the latest request (`GC` 335-342,
  `AC` 674, 698), peers refuse the record (`GI` 959), and the round is never
  closed. Without the condition on the latest request in `Closable`,
  `EventuallyRecorded` has this counterexample in `final_races`.
- The badge goes to the author of the request the finaliser reads as latest
  (`GC` 1147), which with two requests may not be the one attested to.
- `agreement_rate` counts reproductions, not agreement with the majority
  (`GI` 248, `GC` 1230).
- An AI validator whose certification lookup fails is scored as a human
  (`GC` 672, 1176).

Read in the code and not run: `reclaim_abandoned_claim` answers true for a claim
already released (`AC` 1060-1064); an agent can never link again a pair whose
link it revoked, although the error text asks for a revocation (`AC` 2270-2275,
where the check counts revoked links); the signal after a failed notification
offers `seal_private_attestation` as a retry, which its own guard refuses
(`WC` 75-80, 349), so that only the other one helps (`RetryRecovers`); that
guard is per task, and a study that is received twice may be sealed twice
(`WC` 65-70); a commit that fails after `lock_researcher_result` has published
loses the lock for good, for the next attempt is refused by DNA 3
(`RC` 276-288); the lookups by institution and discipline return validators that
have moved on, each with the latest profile that names the place asked for
(`AC` 1223); a certification or reputation read that falls back to the
attested type lets an AI validator progress (`GC` 640-692), which `ST` 403-405
says it does not; a recusal is recorded and nothing reads it; supersessions
compare readings of different clocks, so that a record written later may be
refused as the successor under skew (`GI` 1077); the discipline is checked
when an attestation is revealed and not when it is sealed (`AI` 861); an outcome
"failed" by plurality may carry a Bronze badge, and a fifth validator that fails
may lift Bronze to Silver, because the badge also counts heads.

## 7. Plan

The plan, most important behaviour first; all of it is done.

1. `Published`, `ValidationRoundState`, `ValidationRound`: the round, its runs.
2. `BlindRound` and the refinement, `ValidationRound_proofs`.
3. `Outcome`, `VoteCount` and proofs.
4. `ReputationRules`, `Reputation` and proofs.
5. `FinalisationState`, `Finalisation`, their runs and proofs.
6. What the round publishes is a behaviour of finalisation's view of it (now
   part of `Study`).
7. `ValidatorWorkspace`: seal, `post_commit`, notification, refusal and retry.
8. `ResearcherRepository`: publish first, lock second, either failing; both
   composed with the round in `SealedRound`.
9. `Profiles`, `IdentityLinks`, `Directory` and `Supersession`.
10. Proofs of `BadgesAreBacked`, of item 6, and of the invariants of 7 to 9.
11. `Study`: the sealed round and finalisation in one state space; the
    refinement for any number of requests; types of the composed system;
    progress from fairness; verdicts traced to seals.

What could follow: the round with the institutions of `Profiles` in place of a
constant, with a claim that quotes a profile which has changed since;
supersession and AI validators in `Study`; independence and binding for two
requests, which needs the code to compare the request of a claim with that of
the anchor.
