---------------------------- MODULE SealedRound ----------------------------
(***************************************************************************)
(* A round with what its participants keep to themselves: the calls that   *)
(* the private workspaces (DNA 2) and repositories (DNA 1) make to the     *)
(* attestation coordinator, and the hashes that tie the published records  *)
(* to the private ones.                                                    *)
(*                                                                         *)
(* The call of one DNA into another ends with its own commit, before the   *)
(* caller's: a caller that fails afterwards undoes its own writes only.    *)
(* Every step is a step of ValidationRound or leaves the round alone.      *)
(***************************************************************************)
EXTENDS ValidationRoundRefinement, ValidatorWorkspace, ResearcherRepository

ASSUME SealedAssumption ==
    /\ \A t \in Task : t.by \in Agent
    /\ Abstainer \subseteq Agent

VARIABLES
    hashes, \* the commitment_hash of each CommitmentAnchor
    shown   \* what each ValidationAttestation says

binding == <<hashes, shown>>

sealedVars == <<vars, workspace, repository, binding>>

SealedTypeOK ==
    /\ TypeOK
    /\ WorkspaceTypeOK
    /\ locks \subseteq [by : Agent, n : Nat]
    /\ committed \subseteq [by : Agent, n : Nat]
    /\ hashes \subseteq [by : Agent, hash : {CommitmentHash(d, t) : d \in Draft, t \in Task}]
    /\ shown \subseteq [by : Agent, draft : {Stamped(d, r) : d \in Draft, r \in Request}]

SealedInit ==
    /\ Init
    /\ WorkspaceInit
    /\ RepositoryInit
    /\ hashes = {}
    /\ shown = {}

-----------------------------------------------------------------------------
(***************************************************************************)
(* Faulty variants of operators below, no part of the model: what the code *)
(* would be with a check lost or moved.  Each must break the property it   *)
(* is named for in PROJECT.json.                                           *)
(***************************************************************************)
\* lock_researcher_result without the test of the call's response.
PublishedOrRefused(l) ==
    \/ PublishResearcherCommitment(l.by) /\ committed' = committed \cup {l}
    \/ UNCHANGED <<vars, committed>>

\* submit_attestation without the comparison of the hashes.
HasAnyHash(d, nonce, a) == By(hashes, a) # {}

\* reveal_researcher_result handed the lock of an attempt after the first.
LaterLockOpens(a) == \E l \in By(locks, a) : l.n > 1
-----------------------------------------------------------------------------
\* The cross-DNA call publish_researcher_commitment answered Ok.
Published(l) ==
    /\ PublishResearcherCommitment(l.by)
    /\ committed' = committed \cup {l}

LockResearcherResult(a) ==
    /\ HasNotLocked(a)
    /\ Published(NextLock(a))
    /\ KeptOrLost(NextLock(a))
    /\ UNCHANGED <<workspace, binding>>

\* notify_commitment_sealed with what seal s committed to.
NotifyOf(s) ==
    /\ NotifyCommitmentSealed(s.by)
    /\ hashes' = hashes \cup {[by |-> s.by, hash |-> s.hash]}
    /\ UNCHANGED <<repository, shown>>

\* The call of post_commit may be refused or fail; post_commit reports it and
\* nothing calls again.
PostCommit(s) ==
    /\ PostCommitRuns(s)
    /\ NotifyOf(s) \/ UNCHANGED <<vars, repository, binding>>

\* What CommitmentNotifyFailed tells the validator to do.
RetryNotify(s) ==
    /\ s \in seals \ unsent
    /\ NotifyOf(s)
    /\ UNCHANGED workspace

\* The hash of a revealed draft is compared with that of the revealer's anchor.
HashMatches(d, nonce, a) ==
    \E x \in By(hashes, a) : x.hash = CommitmentHash(d, nonce)

\* A validator reveals a draft with the nonce of one of its seals.
RevealAttestation(s, d) ==
    \E x \in By(anchors, s.by) :
        /\ HashMatches(d, Nonce(s), s.by)
        /\ SubmitAttestation(s.by)
        /\ shown' = shown \cup {[by |-> s.by, draft |-> Stamped(d, x.req)]}
        /\ UNCHANGED <<workspace, repository, hashes>>

\* The metrics and the nonce of a's lock match the commitment.
LockOpens(a) == Opening(a) # {}

RevealResult(a) ==
    /\ LockOpens(a)
    /\ RevealResearcherResult(a)
    /\ UNCHANGED <<workspace, repository, binding>>

\* The calls of the round that nothing private goes into.
PublicCall ==
    /\ \/ \E r \in Request : SubmitValidationRequest(r)
       \/ \E a \in Agent : ClaimStudy(a)
       \/ \E c \in claims : ClaimAges(c)
       \/ \E a \in Leaver : ReleaseClaim(a)
       \/ \E a \in Reclaimer, c \in claims : ReclaimAbandonedClaim(a, c)
    /\ UNCHANGED <<workspace, repository, binding>>

\* The calls of a workspace that reach nobody else.
PrivateCall ==
    /\ \/ \E t \in Task : ReceiveTask(t)
       \/ \E t \in Task, d \in Draft : SealPrivateAttestation(t, d)
       \/ \E v \in Abstainer : RecordDeliberateAbstention(v)
    /\ UNCHANGED <<vars, repository, binding>>
-----------------------------------------------------------------------------
SealedNext ==
    \/ PublicCall
    \/ PrivateCall
    \/ \E a \in Agent : LockResearcherResult(a)
    \/ \E s \in unsent : PostCommit(s)
    \/ \E s \in seals : RetryNotify(s)
    \/ \E s \in seals, d \in Draft : RevealAttestation(s, d)
    \/ \E a \in Agent : RevealResult(a)

SealedSpec == SealedInit /\ [][SealedNext]_sealedVars

\* What a client does with what its own stores hold.
RevealOwn(a)   == \E s \in By(seals, a) : RevealAttestation(s, Rebuilt(s.copy))
NotifyAgain(a) == \E s \in By(seals, a) : RetryNotify(s)

\* Clients poll the phase until it is open and then reveal what is in their
\* stores.  A validator told that its notification failed comes to repeat it, as
\* the signal asks.
Diligent(a) ==
    /\ WF_sealedVars(RevealOwn(a))
    /\ WF_sealedVars(RevealResult(a))
    /\ WF_sealedVars(NotifyAgain(a))

FairSealedSpec == SealedSpec /\ \A a \in Agent : Diligent(a)
-----------------------------------------------------------------------------
(***************************************************************************)
(* Whoever committed can reveal: the hash that a validator's anchor binds  *)
(* is that of a seal it holds, and what its private entry carries, with    *)
(* the nonce kept there, hashes to it again, whichever task, post_commit   *)
(* or retry the anchor came from ("Carried, not dropped" in                *)
(* seal_private_attestation).                                              *)
(***************************************************************************)
SealsOpen ==
    \A x \in anchors :
        \E h \in By(hashes, x.by), s \in By(seals, x.by) :
            CommitmentHash(Rebuilt(s.copy), Nonce(s)) = h.hash

(***************************************************************************)
(* What is revealed is what was sealed: the attestation as published, with *)
(* the terms that the coordinator stamped on it, still hashes under a      *)
(* nonce of its author's to what that author's anchor binds, so the work   *)
(* behind a verdict cannot be changed after the commitment.                *)
(***************************************************************************)
RevealedIsSealed ==
    /\ \A y \in attestations : By(shown, y.by) # {}
    /\ \A y \in shown : \E h \in By(hashes, y.by), s \in By(seals, y.by) :
          /\ h.hash = CommitmentHash(y.draft, Nonce(s))
          /\ y.draft.finding = s.copy.finding
          /\ y.draft.work = s.copy.work

(***************************************************************************)
(* A lock that a researcher holds opens what was published: there is never *)
(* a LockedResult whose hash is not the one its commitment carries, which  *)
(* would be "a permanent hash mismatch at reveal time"                     *)
(* (lock_researcher_result).  The reverse fails: a published commitment    *)
(* may have lost its lock.                                                 *)
(***************************************************************************)
LocksOpen ==
    /\ locks \subseteq committed
    /\ \A l \in locks : \A c \in committed : c.by = l.by => c = l

\* A validator that has committed and not revealed, in an open round; a
\* researcher that has not, with its lock; and a validator that sealed, whose
\* call of post_commit is over and did not commit it.
OwesReveal(a) ==
    markers # {} /\ By(anchors, a) # {} /\ By(attestations, a) = {}

OwesResult(a) ==
    Credentialed /\ markers # {} /\ By(locks, a) # {} /\ By(reveals, a) = {}

OwesNotice(a) ==
    /\ By(seals \ unsent, a) # {} /\ By(anchors, a) = {}
    /\ \E c \in LiveClaims : c.by = a
    /\ commitments # {}
    /\ markers = {}

(***************************************************************************)
(* Nobody is stuck: whoever owes the round a reveal, a result or a notice  *)
(* can give it with what its own stores hold, whatever failed before and   *)
(* whichever requests and phases the node sees, so a client that repeats   *)
(* its call is not refused for ever.                                       *)
(***************************************************************************)
NobodyIsStuck ==
    \A a \in Agent :
        /\ OwesReveal(a) => ENABLED <<RevealOwn(a)>>_sealedVars
        /\ OwesResult(a) => ENABLED <<RevealResult(a)>>_sealedVars
        /\ OwesNotice(a) => ENABLED <<NotifyAgain(a)>>_sealedVars

(***************************************************************************)
(* A researcher that holds its lock comes to reveal its result once the    *)
(* reveal phase is open.                                                   *)
(***************************************************************************)
ResultFollows ==
    \A a \in Agent :
        (Credentialed /\ markers # {} /\ By(locks, a) # {}) ~> (By(reveals, a) # {})

(***************************************************************************)
(* Polling nodes make the reveals happen that BlindRound promises: of      *)
(* everyone committed, and of the researcher, unless its lock was lost.    *)
(***************************************************************************)
KeepsPromiseFairly ==
    <>[](committed \subseteq locks) => Promise!RoundFairness

(***************************************************************************)
(* A lost notification is made good: a validator that holds a seal, keeps  *)
(* a live claim and repeats the call, as CommitmentNotifyFailed asks, is   *)
(* committed in the end, however its post_commit failed, unless the reveal *)
(* phase opens without it.                                                 *)
(***************************************************************************)
RetryRecovers ==
    \A a \in Agent :
        <>[](/\ By(seals \ unsent, a) # {}
             /\ \E c \in LiveClaims : c.by = a
             /\ commitments # {}
             /\ markers = {})
          => <>(By(anchors, a) # {})
=============================================================================
