------------------------- MODULE SealedRound_proofs -------------------------
(***************************************************************************)
(* Proofs about SealedRound, for every set of agents, tasks and drafts.    *)
(***************************************************************************)
EXTENDS Study, ValidationRound_proofs

(***************************************************************************)
(* What the workspaces, the repositories and the anchors' hashes have in   *)
(* common: hashes come from seals, every anchor and every attestation has  *)
(* its content, every attestation was checked against an anchor's hash,    *)
(* and an attempt that published left a commitment.                        *)
(***************************************************************************)
SealsKept ==
    /\ seals \subseteq {Seal(t, d) : t \in Task, d \in Draft}
    /\ unsent \subseteq seals

HashesKept    == \A h \in hashes : \E s \in seals : h = [by |-> s.by, hash |-> s.hash]
AnchorsHashed == \A x \in anchors : \E h \in hashes : h.by = x.by
AttestedShown == \A y \in attestations : \E z \in shown : z.by = y.by

\* What submit_attestation checked of the shown attestation y.
Checked(y) ==
    \E s \in seals, h \in hashes, d \in Draft, r \in Request :
        /\ y = [by |-> s.by, draft |-> Stamped(d, r)]
        /\ h.by = s.by
        /\ h.hash = CommitmentHash(d, Nonce(s))

ShownChecked == \A y \in shown : Checked(y)

AttemptsCommitted ==
    /\ locks \subseteq committed
    /\ \A c \in committed : By(commitments, c.by) # {}
    /\ \A c, d \in committed : c.by = d.by => c = d

RequestsKept == requests \subseteq Request /\ \A x \in anchors : x.req \in requests

SInv == SealsKept /\ HashesKept /\ AnchorsHashed /\ AttestedShown /\ ShownChecked
          /\ AttemptsCommitted /\ RequestsKept
-----------------------------------------------------------------------------
LEMMA SealHasAuthor ==
    ASSUME SealsKept, NEW s \in seals  PROVE s.by \in Agent
<1>1. PICK t \in Task, d \in Draft : s = Seal(t, d)
  BY DEF SealsKept
<1> QED
  BY <1>1, SealedAssumption DEF Seal

(***************************************************************************)
(* Every step of the participants is a call of the round or leaves the     *)
(* round alone.                                                            *)
(***************************************************************************)
LEMMA SealedStepIsRoundStep ==
    ASSUME SealsKept, [SealedNext]_sealedVars  PROVE [Next]_vars
<1>1. CASE PublicCall
  BY <1>1 DEF PublicCall, Next
<1>2. CASE PrivateCall
  BY <1>2 DEF PrivateCall
<1>3. ASSUME NEW a \in Agent, LockResearcherResult(a)  PROVE [Next]_vars
  <2>1. PublishResearcherCommitment(a)
    BY <1>3 DEF LockResearcherResult, Published, NextLock
  <2>2. QED
    BY <2>1 DEF Next
<1>4. ASSUME NEW s \in seals, NotifyOf(s)  PROVE [Next]_vars
  BY <1>4, SealHasAuthor DEF NotifyOf, Next
<1>5. ASSUME NEW s \in unsent, PostCommit(s)  PROVE [Next]_vars
  BY <1>4, <1>5 DEF PostCommit, SealsKept
<1>6. ASSUME NEW s \in seals, RetryNotify(s)  PROVE [Next]_vars
  BY <1>4, <1>6 DEF RetryNotify
<1>7. ASSUME NEW s \in seals, NEW d \in Draft, RevealAttestation(s, d)  PROVE [Next]_vars
  BY <1>7, SealHasAuthor DEF RevealAttestation, Next
<1>8. ASSUME NEW a \in Agent, RevealResult(a)  PROVE [Next]_vars
  BY <1>8 DEF RevealResult, Next
<1>9. CASE UNCHANGED sealedVars
  BY <1>9 DEF sealedVars
<1> QED
  BY <1>1, <1>2, <1>3, <1>5, <1>6, <1>7, <1>8, <1>9 DEF SealedNext

\* Sealing keeps what is sealed; nothing else of the private stores matters to
\* the invariant.
LEMMA PrivateKeepsSInv ==
    ASSUME SInv, PrivateCall  PROVE SInv'
<1>1. ASSUME NEW t \in Task, NEW d \in Draft, SealPrivateAttestation(t, d)  PROVE SInv'
  <2>1. SealsKept' /\ seals \subseteq seals'
    BY <1>1 DEF SInv, SealsKept, SealPrivateAttestation
  <2>2. UNCHANGED <<vars, repository, binding>>
    BY DEF PrivateCall
  <2>3. HashesKept' /\ ShownChecked'
    BY <2>1, <2>2 DEF SInv, HashesKept, ShownChecked, Checked, binding
  <2> QED
    BY <2>1, <2>2, <2>3
    DEF SInv, AnchorsHashed, AttestedShown, AttemptsCommitted, RequestsKept, vars,
        repository, binding, By
<1>2. CASE UNCHANGED <<seals, unsent>>
  BY <1>2 DEF PrivateCall, SInv, SealsKept, HashesKept, AnchorsHashed, AttestedShown,
     ShownChecked, Checked, AttemptsCommitted, RequestsKept, vars, repository, binding, By
<1> QED
  BY <1>1, <1>2 DEF PrivateCall, ReceiveTask, RecordDeliberateAbstention

LEMMA PublicKeepsSInv ==
    ASSUME SInv, PublicCall  PROVE SInv'
<1>1. /\ UNCHANGED <<workspace, repository, binding>>
      /\ UNCHANGED <<anchors, attestations, commitments>>
      /\ requests \subseteq requests' /\ requests' \subseteq Request
  BY DEF PublicCall, SInv, RequestsKept, SubmitValidationRequest, ClaimStudy, ClaimAges,
     ReleaseClaim, ReclaimAbandonedClaim
<1> QED
  BY <1>1 DEF SInv, SealsKept, HashesKept, AnchorsHashed, AttestedShown, ShownChecked,
     Checked, AttemptsCommitted, RequestsKept, workspace, repository, binding, By

LEMMA LockKeepsSInv ==
    ASSUME SInv, NEW a \in Agent, LockResearcherResult(a)  PROVE SInv'
<1> DEFINE l == NextLock(a)
<1>1. /\ l.by = a
      /\ By(commitments, a) = {}
      /\ commitments' = commitments \cup {[by |-> a]}
      /\ committed' = committed \cup {l}
      /\ locks' = locks \cup {l} \/ locks' = locks
      /\ UNCHANGED <<workspace, binding, requests, anchors, attestations>>
  BY DEF LockResearcherResult, Published, KeptOrLost, NextLock,
     PublishResearcherCommitment, Reads
<1>2. AttemptsCommitted'
  <2>1. \A c \in committed : c.by # a
    BY <1>1 DEF SInv, AttemptsCommitted
  <2>2. \A b : By(commitments, b) \subseteq By(commitments', b)
    BY <1>1 DEF By
  <2>3. [by |-> a] \in By(commitments', a)
    BY <1>1 DEF By
  <2>4. \A c \in committed' : By(commitments', c.by) # {}
    <3> SUFFICES ASSUME NEW c \in committed'  PROVE By(commitments', c.by) # {}
      OBVIOUS
    <3>1. CASE c \in committed
      BY <3>1, <2>2 DEF SInv, AttemptsCommitted
    <3>2. CASE c = l
      BY <3>2, <1>1, <2>3
    <3> QED
      BY <3>1, <3>2, <1>1
  <2> QED
    BY <1>1, <2>1, <2>4 DEF SInv, AttemptsCommitted
<1> QED
  BY <1>1, <1>2 DEF SInv, SealsKept, HashesKept, AnchorsHashed, AttestedShown,
     ShownChecked, Checked, RequestsKept, workspace, binding

LEMMA NotifyKeepsSInv ==
    ASSUME SInv, NEW s \in seals, NotifyOf(s), UNCHANGED seals, unsent' \subseteq unsent
    PROVE  SInv'
<1>1. PICK own \in [by : {s.by}, req : requests] :
        /\ anchors' = anchors \cup {own}
        /\ UNCHANGED <<requests, commitments, attestations>>
  <2>1. NotifyCommitmentSealed(s.by)
    BY DEF NotifyOf
  <2> QED
    BY ONLY <2>1, NotifyPublishes
<1>2. /\ hashes' = hashes \cup {[by |-> s.by, hash |-> s.hash]}
      /\ UNCHANGED <<repository, shown>>
  BY DEF NotifyOf
<1>3. HashesKept'
  BY <1>2 DEF SInv, HashesKept
<1>4. AnchorsHashed'
  <2> DEFINE new == [by |-> s.by, hash |-> s.hash]
  <2>1. new \in hashes' /\ new.by = s.by /\ hashes \subseteq hashes'
    BY <1>2
  <2>2. own.by = s.by
    BY <1>1
  <2> HIDE DEF new
  <2> QED
    BY <1>1, <2>1, <2>2 DEF SInv, AnchorsHashed
<1>5. ShownChecked'
  BY <1>2 DEF SInv, ShownChecked, Checked
<1> QED
  BY <1>1, <1>2, <1>3, <1>4, <1>5
  DEF SInv, SealsKept, AttestedShown, AttemptsCommitted, RequestsKept, repository, By

LEMMA RevealKeepsSInv ==
    ASSUME SInv, NEW s \in seals, NEW d \in Draft, RevealAttestation(s, d)  PROVE SInv'
<1>1. PICK x \in anchors :
        /\ x.by = s.by
        /\ HashMatches(d, Nonce(s), s.by)
        /\ SubmitAttestation(s.by)
        /\ shown' = shown \cup {[by |-> s.by, draft |-> Stamped(d, x.req)]}
        /\ UNCHANGED <<workspace, repository, hashes>>
  BY DEF RevealAttestation, By
<1>2. /\ UNCHANGED <<anchors, requests, commitments>>
      /\ \A y \in attestations' : y \in attestations \/ y.by = s.by
  BY <1>1 DEF SubmitAttestation
<1>3. PICK h \in hashes : h.by = s.by /\ h.hash = CommitmentHash(d, Nonce(s))
  BY <1>1 DEF HashMatches, By
<1>4. x.req \in Request
  BY DEF SInv, RequestsKept
<1>5. ShownChecked'
  BY <1>1, <1>3, <1>4 DEF SInv, ShownChecked, Checked, workspace
<1>6. AttestedShown'
  BY <1>1, <1>2 DEF SInv, AttestedShown
<1> QED
  BY <1>1, <1>2, <1>5, <1>6 DEF SInv, SealsKept, HashesKept, AnchorsHashed,
     AttemptsCommitted, RequestsKept, workspace, repository, By

LEMMA SInvHolds == SealedSpec => []SInv
<1>1. SealedInit => SInv
  BY DEF SealedInit, Init, WorkspaceInit, RepositoryInit, SInv, SealsKept, HashesKept,
     AnchorsHashed, AttestedShown, ShownChecked, AttemptsCommitted, RequestsKept
<1>2. SInv /\ [SealedNext]_sealedVars => SInv'
  <2> SUFFICES ASSUME SInv, [SealedNext]_sealedVars  PROVE SInv'
    OBVIOUS
  <2>1. ASSUME NEW s \in unsent, PostCommit(s)  PROVE SInv'
    <3>1. s \in seals /\ UNCHANGED seals /\ unsent' \subseteq unsent
      BY <2>1 DEF PostCommit, PostCommitRuns, SInv, SealsKept
    <3>2. CASE UNCHANGED <<vars, repository, binding>>
      BY <3>1, <3>2 DEF SInv, SealsKept, HashesKept, AnchorsHashed, AttestedShown,
         ShownChecked, Checked, AttemptsCommitted, RequestsKept, vars, repository,
         binding, By
    <3> QED
      BY <3>1, <3>2, <2>1, NotifyKeepsSInv DEF PostCommit
  <2>2. ASSUME NEW s \in seals, RetryNotify(s)  PROVE SInv'
    BY <2>2, NotifyKeepsSInv DEF RetryNotify, workspace
  <2>3. ASSUME NEW a \in Agent, RevealResult(a)  PROVE SInv'
    <3>1. UNCHANGED <<workspace, repository, binding, requests, anchors, commitments,
                      attestations>>
      BY <2>3 DEF RevealResult, RevealResearcherResult
    <3> QED
      BY <3>1 DEF SInv, SealsKept, HashesKept, AnchorsHashed, AttestedShown,
         ShownChecked, Checked, AttemptsCommitted, RequestsKept, workspace, repository,
         binding, By
  <2>4. CASE UNCHANGED sealedVars
    BY <2>4 DEF SInv, SealsKept, HashesKept, AnchorsHashed, AttestedShown,
       ShownChecked, Checked, AttemptsCommitted, RequestsKept, sealedVars, vars,
       workspace, repository, binding, By
  <2> QED
    BY <2>1, <2>2, <2>3, <2>4, PublicKeepsSInv, PrivateKeepsSInv, LockKeepsSInv,
       RevealKeepsSInv DEF SealedNext
<1> QED
  BY <1>1, <1>2, PTL DEF SealedSpec
-----------------------------------------------------------------------------
(***************************************************************************)
(* What the private DNAs add to a round, a post_commit that fails, a lock  *)
(* that is lost, a notification repeated, takes it nowhere it could not go *)
(* before: whatever is proved of ValidationRound holds of it.              *)
(***************************************************************************)
THEOREM SealedRoundIsARound == SealedSpec => Spec
<1>1. SealedInit => Init
  BY DEF SealedInit
<1>2. SInv /\ [SealedNext]_sealedVars => [Next]_vars
  BY SealedStepIsRoundStep DEF SInv
<1> QED
  BY <1>1, <1>2, SInvHolds, PTL DEF SealedSpec, Spec

(***************************************************************************)
(* So the round with its private stores is blind, however post_commits,    *)
(* retries and lost locks fall.                                            *)
(***************************************************************************)
THEOREM SealedRoundIsBlind == SealedSpec => []BlindUntilQuorum
  BY SealedRoundIsARound, RoundIsBlind, PTL

\* From the hash of an anchor its author's seal is recovered.
LEMMA SInvOpensSeals == ASSUME SInv  PROVE SealsOpen
<1> SUFFICES ASSUME NEW x \in anchors
             PROVE \E h \in By(hashes, x.by), s \in By(seals, x.by) :
                      CommitmentHash(Rebuilt(s.copy), Nonce(s)) = h.hash
  BY DEF SealsOpen
<1>1. PICK h \in hashes : h.by = x.by
  BY DEF SInv, AnchorsHashed
<1>2. PICK s \in seals : h = [by |-> s.by, hash |-> s.hash]
  BY DEF SInv, HashesKept
<1>3. PICK t \in Task, d \in Draft : s = Seal(t, d)
  BY DEF SInv, SealsKept
<1>4. Rebuilt(s.copy) = d /\ Nonce(s) = t
  BY <1>3, WorkspaceAssumption DEF Seal, Rebuilt, PrivateCopy, Nonce
<1>5. s.hash = CommitmentHash(d, t)
  BY <1>3 DEF Seal
<1> QED
  BY <1>1, <1>2, <1>4, <1>5 DEF By

(***************************************************************************)
(* A validator that committed holds what opens its commitment.             *)
(***************************************************************************)
THEOREM SealsAlwaysOpen == SealedSpec => []SealsOpen
BY SInvOpensSeals, SInvHolds, PTL

(***************************************************************************)
(* Published attestations are what their authors sealed.                   *)
(***************************************************************************)
THEOREM RevealsAreSealed == SealedSpec => []RevealedIsSealed
<1>1. ASSUME SInv, NEW y \in shown
      PROVE  \E h \in By(hashes, y.by), s \in By(seals, y.by) :
                /\ h.hash = CommitmentHash(y.draft, Nonce(s))
                /\ y.draft.finding = s.copy.finding
                /\ y.draft.work = s.copy.work
  <2>1. PICK s \in seals, h \in hashes, d \in Draft, r \in Request :
          /\ y = [by |-> s.by, draft |-> Stamped(d, r)]
          /\ h.by = s.by
          /\ h.hash = CommitmentHash(d, Nonce(s))
    BY <1>1 DEF SInv, ShownChecked, Checked
  <2>2. PICK q \in seals : h = [by |-> q.by, hash |-> q.hash]
    BY <1>1 DEF SInv, HashesKept
  <2>3. PICK t \in Task, e \in Draft : q = Seal(t, e)
    BY <1>1 DEF SInv, SealsKept
  <2>4. Nonce(q) = t /\ q.copy = PrivateCopy(e) /\ q.hash = CommitmentHash(e, t)
    BY <2>3, WorkspaceAssumption DEF Seal, Nonce
  <2>5. CommitmentBytes(d) = d /\ CommitmentBytes(e) = e
    BY WorkspaceAssumption DEF CommitmentBytes
  <2>6. e = d /\ t = Nonce(s)
    BY <2>1, <2>2, <2>4, <2>5 DEF CommitmentHash
  <2>7. CommitmentBytes(Stamped(d, r)) = CommitmentBytes(d)
    BY WorkspaceAssumption DEF CommitmentBytes, Stamped
  <2>8. h.hash = CommitmentHash(y.draft, Nonce(q))
    BY <2>1, <2>4, <2>6, <2>7 DEF CommitmentHash
  <2>9. y.draft.finding = q.copy.finding /\ y.draft.work = q.copy.work
    BY <2>1, <2>4, <2>6, WorkspaceAssumption DEF Stamped, PrivateCopy
  <2> QED
    BY <2>1, <2>2, <2>8, <2>9 DEF By
<1>2. SInv => RevealedIsSealed
  BY <1>1 DEF RevealedIsSealed, SInv, AttestedShown, By
<1> QED
  BY <1>2, SInvHolds, PTL

(***************************************************************************)
(* A lock that is held opens the published commitment.                     *)
(***************************************************************************)
THEOREM LocksAlwaysOpen == SealedSpec => []LocksOpen
<1>1. SInv => LocksOpen
  BY DEF SInv, AttemptsCommitted, LocksOpen
<1> QED
  BY <1>1, SInvHolds, PTL
-----------------------------------------------------------------------------
(***************************************************************************)
(* Type correctness of the private stores.  The number of an attempt is a  *)
(* count of earlier ones, which are finitely many.                         *)
(***************************************************************************)
PrivateOK ==
    /\ tasks \subseteq Task
    /\ abstentions \subseteq [by : Abstainer]
    /\ locks \subseteq [by : Agent, n : Nat] /\ IsFiniteSet(locks)
    /\ committed \subseteq [by : Agent, n : Nat] /\ IsFiniteSet(committed)

LEMMA LockKeepsPrivateOK ==
    ASSUME PrivateOK, NEW a \in Agent, LockResearcherResult(a)  PROVE PrivateOK'
<1> DEFINE l == NextLock(a)
<1>1. l \in [by : Agent, n : Nat]
  <2>1. IsFiniteSet(By(locks \cup committed, a))
    BY FS_Union, FS_Subset DEF PrivateOK, By
  <2>2. Cardinality(By(locks \cup committed, a)) \in Nat
    BY <2>1, FS_CardinalityType
  <2> QED
    BY <2>2 DEF NextLock
<1>2. /\ committed' = committed \cup {l}
      /\ locks' = locks \cup {l} \/ locks' = locks
      /\ UNCHANGED <<tasks, abstentions>>
  BY DEF LockResearcherResult, Published, KeptOrLost, workspace
<1> HIDE DEF l
<1>3. IsFiniteSet(committed \cup {l}) /\ IsFiniteSet(locks \cup {l})
  BY FS_AddElement DEF PrivateOK
<1> QED
  BY <1>1, <1>2, <1>3 DEF PrivateOK

LEMMA PrivateOKHolds == SealedSpec => []PrivateOK
<1>1. SealedInit => PrivateOK
  BY FS_EmptySet DEF SealedInit, WorkspaceInit, RepositoryInit, PrivateOK
<1>2. ASSUME PrivateOK, [SealedNext]_sealedVars  PROVE PrivateOK'
  <2>1. CASE PrivateCall
    BY <1>2, <2>1 DEF PrivateOK, PrivateCall, ReceiveTask, SealPrivateAttestation,
       RecordDeliberateAbstention, repository
  <2>2. CASE UNCHANGED <<tasks, abstentions, locks, committed>>
    BY <1>2, <2>2 DEF PrivateOK
  <2>3. ASSUME NEW s, PostCommit(s)  PROVE UNCHANGED <<tasks, abstentions, locks, committed>>
    BY <2>3 DEF PostCommit, PostCommitRuns, NotifyOf, repository
  <2> QED
    BY <1>2, <2>1, <2>2, <2>3, LockKeepsPrivateOK
    DEF SealedNext, sealedVars, workspace, repository, PublicCall, RetryNotify,
        NotifyOf, RevealAttestation, RevealResult
<1> QED
  BY <1>1, <1>2, PTL DEF SealedSpec

(***************************************************************************)
(* Type correctness: a hash is always that of an assessment and a task, a  *)
(* shown attestation always states the terms of a request.                 *)
(***************************************************************************)
THEOREM SealedTypeCorrect == SealedSpec => []SealedTypeOK
<1>1. ASSUME SInv  PROVE hashes \subseteq [by : Agent,
                                 hash : {CommitmentHash(d, t) : d \in Draft, t \in Task}]
  <2> SUFFICES ASSUME NEW h \in hashes
               PROVE  h \in [by : Agent, hash : {CommitmentHash(d, t) : d \in Draft, t \in Task}]
    OBVIOUS
  <2>1. PICK s \in seals : h = [by |-> s.by, hash |-> s.hash]
    BY <1>1 DEF SInv, HashesKept
  <2>2. PICK t \in Task, d \in Draft : s = Seal(t, d)
    BY <1>1 DEF SInv, SealsKept
  <2>3. s.by \in Agent /\ s.hash = CommitmentHash(d, t)
    BY <2>2, SealedAssumption DEF Seal
  <2> QED
    BY <2>1, <2>3
<1>2. ASSUME SInv  PROVE shown \subseteq [by : Agent,
                                 draft : {Stamped(d, r) : d \in Draft, r \in Request}]
  <2> SUFFICES ASSUME NEW y \in shown
               PROVE  y \in [by : Agent, draft : {Stamped(d, r) : d \in Draft, r \in Request}]
    OBVIOUS
  <2>1. PICK s \in seals, d \in Draft, r \in Request : y = [by |-> s.by, draft |-> Stamped(d, r)]
    BY <1>2 DEF SInv, ShownChecked, Checked
  <2>2. s.by \in Agent
    BY <1>2, SealHasAuthor DEF SInv
  <2> QED
    BY <2>1, <2>2
<1>3. SInv /\ PrivateOK /\ TypeOK => SealedTypeOK
  BY <1>1, <1>2 DEF SealedTypeOK, WorkspaceTypeOK, PrivateOK, SInv, SealsKept
<1>4. SealedSpec => []TypeOK
  BY SealedRoundIsARound, TypeCorrect, PTL
<1> QED
  BY <1>3, <1>4, SInvHolds, PrivateOKHolds, PTL
-----------------------------------------------------------------------------
(***************************************************************************)
(* What the governance DNA is handed: only attested content is shown.      *)
(***************************************************************************)
ShownAttested == \A y \in shown : By(attestations, y.by) # {}

LEMMA ShownAttestedHolds == SealedSpec => []ShownAttested
<1>1. SealedInit => ShownAttested
  BY DEF SealedInit, ShownAttested
<1>2. ASSUME ShownAttested, [SealedNext]_sealedVars  PROVE ShownAttested'
  <2>1. ASSUME NEW s \in seals, NEW d \in Draft, RevealAttestation(s, d)
        PROVE  ShownAttested'
    <3>1. PICK x \in anchors :
            /\ SubmitAttestation(s.by)
            /\ shown' = shown \cup {[by |-> s.by, draft |-> Stamped(d, x.req)]}
      BY <2>1 DEF RevealAttestation, By
    <3>2. attestations \subseteq attestations' /\ By(attestations', s.by) # {}
      BY <3>1 DEF SubmitAttestation, By
    <3> QED
      BY <1>2, <3>1, <3>2, ByGrows DEF ShownAttested
  <2>2. CASE UNCHANGED <<shown, attestations>>
    BY <1>2, <2>2 DEF ShownAttested, By
  <2>3. ASSUME NEW s, NotifyOf(s)  PROVE UNCHANGED <<shown, attestations>>
    BY <2>3 DEF NotifyOf, NotifyCommitmentSealed
  <2> QED
    BY <1>2, <2>1, <2>2, <2>3
    DEF SealedNext, sealedVars, vars, binding, PublicCall, PrivateCall,
        LockResearcherResult, Published, PostCommit, RetryNotify, RevealResult,
        SubmitValidationRequest, ClaimStudy, ClaimAges, ReleaseClaim,
        ReclaimAbandonedClaim, PublishResearcherCommitment, RevealResearcherResult
<1> QED
  BY <1>1, <1>2, PTL DEF SealedSpec

-----------------------------------------------------------------------------
\* What a request, a claim, a release or a reveal is to finalisation.
LEMMA RequestIsHanded ==
    ASSUME NEW r, SubmitValidationRequest(r), UNCHANGED shown, UNCHANGED governance
    PROVE  Final!RequestMade(r)
<1>1. /\ Final!By(requests, r.by) = {}
      /\ requests' = requests \cup {r}
      /\ UNCHANGED <<claims, releases>>
  BY DEF SubmitValidationRequest, Reads, By, Final!By
<1>2. UNCHANGED <<ClaimsHanded, ReleasesHanded, AttestationsHanded>>
  BY <1>1 DEF ClaimsHanded, ReleasesHanded, AttestationsHanded
<1> QED
  BY <1>1, <1>2 DEF Final!RequestMade, governance

LEMMA ClaimIsHanded ==
    ASSUME TypeOK, FiniteRecords, NEW a \in Agent, ClaimStudy(a), UNCHANGED shown,
           UNCHANGED governance
    PROVE  Final!ClaimMade(a)
<1> DEFINE n == Cardinality(By(claims, a)) + 1
<1>1. PICK r \in requests :
        /\ n <= MaxClaims
        /\ claims' = claims \cup {[by |-> a, req |-> r, n |-> n]}
        /\ UNCHANGED <<requests, releases>>
  BY DEF ClaimStudy, LatestRequests, Latest, Reads
<1>2. IsFiniteSet(By(claims, a))
  BY FS_Subset DEF By, FiniteRecords
<1>3. n \in 1..MaxClaims
  BY <1>1, <1>2, FS_CardinalityType, RoundAssumption
<1> HIDE DEF n
<1>4. ClaimsHanded' = ClaimsHanded \cup {[by |-> a, n |-> n]}
  <2> DEFINE new == [by |-> a, req |-> r, n |-> n]
  <2>1. Claimed(new) = [by |-> a, n |-> n]
    BY DEF Claimed
  <2>2. claims' = claims \cup {new}
    BY <1>1
  <2>3. ClaimsHanded' = {Claimed(c) : c \in claims'}
    BY DEF ClaimsHanded, Claimed
  <2> HIDE DEF new
  <2> QED
    BY <2>1, <2>2, <2>3 DEF ClaimsHanded
<1>5. UNCHANGED <<ReleasesHanded, AttestationsHanded>>
  BY <1>1 DEF ReleasesHanded, AttestationsHanded
<1> QED
  BY <1>1, <1>3, <1>4, <1>5 DEF Final!ClaimMade, governance

LEMMA ReleaseIsHanded ==
    ASSUME NEW a \in Agent, NEW held \in SUBSET claims,
           \/ a \in Leaver /\ held \subseteq By(claims, a)
           \/ a \in Reclaimer /\ \E c \in claims : held = {c},
           releases' = releases \cup {[by |-> a, claim |-> c] : c \in held},
           UNCHANGED <<requests, claims, shown>>, UNCHANGED governance
    PROVE  \E given \in SUBSET ClaimsHanded : Final!ClaimsReleased(a, given)
<1> DEFINE given == {Claimed(c) : c \in held}
<1>1. given \in SUBSET ClaimsHanded
  BY DEF ClaimsHanded
<1>2. held \subseteq By(claims, a) => given \subseteq Final!By(ClaimsHanded, a)
  BY <1>1 DEF Final!By, By, Claimed
<1>3. ReleasesHanded' = ReleasesHanded \cup {[by |-> a, claim |-> c] : c \in given}
  <2> DEFINE H(x) == [by |-> x.by, claim |-> Claimed(x.claim)]
  <2>1. ReleasesHanded = {H(x) : x \in releases} /\ ReleasesHanded' = {H(x) : x \in releases'}
    BY DEF ReleasesHanded, Claimed
  <2>2. \A c \in held : H([by |-> a, claim |-> c]) = [by |-> a, claim |-> Claimed(c)]
    OBVIOUS
  <2>3. {[by |-> a, claim |-> c] : c \in given} = {H([by |-> a, claim |-> c]) : c \in held}
    BY <2>2
  <2> HIDE DEF H
  <2> QED
    BY <2>1, <2>3
<1>4. UNCHANGED <<ClaimsHanded, AttestationsHanded>>
  BY DEF ClaimsHanded, AttestationsHanded
<1>5. (\E c \in claims : held = {c}) => \E c \in ClaimsHanded : given = {c}
  <2> SUFFICES ASSUME NEW c \in claims, held = {c}  PROVE \E e \in ClaimsHanded : given = {e}
    OBVIOUS
  <2>1. given = {Claimed(c)} /\ Claimed(c) \in ClaimsHanded
    BY DEF ClaimsHanded
  <2> QED
    BY <2>1
<1>6. Final!ClaimsReleased(a, given)
  BY <1>1, <1>2, <1>3, <1>4, <1>5 DEF Final!ClaimsReleased, governance
<1> QED
  BY <1>1, <1>6

LEMMA RevealIsHanded ==
    ASSUME SInv, ShownAttested, OriginInv, Credentialed,
           NEW s \in seals, NEW d \in Draft, RevealAttestation(s, d), UNCHANGED governance
    PROVE  \E r \in requests : Final!AttestationMade(s.by, r, d.finding)
<1>1. PICK x \in anchors :
        /\ x.by = s.by
        /\ SubmitAttestation(s.by)
        /\ shown' = shown \cup {[by |-> s.by, draft |-> Stamped(d, x.req)]}
  BY DEF RevealAttestation, By
<1>2. x.req \in requests
  BY DEF SInv, RequestsKept
<1>3. UNCHANGED <<requests, claims, releases>> /\ By(attestations, s.by) = {}
  BY <1>1 DEF SubmitAttestation, HasNotRevealed
<1>4. Final!By(ClaimsHanded, s.by) # {}
  <2>1. PICK c \in claims : c.by = s.by
    BY <1>1 DEF OriginInv, CommittersClaimed, By
  <2>2. Claimed(c) \in ClaimsHanded /\ Claimed(c).by = s.by
    BY <2>1 DEF ClaimsHanded, Claimed
  <2> QED
    BY <2>2 DEF Final!By
<1>5. Final!By(AttestationsHanded, s.by) = {}
  BY <1>3 DEF ShownAttested, AttestationsHanded, Final!By
<1>6. Stamped(d, x.req).terms = x.req /\ Stamped(d, x.req).finding = d.finding
  BY WorkspaceAssumption DEF Stamped
<1>7. AttestationsHanded' = AttestationsHanded \cup
        {[by |-> s.by, req |-> x.req, outcome |-> d.finding]}
  <2> DEFINE H(y) == [by |-> y.by, req |-> y.draft.terms, outcome |-> y.draft.finding]
             new  == [by |-> s.by, draft |-> Stamped(d, x.req)]
  <2>1. H(new) = [by |-> s.by, req |-> x.req, outcome |-> d.finding]
    BY <1>6
  <2>2. shown' = shown \cup {new}
    BY <1>1
  <2>3. AttestationsHanded = {H(y) : y \in shown} /\ AttestationsHanded' = {H(y) : y \in shown'}
    BY DEF AttestationsHanded
  <2> HIDE DEF H, new
  <2> QED
    BY <2>1, <2>2, <2>3
<1>8. UNCHANGED <<ClaimsHanded, ReleasesHanded>>
  BY <1>3 DEF ClaimsHanded, ReleasesHanded
<1> QED
  BY <1>2, <1>3, <1>4, <1>5, <1>7, <1>8 DEF Final!AttestationMade, governance

LEMMA StepIsHanded ==
    ASSUME SInv, ShownAttested, OriginInv, Credentialed, TypeOK, FiniteRecords,
           [SealedNext]_sealedVars, UNCHANGED governance
    PROVE  [Final!RoundNext]_Final!vars
<1>1. ASSUME NEW a \in Agent, ClaimStudy(a), UNCHANGED shown  PROVE Final!RoundNext
  BY <1>1, ClaimIsHanded DEF Final!RoundNext
<1>2. ASSUME NEW a \in Leaver, ReleaseClaim(a), UNCHANGED shown  PROVE Final!RoundNext
  <2>1. PICK held \in ClaimsToRelease(a) :
          releases' = releases \cup {[by |-> a, claim |-> c] : c \in held}
    BY <1>2 DEF ReleaseClaim
  <2>2. held \subseteq By(claims, a) /\ held \in SUBSET claims
    BY DEF ClaimsToRelease, ActiveReads, Unreleased, By
  <2>3. UNCHANGED <<requests, claims, shown>> /\ a \in Agent
    BY <1>2, RoundAssumption DEF ReleaseClaim
  <2> QED
    BY <2>1, <2>2, <2>3, ReleaseIsHanded DEF Final!RoundNext
<1>3. ASSUME NEW a \in Reclaimer, NEW c \in claims, ReclaimAbandonedClaim(a, c),
             UNCHANGED shown
      PROVE  Final!RoundNext
  <2>1. /\ releases' = releases \cup {[by |-> a, claim |-> e] : e \in {c}}
        /\ UNCHANGED <<requests, claims, shown>> /\ a \in Agent
    BY <1>3, RoundAssumption DEF ReclaimAbandonedClaim
  <2>2. \E given \in SUBSET ClaimsHanded : Final!ClaimsReleased(a, given)
    BY <1>3, <2>1, ReleaseIsHanded
  <2> QED
    BY <2>1, <2>2 DEF Final!RoundNext
<1>4. ASSUME NEW s \in seals, NEW d \in Draft, RevealAttestation(s, d)
      PROVE  Final!RoundNext
  <2>1. s.by \in Agent
    BY SealHasAuthor DEF SInv
  <2> QED
    BY <1>4, <2>1, RevealIsHanded DEF Final!RoundNext, TypeOK
<1>5. CASE UNCHANGED <<requests, claims, releases, shown>>
  BY <1>5 DEF Final!vars, ClaimsHanded, ReleasesHanded, AttestationsHanded, governance
<1>6. ASSUME NEW s, NotifyOf(s)  PROVE UNCHANGED <<requests, claims, releases, shown>>
  BY <1>6 DEF NotifyOf, NotifyCommitmentSealed
<1>7. ASSUME NEW r \in Request, SubmitValidationRequest(r), UNCHANGED shown
      PROVE  Final!RoundNext
  BY <1>7, RequestIsHanded DEF Final!RoundNext
<1>8. CASE PublicCall
  BY <1>1, <1>2, <1>3, <1>5, <1>7, <1>8 DEF PublicCall, binding, ClaimAges
<1>9. CASE /\ \A s \in seals, d \in Draft : ~RevealAttestation(s, d)
           /\ ~PublicCall
  BY <1>5, <1>6, <1>9
  DEF SealedNext, sealedVars, vars, binding, PrivateCall, LockResearcherResult,
      Published, PostCommit, RetryNotify, RevealResult, PublishResearcherCommitment,
      RevealResearcherResult
<1> QED
  BY <1>4, <1>8, <1>9

(***************************************************************************)
(* Every step of a study is one of the sealed round or leaves it alone.    *)
(***************************************************************************)
THEOREM StudyIsASealedRound == StudySpec => SealedSpec
<1>1. StudyInit => SealedInit
  BY DEF StudyInit
<1>2. [StudyNext]_studyVars => [SealedNext]_sealedVars
  BY DEF StudyNext, studyVars, TimesOut, Finalises
<1> QED
  BY <1>1, <1>2, PTL DEF StudySpec, SealedSpec

\* What the steps of a study rest on.
StudyInv == SInv /\ ShownAttested /\ OriginInv /\ TypeOK /\ FiniteRecords

LEMMA StudyInvHolds == StudySpec => []StudyInv
<1>1. SealedSpec => []OriginInv
  BY SealedRoundIsARound, OriginInvHolds, PTL
<1>2. SealedSpec => [](TypeOK /\ FiniteRecords)
  BY SealedRoundIsARound, TypeCorrect, PTL
<1> QED
  BY <1>1, <1>2, StudyIsASealedRound, SInvHolds, ShownAttestedHolds, PTL DEF StudyInv

\* A study meets what Finalisation assumes of its constants, so that its theorems
\* hold of every behaviour that RealRoundsAreFinalised maps to it.
LEMMA FinalisationApplies == Final!FinalisationAssumption /\ Final!ReputationAssumption
<1>1. Final!IsFiniteSet(Agent) /\ Final!IsFiniteSet(Request)
  BY RoundAssumption, StudyAssumption DEF Final!IsFiniteSet, IsFiniteSet
<1> QED
  BY <1>1, RoundAssumption, StudyAssumption
  DEF Final!FinalisationAssumption, Final!ReputationAssumption

(***************************************************************************)
(* The rounds that finalisation is proved against are those that the       *)
(* attestation DNA and the private stores of a credentialed network run:   *)
(* every step of a study is one that Finalisation allows for, or none that *)
(* it sees.                                                                *)
(***************************************************************************)
THEOREM RealRoundsAreFinalised ==
    ASSUME Credentialed  PROVE StudySpec => FinalisesRealRounds
<1>1. StudyInit => Final!Init
  BY DEF StudyInit, SealedInit, Init, Final!Init, ClaimsHanded, ReleasesHanded,
         AttestationsHanded
<1>2. StudyInv /\ [StudyNext]_studyVars => [Final!Next]_Final!vars
  <2> SUFFICES ASSUME StudyInv, [StudyNext]_studyVars  PROVE [Final!Next]_Final!vars
    OBVIOUS
  <2>1. CASE [SealedNext]_sealedVars /\ UNCHANGED governance
    BY <2>1, StepIsHanded DEF StudyInv, Final!Next
  <2>2. ASSUME NEW r \in requests, TimesOut(r)  PROVE Final!Next
    BY <2>2 DEF TimesOut, StudyInv, TypeOK, Final!Next, Final!RoundNext
  <2>3. ASSUME NEW a \in Agent, Finalises(a)  PROVE Final!Next
    BY <2>3 DEF Finalises, Final!Next
  <2> QED
    BY <2>1, <2>2, <2>3 DEF StudyNext, studyVars
<1> QED
  BY <1>1, <1>2, StudyInvHolds, PTL DEF StudySpec, FinalisesRealRounds, Final!Spec
-----------------------------------------------------------------------------
\* A shown attestation states the terms of the request that its author committed
\* to, and a record holds attestations that were handed over, some of them.
ShownAnchored == \A y \in shown : \E k \in By(anchors, y.by) : k.req = y.draft.terms

EvidenceHeld ==
    \A h \in records : h.evidence # {} /\ h.evidence \subseteq AttestationsHanded

\* The records that others build on are kept.
LEMMA OnlyMore ==
    ASSUME [Next]_vars
    PROVE  /\ anchors \subseteq anchors' /\ markers \subseteq markers'
           /\ commitments \subseteq commitments'
BY NotifyPublishes
DEF Next, vars, SubmitValidationRequest, PublishResearcherCommitment, ClaimStudy,
    ClaimAges, ReleaseClaim, ReclaimAbandonedClaim, SubmitAttestation,
    RevealResearcherResult

LEMMA ShownAnchoredHolds == SealedSpec => []ShownAnchored
<1>1. SealedInit => ShownAnchored
  BY DEF SealedInit, ShownAnchored
<1>2. ASSUME ShownAnchored, SInv, [SealedNext]_sealedVars  PROVE ShownAnchored'
  <2>1. anchors \subseteq anchors'
    BY <1>2, SealedStepIsRoundStep, OnlyMore DEF SInv
  <2>2. ASSUME NEW s \in seals, NEW d \in Draft, RevealAttestation(s, d)
        PROVE  ShownAnchored'
    <3>1. PICK x \in By(anchors, s.by) :
            shown' = shown \cup {[by |-> s.by, draft |-> Stamped(d, x.req)]}
      BY <2>2 DEF RevealAttestation
    <3>2. Stamped(d, x.req).terms = x.req
      BY WorkspaceAssumption DEF Stamped
    <3>3. x \in By(anchors', s.by)
      BY <2>1 DEF By
    <3> QED
      BY <1>2, <2>1, <3>1, <3>2, <3>3 DEF ShownAnchored, By
  <2>3. CASE UNCHANGED shown
    BY <1>2, <2>1, <2>3 DEF ShownAnchored, By
  <2> QED
    BY <1>2, <2>2, <2>3
    DEF SealedNext, sealedVars, binding, PublicCall, PrivateCall,
        LockResearcherResult, PostCommit, NotifyOf, RetryNotify, RevealResult
<1> QED
  BY <1>1, <1>2, SInvHolds, PTL DEF SealedSpec

LEMMA ShownStays == ASSUME [SealedNext]_sealedVars  PROVE shown \subseteq shown'
BY DEF SealedNext, sealedVars, binding, PublicCall, PrivateCall, LockResearcherResult,
       PostCommit, NotifyOf, RetryNotify, RevealAttestation, RevealResult

\* A record that governance writes is of attestations its writer read.
LEMMA RecordHoldsWhatWasRead ==
    ASSUME NEW a, NEW atts \in SUBSET AttestationsHanded, NEW n,
           Final!WriteHarmonyRecord(a, atts, n)
    PROVE  \E h : /\ records' = records \cup {h}
                  /\ h.evidence # {} /\ h.evidence \subseteq AttestationsHanded
<1> DEFINE h == [by |-> a, evidence |-> atts, requested |-> n]
<1>1. records' = records \cup {h} /\ Final!ValidRecord(h)
  BY DEF Final!WriteHarmonyRecord
<1>2. h.evidence = atts
  OBVIOUS
<1>3. h.evidence # {}
  BY <1>1 DEF Final!ValidRecord, Final!Participants, Final!Authors
<1> QED
  BY <1>1, <1>2, <1>3

LEMMA EvidenceHeldHolds == StudySpec => []EvidenceHeld
<1>1. StudyInit => EvidenceHeld
  BY DEF StudyInit, EvidenceHeld
<1>2. ASSUME EvidenceHeld, [StudyNext]_studyVars  PROVE EvidenceHeld'
  <2>1. AttestationsHanded \subseteq AttestationsHanded'
    <3>1. shown \subseteq shown'
      BY <1>2, ShownStays
      DEF StudyNext, studyVars, TimesOut, Finalises, sealedVars, binding
    <3> QED
      BY <3>1 DEF AttestationsHanded
  <2>2. CASE UNCHANGED records
    BY <1>2, <2>1, <2>2 DEF EvidenceHeld
  <2>3. ASSUME NEW a, NEW atts \in SUBSET AttestationsHanded, NEW n,
               Final!WriteHarmonyRecord(a, atts, n)
        PROVE  EvidenceHeld'
    <3>1. PICK h : /\ records' = records \cup {h}
                   /\ h.evidence # {} /\ h.evidence \subseteq AttestationsHanded
      BY <2>3, RecordHoldsWhatWasRead
    <3> QED
      BY <1>2, <2>1, <3>1 DEF EvidenceHeld
  <2>4. ASSUME NEW a \in Agent, Finalises(a)  PROVE EvidenceHeld'
    <3>1. CASE Final!CheckAndCreateHarmonyRecord(a)
      BY <2>2, <2>3, <3>1 DEF Final!CheckAndCreateHarmonyRecord, Final!Reads
    <3>2. CASE Final!ForceFinalizeRound(a)
      BY <2>3, <3>2 DEF Final!ForceFinalizeRound, Final!ForceFinalize, Final!Reads
    <3> QED
      BY <2>4, <3>1, <3>2 DEF Finalises
  <2> QED
    BY <1>2, <2>2, <2>4
    DEF StudyNext, studyVars, governance, TimesOut, Final!RequestTimesOut
<1> QED
  BY <1>1, <1>2, PTL DEF StudySpec

(***************************************************************************)
(* From the private workspace to the record: no verdict before researcher  *)
(* and quorum are bound, and none that was not sealed and committed to.    *)
(***************************************************************************)
THEOREM VerdictsAreAlwaysEarned == StudySpec => []VerdictsAreEarned
<1>1. ASSUME EvidenceHeld, ShownAnchored, ShownAttested, RevealedIsSealed, ShownChecked,
             BlindUntilQuorum, IndependentWhereClaimed
      PROVE  VerdictsAreEarned
  <2> SUFFICES ASSUME NEW h \in records
               PROVE  /\ Credentialed => QuorumCommitted /\ commitments # {}
                      /\ \A x \in h.evidence :
                            /\ \E k \in By(anchors, x.by) : k.req = x.req
                            /\ \E g \in By(hashes, x.by), s \in By(seals, x.by) :
                                  /\ s.copy.finding = x.outcome
                                  /\ g.hash = CommitmentHash(Rebuilt(s.copy), Nonce(s))
    BY DEF VerdictsAreEarned
  <2>1. ASSUME NEW x \in h.evidence
        PROVE  \E y \in shown : x = [by |-> y.by, req |-> y.draft.terms,
                                     outcome |-> y.draft.finding]
    BY <1>1 DEF EvidenceHeld, AttestationsHanded
  <2>2. ASSUME NEW x \in h.evidence
        PROVE  \E k \in By(anchors, x.by) : k.req = x.req
    BY <1>1, <2>1 DEF ShownAnchored
  <2>3. ASSUME NEW x \in h.evidence
        PROVE  \E g \in By(hashes, x.by), s \in By(seals, x.by) :
                  /\ s.copy.finding = x.outcome
                  /\ g.hash = CommitmentHash(Rebuilt(s.copy), Nonce(s))
    <3>1. PICK y \in shown : x = [by |-> y.by, req |-> y.draft.terms,
                                  outcome |-> y.draft.finding]
      BY <2>1
    <3>2. PICK g \in By(hashes, y.by), s \in By(seals, y.by) :
            /\ g.hash = CommitmentHash(y.draft, Nonce(s))
            /\ y.draft.finding = s.copy.finding /\ y.draft.work = s.copy.work
      BY <1>1 DEF RevealedIsSealed
    <3>3. PICK d \in Draft, r \in Request : y.draft = Stamped(d, r)
      BY <1>1 DEF ShownChecked, Checked
    <3>4. CommitmentBytes(y.draft) = Rebuilt(s.copy)
      <4>1. d = [finding |-> d.finding, work |-> d.work, terms |-> NoTerms]
        BY WorkspaceAssumption
      <4>2. y.draft = [finding |-> d.finding, work |-> d.work, terms |-> r]
        BY <3>3, <4>1 DEF Stamped
      <4> QED
        BY <3>2, <4>2 DEF CommitmentBytes, Rebuilt
    <3>5. CommitmentBytes(Rebuilt(s.copy)) = Rebuilt(s.copy)
      BY DEF CommitmentBytes, Rebuilt
    <3> QED
      BY <3>1, <3>2, <3>4, <3>5 DEF CommitmentHash
  <2>4. Credentialed => QuorumCommitted /\ commitments # {}
    <3>1. PICK x \in h.evidence : TRUE
      BY <1>1 DEF EvidenceHeld
    <3>2. attestations # {} /\ anchors # {}
      BY <1>1, <2>1, <2>2 DEF ShownAttested, By
    <3> QED
      BY <1>1, <3>2 DEF BlindUntilQuorum, IndependentWhereClaimed
  <2> QED
    BY <2>2, <2>3, <2>4
<1>2. SInv => ShownChecked
  BY DEF SInv
<1>3. SealedSpec => []IndependentWhereClaimed
  BY SealedRoundIsARound, CommittersAreIndependent, PTL
<1> QED
  BY <1>1, <1>2, <1>3, StudyIsASealedRound, EvidenceHeldHolds, ShownAnchoredHolds,
     ShownAttestedHolds, RevealsAreSealed, SInvHolds, SealedRoundIsBlind, PTL
-----------------------------------------------------------------------------
(***************************************************************************)
(* From fairness to what happens.  The provers cannot evaluate ENABLED, so *)
(* the guards of the three calls are written out, and the theorems assume  *)
(* of ENABLED that a call is possible when its guards hold (GuardsSuffice, *)
(* true by the form of the actions).  That the guards do hold, for ever,   *)
(* for whoever owes a call, is what has to be shown.                       *)
(***************************************************************************)
MayReveal(a) ==
    /\ \E s \in By(seals, a) : HashMatches(Rebuilt(s.copy), Nonce(s), a)
    /\ By(anchors, a) # {}
    /\ Credentialed => SeesRevealOpen(a)
    /\ HasNotRevealed(a)

MayAnswer(a) ==
    /\ LockOpens(a)
    /\ {} \in Reads(reveals, a)
    /\ SeesRevealOpen(a)
    /\ \E r \in LatestRequests(a), c \in commitments : ValidReveal(a, r, c)

MayNotify(a) ==
    /\ By(seals \ unsent, a) # {}
    /\ {} \in Reads(markers, a)
    /\ By(anchors, a) = {}
    /\ Credentialed => HoldsLiveClaim(a) /\ SeesCommitment(a)
    /\ Latest(requests) # {}

GuardsSuffice ==
    \A a \in Agent :
        /\ MayReveal(a) => ENABLED <<RevealOwn(a)>>_sealedVars
        /\ MayAnswer(a) => ENABLED <<RevealResult(a)>>_sealedVars
        /\ MayNotify(a) => ENABLED <<NotifyAgain(a)>>_sealedVars

\* An agent makes one request, there is a latest one among the published, and
\* claims are for published ones.
RequestsInv ==
    /\ \A q, r \in requests : q.by = r.by => q = r
    /\ requests # {} => Latest(requests) # {}
    /\ \A c \in claims : c.req \in requests

LEMMA RequestsInvHolds == Spec => []RequestsInv
<1>1. Init => RequestsInv
  BY DEF Init, RequestsInv
<1>2. ASSUME TypeOK, RequestsInv, [Next]_vars  PROVE RequestsInv'
  <2>1. ASSUME NEW r \in Request, SubmitValidationRequest(r)  PROVE RequestsInv'
    <3>1. requests' = requests \cup {r} /\ UNCHANGED claims
      BY <2>1 DEF SubmitValidationRequest
    <3>2. \A q \in requests : q.by # r.by
      BY <2>1 DEF SubmitValidationRequest, Reads, By
    <3>3. \A q \in requests' : q.at \in Nat
      BY <1>2, <3>1, RoundAssumption DEF TypeOK
    <3>4. Latest(requests') # {}
      <4>1. CASE requests = {}
        BY <3>1, <3>3, <4>1 DEF Latest
      <4>2. CASE requests # {}
        <5>1. PICK l \in requests : \A q \in requests : q.at <= l.at
          BY <1>2, <4>2 DEF RequestsInv, Latest
        <5>2. CASE r.at <= l.at
          BY <3>1, <5>1, <5>2 DEF Latest
        <5>3. CASE ~(r.at <= l.at)
          <6>1. \A q \in requests' : q.at <= r.at
            BY <3>1, <3>3, <5>1, <5>3
          <6> QED
            BY <3>1, <6>1 DEF Latest
        <5> QED
          BY <5>2, <5>3
      <4> QED
        BY <4>1, <4>2
    <3> QED
      BY <1>2, <3>1, <3>2, <3>4 DEF RequestsInv
  <2>2. ASSUME NEW a \in Agent, ClaimStudy(a)  PROVE RequestsInv'
    <3>1. PICK r \in LatestRequests(a) :
            /\ \E n : claims' = claims \cup {[by |-> a, req |-> r, n |-> n]}
            /\ UNCHANGED requests
      BY <2>2 DEF ClaimStudy
    <3>2. r \in requests
      BY <1>2, LatestIsARequest DEF TypeOK
    <3> QED
      BY <1>2, <3>1, <3>2 DEF RequestsInv, Latest
  <2>3. CASE UNCHANGED <<requests, claims>>
    BY <1>2, <2>3 DEF RequestsInv, Latest
  <2>4. ASSUME NEW a, NotifyCommitmentSealed(a)  PROVE UNCHANGED <<requests, claims>>
    BY <2>4 DEF NotifyCommitmentSealed
  <2> QED
    BY <1>2, <2>1, <2>2, <2>3, <2>4
    DEF Next, vars, PublishResearcherCommitment, ClaimAges, ReleaseClaim,
        ReclaimAbandonedClaim, SubmitAttestation, RevealResearcherResult
<1> QED
  BY <1>1, <1>2, TypeCorrect, PTL DEF Spec

OweInv == SInv /\ RequestsInv /\ OriginInv

LEMMA OweInvHolds == SealedSpec => []OweInv
BY SInvHolds, SealedRoundIsARound, RequestsInvHolds, OriginInvHolds, PTL DEF OweInv

\* A read that returns everything is a read.
LEMMA WholeRead ==
    ASSUME NEW S, NEW a  PROVE S \in Reads(S, a) /\ By(S, a) \in Reads(S, a)
BY DEF Reads, By

LEMMA OwedRevealIsPossible ==
    ASSUME SInv, NEW a \in Agent, OwesReveal(a)  PROVE MayReveal(a)
<1>1. PICK x \in anchors : x.by = a
  BY DEF OwesReveal, By
<1>2. \E h \in By(hashes, a), s \in By(seals, a) :
          CommitmentHash(Rebuilt(s.copy), Nonce(s)) = h.hash
  BY <1>1, SInvOpensSeals DEF SealsOpen
<1>3. SeesRevealOpen(a)
  BY WholeRead DEF OwesReveal, SeesRevealOpen
<1> QED
  BY <1>1, <1>2, <1>3 DEF MayReveal, HashMatches, OwesReveal, HasNotRevealed, By

LEMMA OwedResultIsPossible ==
    ASSUME OweInv, NEW a \in Agent, OwesResult(a)  PROVE MayAnswer(a)
<1> USE DEF OweInv
<1>1. PICK l \in locks : l.by = a /\ l \in committed
  BY DEF OwesResult, By, SInv, AttemptsCommitted
<1>2. PICK c \in commitments : c.by = a
  BY <1>1 DEF SInv, AttemptsCommitted, By
<1>3. PICK r \in requests : r.by = a
  BY <1>2 DEF OwesResult, OriginInv, ResearchersAsked
<1>4. r.at <= r.at
  BY RoundAssumption DEF SInv, RequestsKept
<1>5. r \in Latest(By(requests, a))
  BY <1>3, <1>4 DEF RequestsInv, Latest, By
<1>6. r \in LatestRequests(a)
  BY <1>5, WholeRead DEF LatestRequests
<1>7. SeesRevealOpen(a)
  BY WholeRead DEF OwesResult, SeesRevealOpen
<1>8. {} \in Reads(reveals, a)
  BY DEF OwesResult, Reads
<1>9. LockOpens(a)
  BY <1>1 DEF LockOpens, Opening, By
<1> QED
  BY <1>2, <1>3, <1>6, <1>7, <1>8, <1>9 DEF MayAnswer, ValidReveal

LEMMA OwedNoticeIsPossible ==
    ASSUME OweInv, NEW a \in Agent, OwesNotice(a)  PROVE MayNotify(a)
<1>1. PICK c \in LiveClaims : c.by = a
  BY DEF OwesNotice
<1>2. HoldsLiveClaim(a)
  <2> DEFINE held == Unreleased(By(claims, a), releases)
  <2>1. c \in held
    BY <1>1 DEF LiveClaims, Unreleased, By
  <2>2. held \in ActiveReads(By(claims, a), a)
    BY DEF ActiveReads, Unreleased, By
  <2> QED
    BY <2>1, <2>2 DEF HoldsLiveClaim
<1>3. SeesCommitment(a)
  BY WholeRead DEF OwesNotice, SeesCommitment
<1>4. {} \in Reads(markers, a)
  BY DEF OwesNotice, Reads, By
<1>5. Latest(requests) # {}
  BY <1>1 DEF LiveClaims, Unreleased, OweInv, RequestsInv
<1> QED
  BY <1>2, <1>3, <1>4, <1>5 DEF MayNotify, OwesNotice

(***************************************************************************)
(* Nobody is ever stuck with a call that is owed.                          *)
(***************************************************************************)
THEOREM NobodyIsEverStuck == SealedSpec /\ []GuardsSuffice => []NobodyIsStuck
<1>1. OweInv /\ GuardsSuffice => NobodyIsStuck
  BY OwedRevealIsPossible, OwedResultIsPossible, OwedNoticeIsPossible
  DEF NobodyIsStuck, GuardsSuffice, OweInv
<1> QED
  BY <1>1, OweInvHolds, PTL

(***************************************************************************)
(* Everybody who has committed comes to reveal once the round is open.     *)
(***************************************************************************)
THEOREM CommittedComeToReveal == FairSealedSpec /\ []GuardsSuffice => RevealCompletes
<1>1. ASSUME NEW a \in Agent
      PROVE  FairSealedSpec /\ []GuardsSuffice =>
               ((markers # {} /\ By(anchors, a) # {}) ~> (By(attestations, a) # {}))
  <2> DEFINE P == markers # {} /\ By(anchors, a) # {}
             Q == By(attestations, a) # {}
             E == ENABLED <<RevealOwn(a)>>_sealedVars
  <2>1. NobodyIsStuck => (P /\ ~Q => E)
    BY DEF NobodyIsStuck, OwesReveal
  <2>2. SInv /\ P /\ [SealedNext]_sealedVars => P'
    BY SealedStepIsRoundStep, OnlyMore, ByGrows DEF SInv
  <2>3. <<RevealOwn(a)>>_sealedVars => Q'
    BY DEF RevealOwn, RevealAttestation, SubmitAttestation, By
  <2>4. FairSealedSpec => SealedSpec /\ Diligent(a)
    BY DEF FairSealedSpec
  <2>5. SealedSpec => [][SealedNext]_sealedVars
    BY DEF SealedSpec
  <2>6. Diligent(a) => WF_sealedVars(RevealOwn(a))
    BY PTL DEF Diligent
  <2> QED
    BY <2>1, <2>2, <2>3, <2>4, <2>5, <2>6, NobodyIsEverStuck, SInvHolds, PTL
<1> QED
  BY <1>1 DEF RevealCompletes

\* Locks are kept.
LEMMA LocksStay == ASSUME [SealedNext]_sealedVars  PROVE locks \subseteq locks'
BY DEF SealedNext, sealedVars, repository, PublicCall, PrivateCall, LockResearcherResult,
       KeptOrLost, PostCommit, NotifyOf, RetryNotify, RevealAttestation, RevealResult

(***************************************************************************)
(* A researcher that kept its lock comes to reveal its result.             *)
(***************************************************************************)
THEOREM LockedResultsFollow == FairSealedSpec /\ []GuardsSuffice => ResultFollows
<1>1. ASSUME NEW a \in Agent
      PROVE  FairSealedSpec /\ []GuardsSuffice =>
               ((Credentialed /\ markers # {} /\ By(locks, a) # {}) ~> (By(reveals, a) # {}))
  <2> DEFINE P == Credentialed /\ markers # {} /\ By(locks, a) # {}
             Q == By(reveals, a) # {}
             E == ENABLED <<RevealResult(a)>>_sealedVars
  <2>1. NobodyIsStuck => (P /\ ~Q => E)
    BY DEF NobodyIsStuck, OwesResult
  <2>2. SInv /\ P /\ [SealedNext]_sealedVars => P'
    BY SealedStepIsRoundStep, OnlyMore, LocksStay, ByGrows DEF SInv
  <2>3. <<RevealResult(a)>>_sealedVars => Q'
    <3> SUFFICES ASSUME RevealResult(a)  PROVE Q'
      OBVIOUS
    <3>1. PICK r \in LatestRequests(a) : reveals' = reveals \cup {[by |-> a, req |-> r]}
      BY DEF RevealResult, RevealResearcherResult
    <3>2. [by |-> a, req |-> r] \in By(reveals', a)
      BY <3>1 DEF By
    <3> QED
      BY <3>2 DEF By
  <2>4. FairSealedSpec => SealedSpec /\ Diligent(a)
    BY DEF FairSealedSpec
  <2>5. SealedSpec => [][SealedNext]_sealedVars
    BY DEF SealedSpec
  <2>6. Diligent(a) => WF_sealedVars(RevealResult(a))
    BY PTL DEF Diligent
  <2> QED
    BY <2>1, <2>2, <2>3, <2>4, <2>5, <2>6, NobodyIsEverStuck, SInvHolds, PTL
<1> QED
  BY <1>1 DEF ResultFollows

(***************************************************************************)
(* A validator whose notification was lost is committed in the end when it *)
(* keeps its claim, or the round opens without it.                         *)
(***************************************************************************)
THEOREM LostNoticesAreMadeGood == FairSealedSpec /\ []GuardsSuffice => RetryRecovers
<1>1. ASSUME NEW a \in Agent
      PROVE  FairSealedSpec /\ []GuardsSuffice =>
               (<>[](/\ By(seals \ unsent, a) # {}
                     /\ \E c \in LiveClaims : c.by = a
                     /\ commitments # {}
                     /\ markers = {})
                  => <>(By(anchors, a) # {}))
  <2> DEFINE P == /\ By(seals \ unsent, a) # {}
                  /\ \E c \in LiveClaims : c.by = a
                  /\ commitments # {}
                  /\ markers = {}
             Q == By(anchors, a) # {}
             E == ENABLED <<NotifyAgain(a)>>_sealedVars
  <2>1. NobodyIsStuck => (P /\ ~Q => E)
    BY DEF NobodyIsStuck, OwesNotice
  <2>2. <<NotifyAgain(a)>>_sealedVars => Q'
    <3> SUFFICES ASSUME NEW s \in By(seals, a), RetryNotify(s)  PROVE Q'
      BY DEF NotifyAgain
    <3>1. s.by = a /\ NotifyCommitmentSealed(a)
      BY DEF RetryNotify, NotifyOf, By
    <3>2. \E own \in [by : {a}, req : requests] : anchors' = anchors \cup {own}
      BY <3>1, NotifyPublishes
    <3> QED
      BY <3>2 DEF By
  <2>3. FairSealedSpec => SealedSpec /\ Diligent(a)
    BY DEF FairSealedSpec
  <2>4. Diligent(a) => WF_sealedVars(NotifyAgain(a))
    BY PTL DEF Diligent
  <2> QED
    BY <2>1, <2>2, <2>3, <2>4, NobodyIsEverStuck, PTL
<1> QED
  BY <1>1 DEF RetryRecovers

(***************************************************************************)
(* The private stores of a study progress as those of a round alone do:    *)
(* finalisation takes no turn from them.                                   *)
(***************************************************************************)
THEOREM StudiesProgress ==
    FairStudySpec /\ []GuardsSuffice => RevealCompletes /\ ResultFollows /\ RetryRecovers
<1>1. FairStudySpec => FairSealedSpec
  BY StudyIsASealedRound DEF FairStudySpec, FairSealedSpec
<1> QED
  BY <1>1, CommittedComeToReveal, LockedResultsFollow, LostNoticesAreMadeGood
=============================================================================
