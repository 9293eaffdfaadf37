------------------------- MODULE ValidatorWorkspace -------------------------
(***************************************************************************)
(* The private workspaces of the validators (DNA 2), all of them together, *)
(* for one study: tasks, sealed assessments and recusals on each           *)
(* validator's own source chain.  Updates and deletes of them are refused. *)
(*                                                                         *)
(* An assessment is a draft of a ValidationAttestation: what the validator *)
(* found, the work it did for it (the bundle hash and its hardware), and   *)
(* the terms of the request, which the attestation coordinator stamps at   *)
(* the reveal.  SHA-256 is taken to be injective and a random nonce to be  *)
(* no other seal's: a seal's nonce is the task it was drawn for.           *)
(***************************************************************************)
EXTENDS Published

CONSTANTS
    Task,       \* the ValidationTasks a validator may be given for the study
    Draft,      \* the assessments validators may arrive at, without terms
    NoWork,     \* the empty optional fields of an attestation
    NoTerms,
    Abstainer   \* the validators that may recuse themselves

ASSUME WorkspaceAssumption ==
    /\ \A t \in Task : t = [by |-> t.by, n |-> t.n]
    /\ \A d \in Draft :
          d = [finding |-> d.finding, work |-> d.work, terms |-> NoTerms]

VARIABLES
    tasks,      \* ValidationTasks
    seals,      \* ValidatorPrivateAttestations, with TaskToPrivateAttestation
    unsent,     \* the seals whose post_commit is still to run
    abstentions \* DeliberateAbstentions, with RequestToAbstention

workspace == <<tasks, seals, unsent, abstentions>>

-----------------------------------------------------------------------------
(***************************************************************************)
(* Faulty variants of operators below, no part of the model: what the code *)
(* would be with a check lost or a field dropped.  Each must break the     *)
(* property it is named for in PROJECT.json.                               *)
(***************************************************************************)
\* The private copy without the fields that were hashed last.
CopyWithoutWork(d) == [finding |-> d.finding, work |-> NoWork]

\* A seal hashed without its nonce.
SealWithBareHash(t, d) ==
    [by |-> t.by, n |-> t.n, copy |-> [finding |-> d.finding, work |-> d.work],
     hash |-> [d EXCEPT !.terms = NoTerms]]
-----------------------------------------------------------------------------
\* commitment_msgpack_bytes: the fields the coordinator stamps are cleared.
CommitmentBytes(d) == [d EXCEPT !.terms = NoTerms]

CommitmentHash(d, nonce) == <<CommitmentBytes(d), nonce>>

\* The fields of a draft that the private entry carries, and the attestation a
\* client makes of them when it reveals.
PrivateCopy(d) == [finding |-> d.finding, work |-> d.work]
Rebuilt(copy)  == [finding |-> copy.finding, work |-> copy.work, terms |-> NoTerms]

\* What the coordinator makes of a revealed draft: one that states its terms.
Stamped(d, r) == [d EXCEPT !.terms = r]

Seal(t, d) ==
    [by |-> t.by, n |-> t.n, copy |-> PrivateCopy(d), hash |-> CommitmentHash(d, t)]

\* The nonce in a private entry.
Nonce(s) == [by |-> s.by, n |-> s.n]

WorkspaceTypeOK ==
    /\ tasks \subseteq Task
    /\ seals \subseteq {Seal(t, d) : t \in Task, d \in Draft}
    /\ unsent \subseteq seals
    /\ abstentions \subseteq [by : Abstainer]

WorkspaceInit ==
    /\ tasks = {}
    /\ seals = {}
    /\ unsent = {}
    /\ abstentions = {}
-----------------------------------------------------------------------------
\* Nothing keeps a study from becoming a task twice.
ReceiveTask(t) ==
    /\ t \notin tasks
    /\ tasks' = tasks \cup {t}
    /\ UNCHANGED <<seals, unsent, abstentions>>

\* The duplicate seal guard: one seal per task.
HasNotSealed(t) == \A s \in seals : Nonce(s) # t

SealPrivateAttestation(t, d) ==
    /\ t \in tasks
    /\ HasNotSealed(t)
    /\ seals' = seals \cup {Seal(t, d)}
    /\ unsent' = unsent \cup {Seal(t, d)}
    /\ UNCHANGED <<tasks, abstentions>>

\* A recusal concerns neither the tasks nor what was sealed.
RecordDeliberateAbstention(v) ==
    /\ By(abstentions, v) = {}
    /\ abstentions' = abstentions \cup {[by |-> v]}
    /\ UNCHANGED <<tasks, seals, unsent>>

\* post_commit runs once for a seal, whatever becomes of its call; a conductor
\* that stops before it runs does not run it again.
PostCommitRuns(s) ==
    /\ s \in unsent
    /\ unsent' = unsent \ {s}
    /\ UNCHANGED <<tasks, seals, abstentions>>
=============================================================================
