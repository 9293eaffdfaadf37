------------------------ MODULE ResearcherRepository ------------------------
(***************************************************************************)
(* The private repositories of the researchers (DNA 1), all of them        *)
(* together, for one study: the results locked on each researcher's own    *)
(* source chain.                                                           *)
(*                                                                         *)
(* A lock is known by the attempt that made it, which drew its nonce; so   *)
(* is the hash that the attempt publishes.  Studies, protocols, snapshots  *)
(* and deviations are kept here too, and nothing ever asks for them.       *)
(***************************************************************************)
EXTENDS Published

VARIABLES
    locks,      \* LockedResults, with RequestToLockedResult
    committed   \* the attempts whose hash the ResearcherResultCommitments carry

repository == <<locks, committed>>

-----------------------------------------------------------------------------
RepositoryInit ==
    /\ locks = {}
    /\ committed = {}

\* The idempotency guard: no result of a is locked.
HasNotLocked(a) == By(locks, a) = {}

\* The lock that a's next attempt makes.
NextLock(a) == [by |-> a, n |-> Cardinality(By(locks \cup committed, a)) + 1]

\* The attempt's lock once its commitment is published: kept, or lost with the
\* caller's own writes, whose commit fails when another call wrote to the chain or the
\* conductor stopped in between.
KeptOrLost(l) == locks' = locks \cup {l} \/ UNCHANGED locks

\* The locks that open what a has published: get_locked_result returns the
\* latest one.
Opening(a) == {l \in By(locks, a) : l \in committed}
=============================================================================
