----------------------------- MODULE Published -----------------------------
(***************************************************************************)
(* What a zome call may read of the records published on a DHT.            *)
(*                                                                         *)
(* Published records only accumulate: entries and links are immutable and  *)
(* validation refuses deletes.  A read of a set of them returns any part   *)
(* that contains the caller's own records: every other record reaches the  *)
(* caller by gossip, or from an authority that may not hold it yet.        *)
(***************************************************************************)
EXTENDS Naturals, FiniteSets

\* The records of a published set that were written by agent a.
By(published, a) == {x \in published : x.by = a}

\* What a read of a published set may return to agent a.
Reads(published, a) ==
    {seen \in SUBSET published : By(published, a) \subseteq seen}

\* The requests with the latest link among those read (max_by_key timestamp).
Latest(seen) == {r \in seen : \A s \in seen : s.at <= r.at}

\* The claims of a set that no release of another set vacates.
Unreleased(someClaims, someReleases) ==
    {c \in someClaims : ~ \E x \in someReleases : x.claim = c}
=============================================================================
