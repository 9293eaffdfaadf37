-------------------------- MODULE ReputationRules --------------------------
(***************************************************************************)
(* How the governance coordinator derives a validator's next reputation    *)
(* record from the published ones.                                         *)
(*                                                                         *)
(* A record is an entry with its ValidatorToReputation link.  Times and    *)
(* disciplines are left out, and the agreement rate is the quotient of the *)
(* two counts it is stored with.                                           *)
(***************************************************************************)
EXTENDS Published

CONSTANTS
    Validator,    \* the validators scored
    Automated     \* those whose joining certificate or profile says AI

ASSUME ReputationAssumption ==
    /\ IsFiniteSet(Validator)
    /\ Automated \subseteq Validator

Tiers == {"Provisional", "Standard", "Advanced", "Certified"}

Of(reputations, v) == {x \in reputations : x.of = v}
-----------------------------------------------------------------------------
(***************************************************************************)
(* Faulty variants of operators below, no part of the model: what the code *)
(* would be with a check lost or a limit moved.  Each must break the       *)
(* property it is named for in PROJECT.json.                               *)
(***************************************************************************)
\* A reputation record attributed to the validator it is about.
RecordBySubject(a, v, total, successful, tier, published) ==
    [by |-> v, of |-> v, total |-> total, successful |-> successful,
     tier |-> tier, n |-> 1]

\* An update that counts every outcome as a success.
AdvanceAsSuccess(a, v, success, x, published) ==
    {[x EXCEPT !.by = a, !.total = @ + 1, !.successful = @ + 1,
               !.n = Cardinality(published) + 1]}

\* cert_tier without its last arm.
TierOrNone(total, successful) == IF total >= 3 THEN "Standard" ELSE "None"

\* The validator_type comparison lost: AI validators progress as humans do.
NobodyKeepsItsRecord(kind) == FALSE
-----------------------------------------------------------------------------
CertTier(total, successful) ==
    IF total >= 25 /\ 5 * successful >= 4 * total THEN "Certified"
    ELSE IF total >= 10 /\ 5 * successful >= 3 * total THEN "Advanced"
    ELSE IF total >= 3 THEN "Standard"
    ELSE "Provisional"

\* The bytes of a link's tag: that of a record that counts validations is the
\* big-endian u32 total_validations, that of an AI validator's a u64 zero.
TagBytes(x) == IF x.total = 0 THEN 8 ELSE 4

\* reputation_link_count: a tag shorter than a u64 counts as zero.
LinkCount(x) == IF TagBytes(x) >= 8 THEN x.total ELSE 0

\* The records max_by_key may return: get_links promises no order, so any of
\* those with the highest count.
Preferred(seen) ==
    {x \in seen : \A y \in seen : LinkCount(y) <= LinkCount(x)}

\* A record's place among its author's records of v tells it from them.
Record(a, v, total, successful, tier, published) ==
    [by |-> a, of |-> v, total |-> total, successful |-> successful,
     tier |-> tier, n |-> Cardinality(By(Of(published, v), a)) + 1]

\* The records an update by a may add when it builds on the record x.
Advance(a, v, success, x, published) ==
    LET total      == x.total + 1
        successful == x.successful + success
    IN  {Record(a, v, total, successful, CertTier(total, successful), published)}

\* An AI validator keeps the record it has.
KeepsItsRecord(kind) == kind = "AI"

\* The records one update by a, of what it counts as success (0 or 1), may add
\* to those published of v, which it takes for a validator of some kind.  A
\* record that a sees linked it may not receive; its own it always has.
Updates(a, v, kind, success, granted, published) ==
    LET reads  == Reads(Of(published, v), a)
        found  == UNION {Preferred(s) : s \in reads}
        Linked == {s \in reads : \E x \in Preferred(s) : x.by # a}
    IN  IF KeepsItsRecord(kind)
        THEN {{Record(a, v, 0, 0, granted, published)} : s \in reads \cap {{}}}
               \cup {{} : x \in found}
        ELSE {{Record(a, v, 1, success, "Provisional", published)} :
                s \in (reads \cap {{}}) \cup Linked}
               \cup {Advance(a, v, success, x, published) : x \in found}
=============================================================================
