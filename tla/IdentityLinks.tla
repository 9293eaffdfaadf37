--------------------------- MODULE IdentityLinks ---------------------------
(***************************************************************************)
(* Keys that say they are one identity (DNA 3): both agents sign the pair  *)
(* of their keys, one of them publishes an AgentIdentityAttestation with   *)
(* the two signatures, and either may delete it.                           *)
(*                                                                         *)
(* The signed bytes are the two keys in order, the same whoever calls:     *)
(* they are modelled as the set of the two.  Nothing in them says when     *)
(* they were signed, or for which attestation.                             *)
(***************************************************************************)
EXTENDS Published

CONSTANTS
    Key   \* the agents that may be linked

ASSUME KeyAssumption == IsFiniteSet(Key)

VARIABLES
    signatures,   \* over pairs of keys, known to both
    identities,   \* AgentIdentityAttestations, each with its two links
    revoked       \* those with a delete action

identityVars == <<signatures, identities, revoked>>

Pairs == {{a, b} : a, b \in Key}

IdentityTypeOK ==
    /\ signatures \subseteq [by : Key, pair : Pairs]
    /\ identities \subseteq [by : Key, pair : Pairs, n : Nat]
    /\ revoked \subseteq identities

IdentityInit ==
    /\ signatures = {}
    /\ identities = {}
    /\ revoked = {}

\* The attestations of a pair among those seen: both keys' links are tagged with
\* the other key.
Joining(seen, pair) == {x \in seen : x.pair = pair}

-----------------------------------------------------------------------------
(***************************************************************************)
(* A faulty variant of an operator below, no part of the model: what the   *)
(* code would be with a check changed.  It must break the property it is   *)
(* named for in PROJECT.json.                                              *)
(***************************************************************************)
\* The duplicate check made to ask for live attestations only, as its error
\* message suggests.
SeesNoLiveLink(a, pair) ==
    \E seen \in Reads(Joining(identities, pair), a) : seen \subseteq revoked
-----------------------------------------------------------------------------
\* The duplicate check: it counts revoked attestations too.
SeesNoLink(a, pair) == {} \in Reads(Joining(identities, pair), a)

\* The part of the ceremony outside the zome: an agent signs the pair.
SignIdentityPayload(a, b) ==
    /\ a # b
    /\ signatures' = signatures \cup {[by |-> a, pair |-> {a, b}]}
    /\ UNCHANGED <<identities, revoked>>

LinkAgentIdentity(a, b) ==
    /\ a # b
    /\ SeesNoLink(a, {a, b})
    /\ \A k \in {a, b} : [by |-> k, pair |-> {a, b}] \in signatures
    /\ identities' = identities \cup
          {[by |-> a, pair |-> {a, b},
            n |-> Cardinality(By(Joining(identities, {a, b}), a)) + 1]}
    /\ UNCHANGED <<signatures, revoked>>

\* Either named agent may delete, whoever published.
RevokeAgentIdentityLink(a, x) ==
    /\ a \in x.pair
    /\ revoked' = revoked \cup {x}
    /\ UNCHANGED <<signatures, identities>>

\* live_identity_links_of for a reader to whom everything has come.
LiveLinks(pair) == Joining(identities, pair) \ revoked

IdentityNext ==
    \/ \E a, b \in Key : SignIdentityPayload(a, b)
    \/ \E a, b \in Key : LinkAgentIdentity(a, b)
    \/ \E a \in Key, x \in identities : RevokeAgentIdentityLink(a, x)
-----------------------------------------------------------------------------
(***************************************************************************)
(* A revocation is not undone by whoever published what was revoked: the   *)
(* signatures stay good for ever, so a pair without a live attestation     *)
(* comes to have one again only from the agent that had published none     *)
(* for it, which had not yet received the other's (link_agent_identity's   *)
(* duplicate check).                                                       *)
(***************************************************************************)
RevocationLasts ==
    [][\A pair \in Pairs :
          (/\ Joining(identities, pair) # {}
           /\ LiveLinks(pair) = {}
           /\ LiveLinks(pair)' # {}) =>
             \A x \in LiveLinks(pair)' : By(Joining(identities, pair), x.by) = {}]_identityVars
=============================================================================
