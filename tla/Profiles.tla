------------------------------ MODULE Profiles ------------------------------
(***************************************************************************)
(* Who is who on the attestation DHT (DNA 3): the joining certificates     *)
(* that admit agents, the profiles they publish, and what others look up   *)
(* of them.                                                                *)
(*                                                                         *)
(* A profile is an entry with its AgentToProfile link, whose tag is the    *)
(* clock of its author's node, and its links in the index of institutions  *)
(* (that of disciplines is kept in the same way).  Profiles accumulate: an *)
(* update publishes another one.  The order of an author's actions is that *)
(* of its source chain; its clock may step back.  Disciplines, ORCID,      *)
(* capacity and person_key are treated as the institution is and left out. *)
(***************************************************************************)
EXTENDS Published

CONSTANTS
    Validator,
    Institution,
    NoInstitution,   \* the empty name
    Certificate,     \* the joining certificates that issuers have signed
    NoCertificate,
    HumanIssuer,     \* DNA property authorized_joining_certificate_issuer
    AIIssuer,        \* DNA property ai_validator_issuer
    NoKey,           \* an empty DNA property
    OfferedTier,     \* the tiers that callers put into their profiles
    Clock,           \* bound: the clock readings
    MaxProfiles      \* bound: the profiles of each validator

Kinds == {"Human", "AI"}
Tiers == {"Provisional", "Standard", "Advanced", "Certified"}

ASSUME ProfileAssumption ==
    /\ IsFiniteSet(Validator)
    /\ Certificate \subseteq [to : Validator, by : {HumanIssuer, AIIssuer},
                              kind : Kinds, tier : Tiers]
    /\ NoCertificate \notin Certificate
    /\ OfferedTier \subseteq Tiers
    /\ Clock \subseteq Nat
    /\ MaxProfiles \in [Validator -> Nat]

VARIABLES
    joined,   \* AgentValidationPkgs: agents and their membrane proofs
    profiles, \* ValidatorProfiles
    settings  \* history: what each validator last set, field by field

profileVars == <<joined, profiles, settings>>

\* An empty issuer key switches the credential system off.
Credentialed == HumanIssuer # NoKey

\* The fields of a profile that are its author's to set.
Fields  == {"institution", "declares"}
Setting == [institution : Institution \cup {NoInstitution}, declares : Kinds]
Empty   == [institution |-> NoInstitution, declares |-> "Human"]

ProfilesTypeOK ==
    /\ joined \subseteq [by : Validator, certificate : Certificate \cup {NoCertificate}]
    /\ profiles \subseteq
          [by : Validator, n : Nat, at : Clock, set : Setting, tier : Tiers,
           certificate : Certificate \cup {NoCertificate}]
    /\ settings \in [Validator -> Setting]

ProfilesInit ==
    /\ joined = {}
    /\ profiles = {}
    /\ settings = [v \in Validator |-> Empty]

-----------------------------------------------------------------------------
(***************************************************************************)
(* Faulty variants of operators below, no part of the model: what the code *)
(* would be with a check lost or an order swapped.  Each must break the    *)
(* property it is named for in PROJECT.json.                               *)
(***************************************************************************)
\* A certificate of either issuer taken for either kind of validator.
CheckAnyIssuer(a, c) ==
    Credentialed => /\ c # NoCertificate
                    /\ c.to = a

\* An update that builds on the first profile.
OldestBase(a) == {p \in By(profiles, a) : \A q \in By(profiles, a) : p.at <= q.at}

\* An update that writes the given fields only.
MergedAlone(fields, given, old) == [f \in fields |-> given[f]]

\* The first profile of each author kept in the index (ts < existing).
FirstUnder(i, seen) ==
    LET Under == {p \in seen : p.set.institution = i}
    IN  {p \in Under : \A q \in By(Under, p.by) : p.n <= q.n}
-----------------------------------------------------------------------------
\* Joining.  Human certificates are the institutional issuer's to give; those of
\* AI validators their issuer's, where the network names one.
IssuerOf(kind) == IF kind = "AI" /\ AIIssuer # NoKey THEN AIIssuer ELSE HumanIssuer

CheckJoiningCertificate(a, c) ==
    Credentialed => /\ c # NoCertificate
                    /\ c.to = a
                    /\ c.by = IssuerOf(c.kind)

Join(a) ==
    /\ By(joined, a) = {}
    /\ \E c \in Certificate \cup {NoCertificate} :
          /\ CheckJoiningCertificate(a, c)
          /\ joined' = joined \cup {[by |-> a, certificate |-> c]}
    /\ UNCHANGED <<profiles, settings>>

\* A human's initial_tier is ignored; an AI validator without one is Provisional.
GrantedTier(c) == IF c.kind = "AI" THEN c.tier ELSE "Provisional"

\* The tier and the certificate that publish_validator_profile puts into a profile
\* of the agent that joined with j: on a credentialed network the caller's are overwritten.
TierFor(j, offered) == IF Credentialed THEN GrantedTier(j.certificate) ELSE offered
CertificateFor(j)   == IF Credentialed THEN j.certificate ELSE NoCertificate

\* check_profile_certification, run by every peer.
ValidProfile(p) ==
    Credentialed => /\ CheckJoiningCertificate(p.by, p.certificate)
                    /\ p.tier = GrantedTier(p.certificate)

\* The profiles with the latest tag among those whose links are seen.
Newest(seen) == {p \in seen : \A q \in seen : q.at <= p.at}

\* The profile is published as the next of a's, at whatever its clock says.
Publish(a, set, offered) ==
    /\ Cardinality(By(profiles, a)) < MaxProfiles[a]
    /\ \E j \in By(joined, a), at \in Clock :
          LET p == [by |-> a, n |-> Cardinality(By(profiles, a)) + 1, at |-> at,
                    set |-> set, tier |-> TierFor(j, offered),
                    certificate |-> CertificateFor(j)]
          IN  ValidProfile(p) /\ profiles' = profiles \cup {p}
    /\ UNCHANGED joined

\* Those of the given fields, and the others of old.
Merged(fields, given, old) ==
    [f \in Fields |-> IF f \in fields THEN given[f] ELSE old[f]]

PublishValidatorProfile(a, set, offered) ==
    /\ Publish(a, set, offered)
    /\ settings' = [settings EXCEPT ![a] = set]

\* An update builds on the caller's latest profile, which never fails to reach it.
Base(a) == Newest(By(profiles, a))

\* update_validator_profile: what is not given is taken from the base, or without
\* one from an empty profile.
UpdateValidatorProfile(a, fields, given) ==
    /\ \/ \E base \in Base(a) :
             Publish(a, Merged(fields, given, base.set), base.tier)
       \/ /\ By(profiles, a) = {}
          /\ Publish(a, Merged(fields, given, Empty), "Provisional")
    /\ settings' = [settings EXCEPT ![a] = Merged(fields, given, @)]
-----------------------------------------------------------------------------
\* get_validator_certification of the agent whose profile p was found: the certificate
\* speaks before the profile.
Certification(p) ==
    IF p.certificate # NoCertificate
    THEN [kind |-> p.certificate.kind, tier |-> GrantedTier(p.certificate)]
    ELSE [kind |-> p.set.declares, tier |-> p.tier]

\* get_validators_for_institution: of the profiles linked there, the latest of
\* each author.  Profiles that name another institution are linked elsewhere.
FoundUnder(i, seen) ==
    LET Under == {p \in seen : p.set.institution = i}
    IN  {p \in Under : \A q \in By(Under, p.by) : q.n <= p.n}

ProfilesNext ==
    \E a \in Validator :
        \/ Join(a)
        \/ \E set \in Setting, tier \in OfferedTier : PublishValidatorProfile(a, set, tier)
        \/ \E fields \in SUBSET Fields, given \in Setting :
              UpdateValidatorProfile(a, fields, given)
-----------------------------------------------------------------------------
(***************************************************************************)
(* Nobody chooses its own certification: on a credentialed network         *)
(* whatever profile of a validator a lookup comes upon, old or new, it     *)
(* finds the kind and the tier of one certificate, made out to that        *)
(* validator by the issuer for its kind (get_validator_certification,      *)
(* #8); a human starts as Provisional whatever its certificate says.       *)
(***************************************************************************)
CertifiedAsIssued ==
    Credentialed =>
        \A v \in Validator : By(profiles, v) # {} =>
            \E c \in Certificate :
                /\ c.to = v
                /\ c.by = IssuerOf(c.kind)
                /\ \A p \in By(profiles, v) :
                      Certification(p) =
                          [kind |-> c.kind,
                           tier |-> IF c.kind = "Human" THEN "Provisional" ELSE c.tier]

\* The clock of v's node has never stood still or stepped back between profiles.
SteadyClock(v) == \A p, q \in By(profiles, v) : p.n < q.n => p.at < q.at

(***************************************************************************)
(* No update undoes another: while its clock is steady, the profile that   *)
(* claim_study and the lookups take for a validator's latest carries every *)
(* field as the validator last set it, across whatever sequence of whole   *)
(* and partial updates.                                                    *)
(***************************************************************************)
LatestSettingsStand ==
    \A v \in Validator : SteadyClock(v) =>
        \A p \in Newest(By(profiles, v)) : p.set = settings[v]

(***************************************************************************)
(* The two orders that profiles are read in agree: while a validator's     *)
(* clock is steady, the profile that a lookup by its key takes for its     *)
(* latest (by tag) is also the one that the index of the institution it    *)
(* names finds (by action timestamp).                                      *)
(***************************************************************************)
IndexAgrees ==
    \A v \in Validator : SteadyClock(v) =>
        \A p \in Newest(By(profiles, v)) : p \in FoundUnder(p.set.institution, profiles)
=============================================================================
