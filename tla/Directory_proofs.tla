-------------------------- MODULE Directory_proofs --------------------------
(***************************************************************************)
(* Proofs about Directory, for every set of validators, certificates and   *)
(* clock readings, on credentialed networks and on others.                 *)
(***************************************************************************)
EXTENDS Directory, FiniteSetTheorems, TLAPS

\* A profile is admitted by the certificate its author joined with.
OneJoining ==
    /\ \A j \in joined : CheckJoiningCertificate(j.by, j.certificate)
    /\ \A j, k \in joined : j.by = k.by => j = k

CarriesItsCertificate ==
    \A p \in profiles : \E j \in By(joined, p.by) :
        /\ p.certificate = CertificateFor(j)
        /\ Credentialed => p.tier = GrantedTier(j.certificate)

\* Profiles are numbered in the order of their publication.
Numbered ==
    /\ IsFiniteSet(profiles)
    /\ \A p \in profiles : p.n \in Nat /\ p.n <= Cardinality(By(profiles, p.by))

EmptyAtFirst == \A v \in Validator : By(profiles, v) = {} => settings[v] = Empty

DInv ==
    /\ DirectoryTypeOK
    /\ OneJoining
    /\ CarriesItsCertificate
    /\ Numbered
    /\ EmptyAtFirst
    /\ LatestSettingsStand
-----------------------------------------------------------------------------
LEMMA MergedIsSetting ==
    ASSUME NEW fields \in SUBSET Fields, NEW given \in Setting, NEW old \in Setting
    PROVE  Merged(fields, given, old) \in Setting
BY DEF Merged, Fields, Setting

\* What a publication adds: the author's next profile, at a reading of its clock.
LEMMA PublishAdds ==
    ASSUME DInv, NEW a \in Validator, NEW set \in Setting, NEW offered \in Tiers,
           Publish(a, set, offered)
    PROVE  \E j \in By(joined, a), p \in [by : {a}, n : Nat, at : Clock, set : {set},
                    tier : Tiers, certificate : Certificate \cup {NoCertificate}] :
              /\ p.certificate = CertificateFor(j)
              /\ Credentialed => p.tier = GrantedTier(j.certificate)
              /\ \A q \in By(profiles, a) : q.n < p.n
              /\ p.n = Cardinality(By(profiles, a)) + 1
              /\ profiles' = profiles \cup {p}
              /\ joined' = joined
<1>1. PICK j \in By(joined, a), at \in Clock :
        profiles' = profiles \cup
          {[by |-> a, n |-> Cardinality(By(profiles, a)) + 1, at |-> at, set |-> set,
            tier |-> TierFor(j, offered), certificate |-> CertificateFor(j)]}
  BY DEF Publish
<1> DEFINE p == [by |-> a, n |-> Cardinality(By(profiles, a)) + 1, at |-> at,
                 set |-> set, tier |-> TierFor(j, offered),
                 certificate |-> CertificateFor(j)]
<1>2. IsFiniteSet(By(profiles, a))
  BY FS_Subset DEF DInv, Numbered, By
<1>3. Cardinality(By(profiles, a)) \in Nat
  BY <1>2, FS_CardinalityType
<1>4. j.certificate \in Certificate \cup {NoCertificate}
  BY DEF DInv, DirectoryTypeOK, ProfilesTypeOK, By
<1>5. Credentialed => j.certificate \in Certificate
  BY <1>4 DEF DInv, OneJoining, By, CheckJoiningCertificate
<1>6. TierFor(j, offered) \in Tiers
  BY <1>5, ProfileAssumption DEF TierFor, GrantedTier, Tiers
<1>7. CertificateFor(j) \in Certificate \cup {NoCertificate}
  BY <1>4 DEF CertificateFor
<1>8. p \in [by : {a}, n : Nat, at : Clock, set : {set}, tier : Tiers,
             certificate : Certificate \cup {NoCertificate}]
  BY <1>3, <1>6, <1>7
<1>9. \A q \in By(profiles, a) : q.n < p.n
  BY <1>3 DEF DInv, Numbered, By
<1>10. Credentialed => p.tier = GrantedTier(j.certificate)
  BY DEF TierFor
<1>11. joined' = joined
  BY DEF Publish
<1> HIDE DEF p
<1>12. p.certificate = CertificateFor(j) /\ p.n = Cardinality(By(profiles, a)) + 1
  BY DEF p
<1> QED
  BY <1>1, <1>8, <1>9, <1>10, <1>11, <1>12 DEF p

(***************************************************************************)
(* A publication keeps the invariant when it publishes what its author has *)
(* set, should the author's clock have been steady so far.                 *)
(***************************************************************************)
LEMMA PublishKeepsDInv ==
    ASSUME DInv, NEW a \in Validator, NEW set \in Setting, NEW offered \in Tiers,
           Publish(a, set, offered), UNCHANGED identityVars,
           NEW new \in Setting, settings' = [settings EXCEPT ![a] = new],
           SteadyClock(a) => set = new
    PROVE  DInv'
<1>1. PICK j \in By(joined, a), p \in [by : {a}, n : Nat, at : Clock, set : {set},
              tier : Tiers, certificate : Certificate \cup {NoCertificate}] :
        /\ p.certificate = CertificateFor(j)
        /\ Credentialed => p.tier = GrantedTier(j.certificate)
        /\ \A q \in By(profiles, a) : q.n < p.n
        /\ p.n = Cardinality(By(profiles, a)) + 1
        /\ profiles' = profiles \cup {p}
        /\ joined' = joined
  BY PublishAdds
<1>2. p.by = a /\ p.set = set
  BY <1>1
<1>3. \A v \in Validator : By(profiles, v) \subseteq By(profiles', v)
  BY <1>1 DEF By
<1>4. \A v \in Validator : v # a => By(profiles', v) = By(profiles, v)
  BY <1>1, <1>2 DEF By
<1>5. By(profiles', a) = By(profiles, a) \cup {p}
  BY <1>1, <1>2 DEF By
<1>6. DirectoryTypeOK'
  <2>1. p \in [by : Validator, n : Nat, at : Clock, set : Setting, tier : Tiers,
               certificate : Certificate \cup {NoCertificate}]
    BY <1>1
  <2> HIDE DEF Setting
  <2> QED
    BY <1>1, <2>1 DEF DInv, DirectoryTypeOK, ProfilesTypeOK, IdentityTypeOK, identityVars
<1>7. OneJoining'
  BY <1>1 DEF DInv, OneJoining
<1>8. CarriesItsCertificate'
  BY <1>1, <1>2 DEF DInv, CarriesItsCertificate, CertificateFor
<1>9. Numbered'
  <2>1. IsFiniteSet(profiles')
    BY <1>1, FS_AddElement DEF DInv, Numbered
  <2>2. IsFiniteSet(By(profiles, a)) /\ p \notin By(profiles, a)
    BY <1>1, FS_Subset DEF DInv, Numbered, By
  <2>3. Cardinality(By(profiles', a)) = Cardinality(By(profiles, a)) + 1
    BY <1>5, <2>2, FS_AddElement
  <2>4. Cardinality(By(profiles, a)) \in Nat
    BY <2>2, FS_CardinalityType
  <2>5. ASSUME NEW q \in profiles'
        PROVE  q.n \in Nat /\ q.n <= Cardinality(By(profiles', q.by))
    <3>1. CASE q = p
      BY <3>1, <1>1, <1>2, <2>3, <2>4
    <3>2. CASE q \in profiles /\ q.by = a
      BY <3>2, <2>3, <2>4 DEF DInv, Numbered
    <3>3. CASE q \in profiles /\ q.by # a
      <4>1. By(profiles', q.by) = By(profiles, q.by)
        BY <1>1, <1>2, <3>3 DEF By
      <4> QED
        BY <3>3, <4>1 DEF DInv, Numbered
    <3> QED
      BY <1>1, <3>1, <3>2, <3>3
  <2> QED
    BY <2>1, <2>5 DEF Numbered
<1>10. \A v \in Validator : v # a => settings'[v] = settings[v]
  BY DEF DInv, DirectoryTypeOK, ProfilesTypeOK
<1>11. settings'[a] = new
  BY DEF DInv, DirectoryTypeOK, ProfilesTypeOK
<1>12. EmptyAtFirst'
  BY <1>4, <1>5, <1>10 DEF DInv, EmptyAtFirst
<1>13. LatestSettingsStand'
  <2> SUFFICES ASSUME NEW v \in Validator, SteadyClock(v)', NEW q \in Newest(By(profiles', v))
               PROVE  q.set = settings'[v]
    BY DEF LatestSettingsStand
  <2>1. SteadyClock(v)
    BY <1>3 DEF SteadyClock
  <2>2. CASE v # a
    BY <2>1, <2>2, <1>4, <1>10 DEF DInv, LatestSettingsStand
  <2>3. CASE v = a
    <3>1. p \in By(profiles', a)
      BY <1>5
    <3>2. q \in By(profiles', a) /\ p.at <= q.at
      BY <2>3, <3>1 DEF Newest
    <3>3. q \in By(profiles, a) => q.n < p.n
      BY <1>1
    <3>4. q.at \in Nat /\ p.at \in Nat
      BY <3>1, <3>2, <1>6, ProfileAssumption DEF DirectoryTypeOK, ProfilesTypeOK, By
    <3>5. q \in By(profiles, a) => q.at < p.at
      BY <2>3, <3>1, <3>2, <3>3 DEF SteadyClock
    <3>6. q = p
      BY <1>5, <3>2, <3>4, <3>5
    <3> QED
      BY <3>6, <1>2, <1>11, <2>1, <2>3
  <2> QED
    BY <2>2, <2>3
<1> QED
  BY <1>6, <1>7, <1>8, <1>9, <1>12, <1>13 DEF DInv

\* A publication of the whole profile, and an update: the part that was not given
\* is what the author last set, while its clock is steady.
LEMMA ProfilesKeepDInv ==
    ASSUME DInv, ProfilesNext, UNCHANGED identityVars  PROVE DInv'
<1>0. settings \in [Validator -> Setting] /\ Empty \in Setting
  BY DEF DInv, DirectoryTypeOK, ProfilesTypeOK, Empty, Setting, Kinds
<1>1. ASSUME NEW a \in Validator, Join(a)  PROVE DInv'
  <2>1. PICK c \in Certificate \cup {NoCertificate} :
          /\ CheckJoiningCertificate(a, c)
          /\ joined' = joined \cup {[by |-> a, certificate |-> c]}
    BY <1>1 DEF Join
  <2>2. UNCHANGED <<profiles, settings>> /\ By(joined, a) = {}
    BY <1>1 DEF Join
  <2>3. DirectoryTypeOK'
    BY <2>1, <2>2 DEF DInv, DirectoryTypeOK, ProfilesTypeOK, IdentityTypeOK, identityVars
  <2>4. OneJoining'
    BY <2>1, <2>2 DEF DInv, OneJoining, By
  <2>5. CarriesItsCertificate'
    BY <2>1, <2>2 DEF DInv, CarriesItsCertificate, CertificateFor, By
  <2> QED
    BY <2>2, <2>3, <2>4, <2>5
    DEF DInv, Numbered, EmptyAtFirst, LatestSettingsStand, SteadyClock, Newest, By
<1>2. ASSUME NEW a \in Validator, NEW set \in Setting, NEW tier \in OfferedTier,
             PublishValidatorProfile(a, set, tier)
      PROVE  DInv'
  <2>1. tier \in Tiers
    BY ProfileAssumption
  <2> QED
    BY <1>2, <2>1, PublishKeepsDInv DEF PublishValidatorProfile
<1>3. ASSUME NEW a \in Validator, NEW fields \in SUBSET Fields, NEW given \in Setting,
             UpdateValidatorProfile(a, fields, given)
      PROVE  DInv'
  <2> DEFINE new == Merged(fields, given, settings[a])
  <2>1. settings' = [settings EXCEPT ![a] = new] /\ new \in Setting
    BY <1>0, <1>3, MergedIsSetting DEF UpdateValidatorProfile
  <2>2. ASSUME NEW base \in Base(a),
               Publish(a, Merged(fields, given, base.set), base.tier)
        PROVE  DInv'
    <3>1. base \in profiles /\ base \in Newest(By(profiles, a))
      BY <2>2 DEF Base, Newest, By
    <3>2. base.set \in Setting /\ base.tier \in Tiers
      BY <3>1 DEF DInv, DirectoryTypeOK, ProfilesTypeOK
    <3>3. SteadyClock(a) => base.set = settings[a]
      BY <3>1 DEF DInv, LatestSettingsStand
    <3>4. SteadyClock(a) => Merged(fields, given, base.set) = new
      BY <3>3
    <3>5. Merged(fields, given, base.set) \in Setting
      BY <3>2, MergedIsSetting
    <3> HIDE DEF new
    <3> QED
      BY <2>1, <2>2, <3>2, <3>4, <3>5, PublishKeepsDInv
  <2>3. ASSUME By(profiles, a) = {}, Publish(a, Merged(fields, given, Empty), "Provisional")
        PROVE  DInv'
    <3>1. settings[a] = Empty
      BY <2>3 DEF DInv, EmptyAtFirst
    <3>2. Merged(fields, given, Empty) = new
      BY <3>1
    <3>3. "Provisional" \in Tiers
      BY DEF Tiers
    <3> HIDE DEF new
    <3> QED
      BY <2>1, <2>3, <3>2, <3>3, PublishKeepsDInv
  <2> QED
    BY <1>3, <2>2, <2>3 DEF UpdateValidatorProfile
<1> QED
  BY <1>1, <1>2, <1>3 DEF ProfilesNext

LEMMA IdentityKeepsDInv ==
    ASSUME DInv, IdentityNext, UNCHANGED profileVars  PROVE DInv'
<1>1. IdentityTypeOK'
  <2>1. ASSUME NEW a \in Key, NEW b \in Key, SignIdentityPayload(a, b)  PROVE IdentityTypeOK'
    BY <2>1 DEF SignIdentityPayload, DInv, DirectoryTypeOK, IdentityTypeOK, Pairs
  <2>2. ASSUME NEW a \in Key, NEW b \in Key, LinkAgentIdentity(a, b)  PROVE IdentityTypeOK'
    <3> DEFINE mine == By(Joining(identities, {a, b}), a)
    <3>1. {} \in Reads(Joining(identities, {a, b}), a)
      BY <2>2 DEF LinkAgentIdentity, SeesNoLink
    <3>2. mine = {}
      BY <3>1 DEF Reads, By
    <3>3. Cardinality(mine) = 0
      BY <3>2, FS_EmptySet
    <3>4. [by |-> a, pair |-> {a, b}, n |-> Cardinality(mine) + 1]
            \in [by : Key, pair : Pairs, n : Nat]
      BY <3>3 DEF Pairs
    <3>5. identities' = identities \cup
             {[by |-> a, pair |-> {a, b}, n |-> Cardinality(mine) + 1]}
      BY <2>2 DEF LinkAgentIdentity
    <3> HIDE DEF mine
    <3> QED
      BY <2>2, <3>4, <3>5 DEF LinkAgentIdentity, DInv, DirectoryTypeOK, IdentityTypeOK
  <2>3. ASSUME NEW a \in Key, NEW x \in identities, RevokeAgentIdentityLink(a, x)
        PROVE  IdentityTypeOK'
    BY <2>3 DEF RevokeAgentIdentityLink, DInv, DirectoryTypeOK, IdentityTypeOK
  <2> QED
    BY <2>1, <2>2, <2>3 DEF IdentityNext
<1> QED
  BY <1>1 DEF DInv, DirectoryTypeOK, ProfilesTypeOK, OneJoining, CarriesItsCertificate,
     Numbered, EmptyAtFirst, LatestSettingsStand, SteadyClock, Newest, profileVars

LEMMA DInvHolds == DirectorySpec => []DInv
<1>1. DirectoryInit => DInv
  <2> SUFFICES ASSUME DirectoryInit  PROVE DInv
    OBVIOUS
  <2>1. DirectoryTypeOK
    <3>1. Empty \in Setting
      BY DEF Empty, Setting, Kinds
    <3> QED
      BY <3>1 DEF DirectoryInit, ProfilesInit, IdentityInit, DirectoryTypeOK,
         ProfilesTypeOK, IdentityTypeOK
  <2> QED
    BY <2>1, FS_EmptySet DEF DirectoryInit, ProfilesInit, DInv, OneJoining,
       CarriesItsCertificate, Numbered, EmptyAtFirst, LatestSettingsStand, Newest, By
<1>2. DInv /\ [DirectoryNext]_directoryVars => DInv'
  <2> SUFFICES ASSUME DInv, [DirectoryNext]_directoryVars  PROVE DInv'
    OBVIOUS
  <2>1. CASE UNCHANGED directoryVars
    BY <2>1 DEF directoryVars, profileVars, identityVars, DInv, DirectoryTypeOK,
       ProfilesTypeOK, IdentityTypeOK, OneJoining, CarriesItsCertificate, Numbered,
       EmptyAtFirst, LatestSettingsStand, SteadyClock, Newest
  <2> QED
    BY <2>1, ProfilesKeepDInv, IdentityKeepsDInv DEF DirectoryNext
<1> QED
  BY <1>1, <1>2, PTL DEF DirectorySpec
-----------------------------------------------------------------------------
(***************************************************************************)
(* Profiles, settings, signatures and links keep their types.              *)
(***************************************************************************)
THEOREM DirectoryTypeCorrect == DirectorySpec => []DirectoryTypeOK
<1>1. DInv => DirectoryTypeOK
  BY DEF DInv
<1> QED
  BY <1>1, DInvHolds, PTL

(***************************************************************************)
(* On every credentialed network, whatever profile a lookup comes upon, it *)
(* finds what the issuer certified.                                        *)
(***************************************************************************)
THEOREM AlwaysCertifiedAsIssued == DirectorySpec => []CertifiedAsIssued
<1>1. ASSUME DInv, Credentialed, NEW v \in Validator, By(profiles, v) # {}
      PROVE  \E c \in Certificate :
                /\ c.to = v
                /\ c.by = IssuerOf(c.kind)
                /\ \A p \in By(profiles, v) :
                      Certification(p) =
                          [kind |-> c.kind,
                           tier |-> IF c.kind = "Human" THEN "Provisional" ELSE c.tier]
  <2>1. PICK one \in profiles : one.by = v
    BY <1>1 DEF By
  <2>2. PICK j \in joined : j.by = v
    BY <1>1, <2>1 DEF DInv, CarriesItsCertificate, By
  <2> DEFINE c == j.certificate
  <2>3. c # NoCertificate /\ c.to = v /\ c.by = IssuerOf(c.kind)
    BY <1>1, <2>2 DEF DInv, OneJoining, CheckJoiningCertificate
  <2>4. c \in Certificate
    BY <1>1, <2>2, <2>3 DEF DInv, DirectoryTypeOK, ProfilesTypeOK
  <2>5. c.kind \in {"Human", "AI"}
    BY <2>4, ProfileAssumption DEF Kinds
  <2>6. GrantedTier(c) = IF c.kind = "Human" THEN "Provisional" ELSE c.tier
    BY <2>5 DEF GrantedTier
  <2>7. \A p \in By(profiles, v) : p.certificate = c
    BY <1>1, <2>2 DEF DInv, OneJoining, CarriesItsCertificate, CertificateFor, By
  <2> HIDE DEF c
  <2> QED
    BY <2>3, <2>4, <2>6, <2>7 DEF Certification
<1>2. DInv => CertifiedAsIssued
  BY <1>1 DEF CertifiedAsIssued
<1> QED
  BY <1>2, DInvHolds, PTL

(***************************************************************************)
(* However many whole and partial updates a validator makes, its latest    *)
(* profile is the sum of them.                                             *)
(***************************************************************************)
THEOREM SettingsAlwaysStand == DirectorySpec => []LatestSettingsStand
<1>1. DInv => LatestSettingsStand
  BY DEF DInv
<1> QED
  BY <1>1, DInvHolds, PTL

(***************************************************************************)
(* Lookups by key and by institution agree about the latest profile.       *)
(***************************************************************************)
THEOREM IndexAlwaysAgrees == DirectorySpec => []IndexAgrees
<1>1. ASSUME DInv, NEW v \in Validator, SteadyClock(v), NEW p \in Newest(By(profiles, v)),
             NEW q \in By(profiles, v)
      PROVE  q.n <= p.n
  <2>1. p \in By(profiles, v) /\ q.at <= p.at
    BY DEF Newest
  <2>2. p.n \in Nat /\ q.n \in Nat /\ p.at \in Nat /\ q.at \in Nat
    BY <1>1, <2>1, ProfileAssumption DEF DInv, DirectoryTypeOK, ProfilesTypeOK, By
  <2>3. p.n < q.n => p.at < q.at
    BY <1>1, <2>1 DEF SteadyClock
  <2> QED
    BY <2>1, <2>2, <2>3
<1>2. DInv => IndexAgrees
  <2> SUFFICES ASSUME DInv, NEW v \in Validator, SteadyClock(v),
                      NEW p \in Newest(By(profiles, v))
               PROVE  p \in FoundUnder(p.set.institution, profiles)
    BY DEF IndexAgrees
  <2>1. p \in profiles /\ p.by = v
    BY DEF Newest, By
  <2> QED
    BY <1>1, <2>1 DEF FoundUnder, By
<1> QED
  BY <1>2, DInvHolds, PTL

(***************************************************************************)
(* Whatever signatures are about, an agent links a pair of keys once.      *)
(***************************************************************************)
THEOREM RevocationsLast == DirectorySpec => RevocationLasts
<1>1. ASSUME DirectoryNext \/ UNCHANGED directoryVars, NEW pair \in Pairs,
             LiveLinks(pair) = {}, LiveLinks(pair)' # {},
             NEW x \in LiveLinks(pair)'
      PROVE  By(Joining(identities, pair), x.by) = {}
  <2>1. x \in identities' /\ x.pair = pair /\ x \notin revoked'
    BY DEF LiveLinks, Joining
  <2>2. revoked \subseteq revoked'
    BY <1>1 DEF DirectoryNext, IdentityNext, SignIdentityPayload, LinkAgentIdentity,
       RevokeAgentIdentityLink, identityVars, directoryVars
  <2>3. x \notin identities
    BY <1>1, <2>1, <2>2 DEF LiveLinks, Joining
  <2>4. PICK a \in Key, b \in Key : LinkAgentIdentity(a, b)
    BY <1>1, <2>1, <2>3 DEF DirectoryNext, IdentityNext, SignIdentityPayload,
       RevokeAgentIdentityLink, identityVars, directoryVars
  <2>5. x.by = a /\ x.pair = {a, b}
    BY <2>1, <2>3, <2>4 DEF LinkAgentIdentity
  <2>6. {} \in Reads(Joining(identities, {a, b}), a)
    BY <2>4 DEF LinkAgentIdentity, SeesNoLink
  <2> QED
    BY <2>1, <2>5, <2>6 DEF Reads, By
<1>2. [DirectoryNext]_directoryVars =>
        [\A pair \in Pairs :
          (/\ Joining(identities, pair) # {}
           /\ LiveLinks(pair) = {}
           /\ LiveLinks(pair)' # {}) =>
             \A x \in LiveLinks(pair)' : By(Joining(identities, pair), x.by) = {}]_identityVars
  BY <1>1
<1> QED
  BY <1>2, PTL DEF DirectorySpec, RevocationLasts
=============================================================================
