CONSTANTS
    h = h
    m = m
    humanIssuer = humanIssuer
    aiIssuer = aiIssuer
    i1 = i1
    Validator <- Both
    Key <- Both
    Institution <- AnInstitution
    NoInstitution = NoInstitution
    Certificate <- Certificates
    NoCertificate = NoCertificate
    HumanIssuer = humanIssuer
    AIIssuer = aiIssuer
    NoKey = NoKey
    OfferedTier <- OverClaimed
    Clock <- Readings
    MaxProfiles <- OneAndThree
SPECIFICATION DirectorySpec
INVARIANTS
    DirectoryTypeOK
    CertifiedAsIssued
    LatestSettingsStand
    IndexAgrees
PROPERTIES
    RevocationLasts
CHECK_DEADLOCK FALSE
