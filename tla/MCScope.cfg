CONSTANTS
    None = None
    ToASCII <- MCToASCII
    Stars <- MCStars
    ZoneNames <- MCZoneNames
    CandidateRules <- MCRules
    Queries <- MCQueries
SPECIFICATION Spec
INVARIANTS
    TypeOK
    WildcardIsOneLabel
    WildcardExcludesApex
    ExactStaysInZone
    ExemptIsEscapeProof
CHECK_DEADLOCK FALSE
