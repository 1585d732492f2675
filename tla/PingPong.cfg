SPECIFICATION FairSpec
CONSTANTS
    ScoreLimit = 3
    Luck <- MCLuck
    Versions <- MCVersions
INVARIANTS
    TypeOK
    UmpiresAgree
    FairPlay
    TurnsAlternate
    OnlyFirstServiceStalls
    SessionReleased
PROPERTY
    GameEnds
