SPECIFICATION Spec
CONSTANTS
    Base = 5
    Payloads <- MCPayloads
    MaxSent = 3
    SizeAtOnce = TRUE
    Size = 2
    Configs <- MCConfigs
    MaxExponent = 30
    Octets = {0, 1, 170, 255}
INVARIANTS
    NothingHeldBack
    SlotsAccounted
    ConfigRoundTrip
PROPERTY
    Framed
