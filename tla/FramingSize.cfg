SPECIFICATION Spec
CONSTANTS
    Base = 5
    Payloads <- MCPayloads
    MaxSent = 2
    SizeAtOnce = FALSE
    Size = 2
    Configs <- MCConfigs
    MaxExponent = 30
    Octets = {0, 1, 170, 255}
INVARIANT
    SizeFilledUp
