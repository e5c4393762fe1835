SPECIFICATION Spec
CONSTANTS
    Addresses = {a1, a2}
    burst = 2
    window = 2
    Configs <- Operator
    TrustProxyHeader = TRUE
    maxTTL = 3
    EpochModulus = 2
INVARIANTS
    TypeOK
    KeysStable
    EpochRevokes
    TokensExpire
PROPERTIES
    ImplementsTokenBucket
