\* One reload at a time against building, accepting and draining listeners.
CONSTANTS
    b1 = b1
    b2 = b2
    edge = edge
    le = le
    zero = zero
    pem = pem
    None = None
    BadConfig = BadConfig
    Bind <- MCBind
    Cert <- MCCert
    Source <- MCSource
    Acme <- MCAcme
    Config <- MCConfig
    Kinds <- MCKinds
    CertOf <- MCCertOf
    MaxLoops = 1
SPECIFICATION Spec
INVARIANTS
    TypeOK
    AppliedIsComplete
    HandlesTrackRegistry
    RegisteredCertIsRenewed
    ConfiguredKeepServing
    
