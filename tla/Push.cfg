\* Two invocations of any subcommand on one laptop, over two services.
SPECIFICATION Spec
CONSTANTS
    one = one
    two = two
    d1 = d1
    d2 = d2
    Invocations <- MCInvocations
    Kinds = {"substrate", "push_and_submit", "submit_validations"}
    Services <- MCBothServices
    EndpointOf <- MCOneLaptop
    TagArg <- MCTagArg
    Cosign = {one, two}
    DryRun = {}
    Digests = {d1, d2}
    Baked <- MCBaked
    Suffix <- MCSuffix
    NoTag = NoTag
    None = None
INVARIANTS
    CaptureIsNotStale
    DoneMeansSubmitted
    PortIsALock
    ValidationsNameImages
PROPERTY
    EveryInvocationEnds
CHECK_DEADLOCK FALSE
