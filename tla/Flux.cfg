\* A live and a dry-run writer, another live one, and other committers.
SPECIFICATION Spec
CONSTANTS
    live = live
    dry = dry
    other = other
    v1 = v1
    v2 = v2
    absent = absent
    Keys = {"image", "tag", "pull", "replicas"}
    Scalars = {v1, v2}
    Null = Null
    Absent = Absent
    Depth = 2
    Writers = {live, other, dry}
    Patches <- MCPatches
    Edits <- MCEdits
    Unreadable = {absent}
    DryRun = {dry}
    ActLimit = 3
    EditLimit = 1
    NoDoc = NoDoc
INVARIANTS
    TypeOK
    NoLostUpdate
    NoDoubleCommit
    OutcomeIsTrue
    PatchesOnlyWhatItNames
PROPERTY
    KeepsPromise
CHECK_DEADLOCK FALSE
