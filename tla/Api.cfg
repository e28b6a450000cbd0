\* Two validations and a scan job under one lost watch or restart, and a bridge with three lines.
SPECIFICATION Spec
CONSTANTS
    ns = ns
    v1 = v1
    v2 = v2
    job = job
    gone = gone
    Nothing = Nothing
    NotGiven = NotGiven
    Absent = Absent
    Kinds = {"validations", "scan_jobs"}
    Keys <- MCKeys
    Order <- MCOrder
    Values <- MCValues
    Initially <- MCInitially
    MaxWrites <- MCMaxWrites
    MaxLosses = 1
    Lines <- MCLines
    Configs <- MCConfigs
    Bearer = "t1"
INVARIANTS
    ReadersSeeOneState
    FacesAgree
    AnswersPairUp
PROPERTIES
    CatchesUp
    EveryLineIsAnswered
CHECK_DEADLOCK FALSE
