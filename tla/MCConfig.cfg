SPECIFICATION ConfigSpec
CONSTANTS
    Settings = {"addr", "idle-timeout"}
    Durations = {"idle-timeout"}
    DefaultPath = "novagate.yaml"
    OtherPath = "other.yaml"
    WorkDir = "/work"
    CommandLines <- MCCommandLines
    FileContents <- MCFileContents
    Environments <- MCEnvironments
CHECK_DEADLOCK FALSE
INVARIANTS
    Precedence
    FailFast
    NamedFileRead
