SPECIFICATION PipelinedSpec
CONSTANTS
    Keys = {}
    Hosts = {}
    Values = {}
    None = None
INVARIANT
    DataBeginsAt354
CHECK_DEADLOCK FALSE
