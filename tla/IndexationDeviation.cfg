\* One document, a server that stops once: does a restart lose its last change?
SPECIFICATION IndexationSpec
CONSTANTS
    Docs = {x}
    Layers = {}
    Nothing = Nothing
    MaxSeq = 3
    MaxGap = 10000
    MaxRetries = 1
    MaxCrashes = 1
    MaxFailures = 0
INVARIANT
    RestartMissesNoChange
CHECK_DEADLOCK FALSE
