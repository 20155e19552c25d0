SPECIFICATION Spec
CONSTANTS
    Streams <- TruncatedStreams
    MaxToken = 8
INVARIANTS
    TerminatedOnly
CHECK_DEADLOCK FALSE
