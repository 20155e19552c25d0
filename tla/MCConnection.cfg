SPECIFICATION Spec
CONSTANTS
    Streams <- MCStreams
    MaxToken = 6
INVARIANTS
    OneReplyPerLine
    WholeLines
    ParseExact
PROPERTIES
    Answered
    HandlerEnds
CHECK_DEADLOCK FALSE
