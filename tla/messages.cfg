\* Two tool calls, seven pieces. No deadlock check: an answer comes to its end.
SPECIFICATION Spec
CONSTANTS
    Tool = {c1, c2}
    NoBlock = NoBlock
    MaxPieces = 7
CHECK_DEADLOCK FALSE
INVARIANTS
    NothingLost
    OneBlockPerCall
PROPERTY
    EventsInOrder
