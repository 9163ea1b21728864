\* Two lines of the engine's stream, in pieces cut anywhere.
SPECIFICATION Spec
CONSTANTS
    Char <- MCChar
    Width <- MCWidth
    Streams <- MCStreams
CHECK_DEADLOCK FALSE
INVARIANT
    LinesAreTheEngines
