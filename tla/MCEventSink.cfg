\* Two topics, a buffer of one event, a breaker that opens at the second failed batch.
SPECIFICATION SinkSpec
CONSTANTS
    Topics = {"FILLS", "MARKET_DATA"}
    MaxEvents = 2
    BatchSize = 2
    MaxBuffer = 1
    MaxRetries = 2
    Threshold = 2
    MaxFailures = 6
INVARIANTS InOrder MemoryIsBounded
PROPERTIES Drains
CHECK_DEADLOCK FALSE
