\* One process with two streams that fills its pipes; the agent keeps two of its lines.
CONSTANTS
    Runs = {r1}
    Pids = {i1}
    Streams = {out, err}
    Stoppers = {c1}
    None = None
    PidReuse = FALSE
    MaxRecent = 1
    MaxOutput = 2
    PipeCapacity = 1
    MaxLines = 2
SPECIFICATION FairSpec
INVARIANTS
    OutputIsLatest
    ExitedMeansDrained
PROPERTIES
    EndIsReported
    LiveReaderDrains
CHECK_DEADLOCK FALSE
