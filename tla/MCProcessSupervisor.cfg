\* Two processes, the second of which evicts the first from recent_processes; one stream each.
CONSTANTS
    Runs = {r1, r2}
    Pids = {i1, i2}
    Streams = {out}
    Stoppers = {c1}
    None = None
    PidReuse = TRUE
    MaxRecent = 1
    MaxOutput = 1
    PipeCapacity = 1
    MaxLines = 1
SPECIFICATION Spec
INVARIANTS
    TypeOK
PROPERTIES
    RunningIsFound
CHECK_DEADLOCK FALSE
