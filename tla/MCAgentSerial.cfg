\* A device's lines of up to five bytes and carriage returns, cut at two; a waiter on its port.
CONSTANTS
    x = x
    cr = cr
    p1 = p1
    Ports = {p1}
    Device = p1
    Letters = {x, cr}
    CarriageReturn = cr
    NewLine = NewLine
    LineBytes = 2
    MaxSent = 5
    Foreign <- MCForeign
    Payloads <- MCPayloads
    SizeOf <- MCSizeOf
    Matching <- MCMatching
    Scopes = {{p1}}
    Limits = {1}
    Pollers = {}
    Waiters = {w1}
    MaxRecords = 1
    MaxBytes = 2
    MaxSequence = 3
    MaxTime = 0
    MaxRestarts = 1
SPECIFICATION AgentSpec
INVARIANTS
    ReaderTypeOK
    LinesAreComplete
    WholeLineIsOneRecord
    MatchIsReal
PROPERTIES
    MatchIsFound
    DeadlineEndsWait
CHECK_DEADLOCK FALSE
