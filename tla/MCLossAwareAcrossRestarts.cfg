CONSTANTS
    small = small
    big = big
    Ports = {p1}
    Payloads = {small, big}
    SizeOf <- MCSizeOf
    Matching = {}
    Scopes = {{p1}}
    Limits = {1, 2}
    Pollers = {c1}
    Waiters = {}
    MaxRecords = 3
    MaxBytes = 4
    MaxSequence = 5
    MaxTime = 1
    MaxRestarts = 1
SPECIFICATION Spec
INVARIANT LossAwareAcrossRestarts
