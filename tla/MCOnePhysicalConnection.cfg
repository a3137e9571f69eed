CONSTANTS
    Ports = {p1}
    Sids = {s1, s2}
    Clients = {c1, c2}
    Bauds = {b1}
    Framings = {f8N1, f7E1}
    DefaultFraming = f8N1
    None = None
    MaxLines = 2
    MaxWrites = 1
    MaxRecords = 2
    MaxBytes = 8
SPECIFICATION Spec
INVARIANT OnePhysicalConnection
