\* Liveness, without symmetry.  One framing: a refusal ends a request like any other answer.
CONSTANTS
    Ports = {p1}
    Sids = {s1, s2}
    Clients = {c1, c2}
    Bauds = {b1}
    Framings = {f8N1}
    DefaultFraming = f8N1
    None = None
    MaxLines = 1
    MaxWrites = 1
    MaxRecords = 1
    MaxBytes = 8
SPECIFICATION FairSpec
PROPERTIES
    RequestsEnd
    ReleasedIsClosed
    LostSessionLeaves
