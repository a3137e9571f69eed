\* Two callers push a project of two files while it is edited and the agent fails.
CONSTANTS
    Files = {f, g}
    Contents = {v1, v2}
    Absent = Absent
    Torn = Torn
    NoFile = NoFile
    Callers = {c1, c2}
    MaxEdits = 1
    MaxLate = 1
SPECIFICATION Spec
INVARIANTS
    TypeOK
    PushSyncs
    PushIsMinimal
SYMMETRY Symmetry
