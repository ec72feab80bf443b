SPECIFICATION Spec
CONSTANTS
    Objects = {o1, o2}
    Receivers = {r1, r2}
    MaxCopies = 3
    MaxDeletes = 1
INVARIANTS NoGhost FiltersAgree NewMeansStored AcknowledgedIsSettled
PROPERTIES UsesObjectStore
CHECK_DEADLOCK FALSE
