CONSTANTS
    c1 = c1
    Conns = {c1}
SPECIFICATION Spec
INVARIANTS OwnershipAgrees
PROPERTIES NeverReconnects ClosedIsForgotten
