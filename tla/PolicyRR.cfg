CONSTANTS
    Pcb = {p1, p2, p3, p4}
    Element = {e1, e2, e3, e4, e5}
    NULL = NULL
SYMMETRY PcbSymmetry
SPECIFICATION PolicySpec
INVARIANTS
    ListsConsistent
PROPERTIES
    ImplementsPolicy
\* A PCB that was freed or aborted has no transition left.
CHECK_DEADLOCK FALSE
