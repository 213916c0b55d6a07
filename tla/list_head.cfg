CONSTANTS
    Heads = {heap, rm}
    Entries = {e1, e2, e3}
    NULL = NULL
    LIST_POISON1 = LIST_POISON1
    LIST_POISON2 = LIST_POISON2
SPECIFICATION Spec
INVARIANTS
    Mirrored
    TestsAgree
    WalkVisitsAll
PROPERTIES
    RefinesSequences
    AsPromised
SYMMETRY Symmetry
