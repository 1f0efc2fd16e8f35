SPECIFICATION Spec
CONSTANTS
    Context = {c1, c2, c3, c4, c5}
    Launcher = {l1}
    Aborter = {a1}
    Name = {1, 2}
    NULL = NULL
    DEFAULT_SLOT_SIZE = 2
    HANDLE_MASK = 3
    MaxNaming = 2
SYMMETRY Symmetry
CHECK_DEADLOCK FALSE
INVARIANTS
    RegisteredIsFound
    NamesAreFound
    AbortRetiresAll
