SPECIFICATION Spec
CONSTANTS
    Reader = {r1}
    Writer = {w1, w2}
    CharValues = 256
CHECK_DEADLOCK FALSE
INVARIANT OneWriter
