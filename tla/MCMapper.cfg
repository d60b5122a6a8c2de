SPECIFICATION MapperSpec
CONSTANTS
    A = A
    B = B
    one = one
    two = two
    Methods = {A, B}
    Commands = {one, two}
    Hash <- MCHash
    Procs = {p1, p2}
    NoCommand = NoCommand
    NoName = NoName
    Idle = Idle
CHECK_DEADLOCK FALSE
INVARIANTS
    AnsweredUniquely
PROPERTIES
    CallsReturn
