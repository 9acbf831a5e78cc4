SPECIFICATION Spec
CONSTANTS
    Objects = {o1, o2}
    Handles <- MCHandles
    NoHandle = 0
    Sources <- MCSources
    Substs <- MCSubsts
    BufSize = 2
    MaxSize = 2
    MaxNesting = 3
INVARIANTS TypeOK HeldIsOpen HeldOnce ConvertsWhole NilsFollowAFailure
PROPERTIES LosesOnlyKnown EveryCallEnds
