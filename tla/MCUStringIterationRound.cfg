SPECIFICATION Spec
CONSTANTS
    Strings = {s1}
    Regexps = {r1, r2}
    Threads = {t1}
    MaxDepth = 2
    MaxWalks = 2
    MaxOutstanding = 2
    BusyMod = 2
    Texts <- MCLongTexts
    Ptrs = {p1, p2}
    Handles = {h1, h2, h3, h4, h5}
    NoFrame = NoFrame
    NoPattern = NoPattern
    NoHandle = NoHandle
    NoBuffer = NoBuffer
VIEW MCView
SYMMETRY MCSymmetry
INVARIANTS BusyCountsModulo HandlesHaveOneOwner
