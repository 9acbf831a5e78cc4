SPECIFICATION Spec
CONSTANTS
    Strings = {s1, s2}
    Regexps = {r1}
    Threads = {t1, t2}
    MaxDepth = 2
    MaxWalks = 2
    MaxOutstanding = 2
    BusyMod = 3
    Texts <- MCTexts
    Ptrs = {p1, p2, p3}
    Handles = {h1, h2, h3, h4}
    NoFrame = NoFrame
    NoPattern = NoPattern
    NoHandle = NoHandle
    NoBuffer = NoBuffer
VIEW MCView
SYMMETRY MCSymmetry
INVARIANTS TypeOK BusyCounts IterationStable GsubKeepsItsMatch
PROPERTY FrozenKeepsItsText
