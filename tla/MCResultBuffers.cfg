SPECIFICATION Spec
CONSTANTS
    Lengths <- MCLengths
    MaxNeed = 8
    Slack = 2
INVARIANTS TypeOK StoresInBlock ReturnsWhole CapacityIsTrue RefusesExactGuess LosesNothingElse
PROPERTY EveryCallEnds
