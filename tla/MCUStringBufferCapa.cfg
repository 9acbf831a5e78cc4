SPECIFICATION Spec
CONSTANTS
    Strings = {s1, s2}
    Units = {" ", "nul", "lead", "trail"}
    Leads = {"lead"}
    Trails = {"trail"}
    Spaces = {" "}
    Nul = "nul"
    Junk = "junk"
    Sources <- MCSourcesWithPairs
    Forms <- MCForms
    MaxLen = 3
    StartLen = 2
    Slack = 2
    Headroom = 1
VIEW MCView
SYMMETRY MCSymmetry
INVARIANT CapacityAboveLength

