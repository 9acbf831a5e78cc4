SPECIFICATION Spec
CONSTANTS
    Strings = {s1, s2}
    Units = {"a", " ", "nul"}
    Leads = {}
    Trails = {}
    Spaces = {" "}
    Nul = "nul"
    Junk = "junk"
    Sources <- MCShortSources
    Forms <- MCForms
    MaxLen = 3
    StartLen = 2
    Slack = 2
    Headroom = 1
VIEW MCView
SYMMETRY MCSymmetry

PROPERTY ImplementsPromise
