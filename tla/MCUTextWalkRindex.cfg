SPECIFICATION Spec
CONSTANTS
    Units = {"a", "b", "lead", "trail", "nul", "$", "bslash", "0", "1"}
    Leads = {"lead"}
    Trails = {"trail"}
    Spaces = {}
    Nul = "nul"
    Junk = "junk"
    Subjects <- MCPlainSubjects
    Templates <- MCTemplates
    Words <- MCSuffixes
    Limits <- MCLimits
    Groups = 1
    Dollar = "$"
    Backslash = "bslash"
    DigitValue <- MCDigitValue
    NoMatch = NoMatch
    NoRange = NoRange
INVARIANT RindexFindsLast
