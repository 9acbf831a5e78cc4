SPECIFICATION ReadersSpec
CONSTANTS
    Units = {"a", "b", "u", "lead", "trail", "nul", "$", "bslash", "0", "1"}
    Leads = {"lead"}
    Trails = {"trail"}
    Spaces = {}
    Nul = "nul"
    Junk = "junk"
    Subjects <- MCSubjects
    Templates <- MCTemplates
    Words <- MCWords
    Limits <- MCLimits
    Groups = 1
    Dollar = "$"
    Backslash = "bslash"
    DigitValue <- MCDigitValue
    NoMatch = NoMatch
    NoRange = NoRange
    PointTexts <- MCPointTexts
    Nfc <- MCNfc
    EscapeChar = "bslash"
    Numeric = {"u"}
    Decoded <- MCDecoded
    NoText = NoText
    Invalid = Invalid
INVARIANTS TypeOK TakesLeftmost OutIsSubstitution RindexIsLastOfWalk IndexFindsFirst SplitDivides RangesAgree SpanIsChars UnescapeStaysInside UnescapeDecodes
PROPERTIES EveryCallReturns UnescapeEnds
