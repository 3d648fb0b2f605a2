SPECIFICATION BothSpec
CONSTANTS
    Sources <- MCSources
    JsonSources <- MCJsonSources
    JsonValues <- MCJsonValues
    MaxInt = 127
    Scale = 4
    Smallest = 2
INVARIANTS TextIsVerbatim OutcomeIsRight Grouping JsonIsUnderstood
PROPERTIES RuneByRune ParsersEnd
CHECK_DEADLOCK FALSE
