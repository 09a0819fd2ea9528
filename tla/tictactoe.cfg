SPECIFICATION FairSpec
CONSTANTS
    p1 = p1
    p2 = p2
    Players = {p1, p2}
    NoPid = NoPid
    Size = 2
INVARIANTS
    ExclusionByMark
    WinnerHasLine
PROPERTIES
    GameKept
    SectionEntered
