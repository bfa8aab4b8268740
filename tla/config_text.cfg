SPECIFICATION SpecText
CONSTANTS
    Matches <- TwoPaths
    Uris <- TwoUris
    Given = {v1, v2}
    MaxItems = 7
    MaxDepth = 5
SYMMETRY Symmetry
INVARIANTS DirectivesInForce ShallowLongestMatch
CHECK_DEADLOCK FALSE
