\* Every document of up to three pages and four blocks.
SPECIFICATION Spec
CONSTANTS
    Words <- MCWords
    MaxDocPages = 3
    MaxBlocks = 4
    Documents <- MCDocuments
    Line = "line"
    Para = "para"
    Markup = "tag"
    Citation = "url"
    MinTokens = 2
    MaxTokens = 6
    OverlapTokens = 3
    MaxPages = 2
    WindowSize = 2
    PieceWords = 5
    OpeningWords = 2
INVARIANTS
    NothingLost
    PagesInOrder
    
CHECK_DEADLOCK FALSE
