SPECIFICATION FairSpec
CONSTANTS
    long = long
    short = short
    None = None
    Query = {long, short}
    Total <- TwoQueries
    ChunkPages = 5
    Moves = {"search", "repeat", "filter", "click", "back", "leave", "reload", "failure"}
    PatientMoves = {"search", "click", "reload"}
    MaxMoves = 6
CHECK_DEADLOCK FALSE
INVARIANTS
    TypeOK
    ResultsMatchAddress
    PagesAreInOrder
    NoResultsMeansNone
PROPERTIES
    SearchIsShown
