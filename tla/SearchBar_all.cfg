SPECIFICATION FairSpec
CONSTANTS
    None = None
    Value = {"Jan Kot", "Kot Jan"}
    Orders <- WordOrders
    Collection = {"all_collection", "publication", "provider", "service"}
    Text = {"", "dna", "dna#"}
    Clean <- TextClean
    Bookmarks <- TwoBookmarks
    MaxTags = 2
    MaxMoves = 4
CHECK_DEADLOCK FALSE
INVARIANTS
    FacetsMatchResults
    SuggestionsFollow
PROPERTIES
    BackLeadsOut
