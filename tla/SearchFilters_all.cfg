SPECIFICATION FairSpec
CONSTANTS
    None = None
    Configs <- Types
    Tags <- CardTags
    Places <- AllPlaces
    Answers <- AllAnswers
    Linked <- Links
    Within <- Parts
    Days = 2
    Longest = 120
    Documents <- AllDocuments
    Today = 2
    Related <- RelatedTitles
CHECK_DEADLOCK FALSE
INVARIANTS
    TypeOK
    PanelAgrees
    FoundAsAsked
    OptionsFindResults
PROPERTIES
    TagNarrows
    OthersAreKept
    Settles
