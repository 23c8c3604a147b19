SPECIFICATION Spec
CONSTANTS
    Sizes = {"Large", "Medium", "Small"}
    Kinds = {"Soft", "Medium", "Hard"}
    None = None
INVARIANTS
    TypeOK
    HighlightExplained
PROPERTIES
    OrderIsWhatIsShown
    TapTakesEffect
