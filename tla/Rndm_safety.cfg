SPECIFICATION RndmSpec
CONSTANTS
    f1 = f1
    s1 = s1
    Thought = {f1, s1}
    Mine = {f1}
    Category <- TwoCategories
    Composer = {c1, c2}
    MaxListeners = 3
    None = None
SYMMETRY Symmetry
INVARIANTS
    QuietRowsAreOfAKeptListener
PROPERTIES
    ClosesOnlyWhenStored
