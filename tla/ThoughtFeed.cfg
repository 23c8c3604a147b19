SPECIFICATION Spec
CONSTANTS
    f1 = f1
    s1 = s1
    Thought = {f1, s1}
    Mine = {}
    Category <- TwoCategories
    MaxListeners = 3
    None = None
INVARIANTS
    TypeOK
    NoDuplicates
    QuietRowsAreCurrent
PROPERTIES
    UpdatesAreOfSelection
    Converges
