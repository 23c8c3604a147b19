SPECIFICATION RndmSpec
CONSTANTS
    f1 = f1
    s1 = s1
    Thought = {f1, s1}
    Mine = {f1, s1}
    Category <- TwoCategories
    Composer = {c1}
    MaxListeners = 2
    None = None
PROPERTIES
    LostThoughtsAreReported
    PostsAreAnswered
