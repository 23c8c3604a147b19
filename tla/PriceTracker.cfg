SPECIFICATION Spec
CONSTANTS
    Codes = {USD, c1}
    USD = USD
    Placeholder = Label
    MaxRequests = 2
INVARIANTS
    TypeOK
    CurrentRowsAreTheList
    StoredIsListed
PROPERTIES
    DeletedStaysDeleted
    AddLosesNothing
    TrapsOnlyOnStaleRows
    RowsCatchUp
