SPECIFICATION FairSpec
CONSTANTS
    Keys = {string}
    StringKeys = {string}
    Values = {"a", "fraction", "rounded", "infinite", "huge", "object"}
    Nil = Nil
    Absent = Absent
    NoTable = NoTable
    NoRow = NoRow
INVARIANTS
    SavedInOrder
    RowLostOnlyByBrokenSave
    
PROPERTIES
    EventuallySaved
