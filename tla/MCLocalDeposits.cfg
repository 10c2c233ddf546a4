CONSTANTS
    i1 = i1
    i2 = i2
    c1 = c1
    c2 = c2
    Missing = Missing
    Corrupt = Corrupt
    Collection = "deposits"
    Names <- MCNames
    Ids <- MCIds
    Calls <- MCCalls
    Intervals <- MCIntervals
    Updates <- MCUpdates
    NewStatuses <- MCNewStatuses
SPECIFICATION Spec
SYMMETRY Symmetry
CONSTRAINT Small
INVARIANTS
    TypeOK
    CountMatches
    StaleFileIsExplained
    SavedInTime
    AtomicUnlessOverlapped
    CompletedHasTime
    PagesTile
PROPERTIES
    ImplementsPersistentStore
