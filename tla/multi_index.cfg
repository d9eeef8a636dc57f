SPECIFICATION Spec
CONSTANTS
    Top = 3
    Values <- SmallValues
    Secondary <- SmallSecondary
INVARIANTS TypeOK CacheIsCurrent IndexMatchesRows NextIsFree
PROPERTIES ImplementsTable CallsKeepPromises
