SPECIFICATION SpecScoped
CONSTANTS
    Names = {n1, n2, n3}
    MaxScope = 2
    Aliases = {""}
    NoAlias = ""
    Uninit = {TRUE, FALSE}
SYMMETRY Symmetry
CONSTRAINT OnePairOrUnblocked
INVARIANTS TypeOK ScopesArePooled OneRowPerContact ScopeIsPair AnsweredAreContacts
PROPERTIES ScopeNeverReused
