SPECIFICATION SpecPaired
CONSTANTS
    Names = {n1, n2, n3, n4}
    MaxScope = 1
    Aliases = {""}
    NoAlias = ""
    Uninit = {FALSE}
SYMMETRY Symmetry
CONSTRAINT TwoPairs
INVARIANTS PrimaryKeyUnique NoSelfContact Reciprocal
PROPERTIES ErasesPairs
