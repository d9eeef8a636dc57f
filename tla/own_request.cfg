SPECIFICATION Spec
CONSTANTS
    Names = {n1, n2}
    MaxScope = 1
    Aliases = {""}
    NoAlias = ""
    Uninit = {FALSE}
SYMMETRY Symmetry
INVARIANT FoundRequestIsTheirs
