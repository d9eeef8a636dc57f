SPECIFICATION Spec
CONSTANTS
    Guinames = {"ann", "bob", "tom"}
    IdOf <- SmallIdOf
    Passwords = {p1, p2}
    WordLists <- SmallWordLists
    Accounts = {"acc"}
    Servers = {"srv"}
    Ids = {i1, i2, i3}
    Versions = {"v1", "v2"}
    FirstVersion = "v1"
    Owners = {"acc"}
    Compositions = {"cmp"}
    Objects = {"obj"}
    Perms = {"prm1", "prm2"}
    MaxItems = 3
SYMMETRY Symmetry
CONSTRAINT FewItems
INVARIANTS TypeOK NoDoubles RemovalKeepsTheRest
PROPERTIES GlobalIsKept UsersAreKept
