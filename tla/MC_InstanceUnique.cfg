\* Two properties, one value besides the empty one, one business, two
\* concurrent requests on a store of at most two instances, any of which
\* may be deleted; pages of one set, so that two sets take two searches
CONSTANTS
    Props = {"ip", "name"}
    Vals = {"v"}
    Empty = Empty
    BadKeys = {"k9"}
    UniqueSets <- MCUniqueSets
    Labels = {"b1"}
    NoLabel = NoLabel
    Reqs = {r1, r2}
    MaxInit = 1
    MaxInst = 2
    MaxDeletes = 1
    StoreMayFail = TRUE
    PageSize = 1
    MaxForEach = 2
    SearchMayFail = TRUE
SPECIFICATION ReadsSpec
SYMMETRY MCSymmetry
INVARIANTS
    ReadsTypeOK
    DuplicatesOnlyFromStaleChecks
    ForEachOnceInOrder
