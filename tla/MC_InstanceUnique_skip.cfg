\* As MC_InstanceUnique.cfg: a set deleted between two pages of a
\* ForEach
CONSTANTS
    Props = {"ip", "name"}
    Vals = {"v"}
    Empty = Empty
    BadKeys = {"k9"}
    UniqueSets <- MCUniqueSets
    Labels = {"b1"}
    NoLabel = NoLabel
    Reqs = {r1, r2}
    MaxInit = 1
    MaxInst = 2
    MaxDeletes = 1
    StoreMayFail = TRUE
    PageSize = 1
    MaxForEach = 2
    SearchMayFail = TRUE
SPECIFICATION ReadsSpec
SYMMETRY MCSymmetry
PROPERTY
    ForEachSeesSurvivors
