\* Spine business - c1 - c2 - set - module.  Every ancestor two levels up
\* is repaired by ConstructInstanceTopoTree.  No idle pool set here, so
\* generic instance ids may equal the business id.
CONSTANTS
    BKInnerObjIDApp = "biz"
    BKInnerObjIDSet = "set"
    BKInnerObjIDModule = "module"
    Customs = {"c1", "c2"}
    ModelTree <- MCTreeNested
    Spine <- MCSpineNested
    BizID = 1
    SetIds = {1, 2}
    ModuleIds = {1}
    InstIds = {1, 2}
    ParentIds = {1, 2}
    SetDefaults = {0}
    MaxInstDocs = 2
    StoreMayFail = TRUE
    NoField = NoField
    NoType = NoType
    Absent = Absent
SPECIFICATION Spec
INVARIANTS
    TypeOK
    WellFormedTreeExact
    NoFalseFailure
    EdgesFollowSpine
    ModulePathsFollowStore
PROPERTY
    BuildEnds
