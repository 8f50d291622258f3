\* Spine business - c1 - set - module, with an idle pool set possible and
\* generic instance ids that may equal the business id: the idle set under
\* a custom instance, a dropped child and the replaced business node are
\* all in reach.
CONSTANTS
    BKInnerObjIDApp = "biz"
    BKInnerObjIDSet = "set"
    BKInnerObjIDModule = "module"
    Customs = {"c1"}
    ModelTree <- MCTreeCustom
    Spine <- MCSpineCustom
    BizID = 1
    SetIds = {1, 2}
    ModuleIds = {1}
    InstIds = {1, 2}
    ParentIds = {1, 2}
    SetDefaults = {0, 1}
    MaxInstDocs = 2
    StoreMayFail = TRUE
    NoField = NoField
    NoType = NoType
    Absent = Absent
SPECIFICATION Spec
INVARIANT
    TreeHoldsEveryInstance
