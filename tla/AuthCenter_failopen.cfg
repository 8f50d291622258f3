\* An auth center call that fails, with the center enabled.
CONSTANTS
    Types = {"host", "mainline"}
    GlobalTypes = {"mainline"}
    Actions = {"find", "update"}
    BizIds = {0, 1}
    ResIDs = {"r1", "r2"}
    NoID = NoID
    NoAnswer = NoAnswer
    MaxResources = 2
    AllowReorder = TRUE
SPECIFICATION Spec
INVARIANT
    AuthorizeFailsClosed
