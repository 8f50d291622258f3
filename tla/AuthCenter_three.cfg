\* Up to three resources with two resource ids: all four batch rounds,
\* two business batches and skipped resources in one request.  Replies may
\* come in any order.
CONSTANTS
    Types = {"host", "mainline"}
    GlobalTypes = {"mainline"}
    Actions = {"find"}
    BizIds = {0, 1, 2}
    ResIDs = {"r1", "r2"}
    NoID = NoID
    NoAnswer = NoAnswer
    MaxResources = 3
    AllowReorder = TRUE
SPECIFICATION Spec
INVARIANTS
    TypeOK
    DecisionsFollowReplies
    AuthorizeMatchesCenter
