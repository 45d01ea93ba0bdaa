\* Every kind of target and request, with two model ids.
CONSTANTS
    ModelIds = {x1, x2}
    Exposed = {x1}
    ConnectionLists = {{}, {"listed"}}
    RuleLists = {{}}
SPECIFICATION RewriteSpec
INVARIANT VersionJoinedOnce
CHECK_DEADLOCK FALSE
