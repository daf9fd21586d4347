SPECIFICATION CwdSpec
CONSTANTS
    Names = {"a", "b"}
    MaxDepth = 4
    MaxTree = 2
INVARIANT CdupGoesToParent
