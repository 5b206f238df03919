SPECIFICATION FFSpec
CONSTANT NPages = 5
INVARIANT Unlinked
CHECK_DEADLOCK FALSE
