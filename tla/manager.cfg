SPECIFICATION Spec
CONSTANTS
    MAX_LRU_CACHE_SIZE = 2
    Budgets <- MCBudgets
INVARIANT SlotsExact
INVARIANT OwnHandleOnly
INVARIANT RegisteredFirst
INVARIANT LruExact
INVARIANT FilesWellFormed
PROPERTY DeadStaysDead
INVARIANT OneConnectInHand
CHECK_DEADLOCK FALSE
