SPECIFICATION Spec
CONSTANTS
    Size = 2
    Roles = {"INITIATOR", "ACCEPTOR"}
    MaxConns = 2
    MaxSends = 2
    block_count = 2
    Budgets <- MCBudgets
INVARIANT NoUndefinedUse
INVARIANT OneReadOneWrite
INVARIANT WireIntact
INVARIANT BlocksExact
INVARIANT StopLeavesNoSocket
CHECK_DEADLOCK FALSE
