CONSTANTS
    TxIds = {t1, t2, t3}
    DepositEnabled = TRUE
    MaxFailures = 2
    None = None
    CanRevert = FALSE
SPECIFICATION Spec
CHECK_DEADLOCK FALSE
INVARIANT InitialDepositMade
