SPECIFICATION BillingSpec
CONSTANTS
    MaxContributions = 1
    MaxCheckouts = 2
    MaxMonths = 0
    MaxBytes = 0
    StatusReader = {r1}
INVARIANTS
    PaidIsCredited
CHECK_DEADLOCK FALSE
