SPECIFICATION Spec
CONSTANTS
    Calls = {c1}
    Policies <- ManyPolicies
    Default <- DefaultPolicy
    Budget <- BudgetOf
    Smallest = 1
    Latencies = {1, 2, 3}
    MaxTime = 20
INVARIANTS TypeOK PolicyFitsBudget GivesUpAfterAllAttempts
PROPERTY NoRetryOnceOver
