SPECIFICATION Spec
CONSTANTS
    Inputs <- MCInputs
    JSON_STRING_SIZE = 1
INVARIANTS
    Utf8Exact
    EscapesExact
    BudgetExact
