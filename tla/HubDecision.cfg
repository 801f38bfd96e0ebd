SPECIFICATION Spec
CONSTANTS
    RF_CONFIRM_REQUIRED = 3
    Decisions = {"ALERT", "CANDIDATE"}
INVARIANTS
    StreakIsPaidFor
    QuietClears
    AlertIsEarned
PROPERTIES
    AlertRowAgrees
