SPECIFICATION Spec
CONSTANTS
    Messages = {"m1", "m2"}
    MESSAGE_LEN = 3
INVARIANTS
    FlagIsExact
    CutOnlyAfterError
