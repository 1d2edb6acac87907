SPECIFICATION Spec
CONSTANTS
    Devices = {1, 2}
    Self = 1
    Names = {1, 2}
    Included = {1}
    Rows <- MCRows
    DirtyShare = 1
    MaxChanges = 3
INVARIANT ListsCurrent
PROPERTIES AnswersAsPromised
CHECK_DEADLOCK FALSE
