SPECIFICATION Spec
CONSTANTS
    Themes = {"warm", "cool"}
    Values = {0, 1}
    Colours = {1, 2}
    MaxEdits = 3
CHECK_DEADLOCK FALSE
INVARIANTS
    NoEditLost
