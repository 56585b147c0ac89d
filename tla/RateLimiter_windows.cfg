\* Two keys on a map that holds one: every call counted in a running window
\* purges. Time for three windows.
SPECIFICATION Spec
CONSTANTS
    Keys = {k1, k2}
    Limit = 2
    Window = 2
    Capacity = 1
    MaxTime = 5
SYMMETRY Symmetry
INVARIANTS
    AtMostTwoWindows
    LimitPerWindow
PROPERTIES
    AllowanceSpec
CHECK_DEADLOCK FALSE
