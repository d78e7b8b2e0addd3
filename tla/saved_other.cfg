\* Save and Run take the row that was selected, not the file that is shown.
SPECIFICATION SlotsSpec
CONSTANTS
    Ports = {p1, p2}
    Files = {f1, f2}
    MaxFiles = 2
    None = None
PROPERTY
    SavedIsShown
CHECK_DEADLOCK FALSE
