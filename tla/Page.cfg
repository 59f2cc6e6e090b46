CONSTANTS
    Views = {dash, detail}
    Home = dash
    Detail = detail
    Unknown = other
    None = None
    MaxNavs = 2
    Ranges = {1, 3}
    Caps <- MCCaps
    MinCap = 2
    MaxCap = 3
    DefaultCap = 2
    MaxPolls = 3
    MaxReloads = 1
SPECIFICATION PageSpec
INVARIANTS RightView RecorderSound HistoryCurrent
CHECK_DEADLOCK FALSE
