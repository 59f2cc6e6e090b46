CONSTANTS
    Views = {dashboard, detail}
    Home = dashboard
    Unknown = elsewhere
    None = None
    MaxNavs = 5
SPECIFICATION Spec
INVARIANTS ExactlyOneView
CHECK_DEADLOCK FALSE
