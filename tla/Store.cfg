CONSTANTS
    RingSize = 2
    HistorySize = 5
    RateWindow = 2
    Interval = 1
    Seconds = {1, 3, 6}
    CsvSeconds = 3
    CsvPoints = 2
    ClockSteps <- Backward
    MaxSteps = 1
    MaxTime = 6
    MaxArrivals = 3
SPECIFICATION StoreSpec
INVARIANTS LinesSound DownsamplingFair ExportWhole
CHECK_DEADLOCK FALSE
