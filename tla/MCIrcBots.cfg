SPECIFICATION BotsSpec
CONSTANTS
    MaxComic = 3
    Cells = {1, 2}
    Kinds = {"rain"}
    Watched = {h1}
    Unknown = Unknown
    Thresholds = {2, 4, 6, 10}
    MaxFree = 12
    Day = 4
    PostHours = {1, 2}
    PostHour = 3
    Stories = 2
    Horizon = 9
INVARIANTS
    ReportsInTime
    AnnouncedOnce
    WatchersTell
PROPERTIES
    BotsComeBack
    DiskAlertsSteady
CHECK_DEADLOCK FALSE
