\* The parts of the server, one after the other.  The engine: a day of three minutes
\* and the first of the next, two scripts; one occurrence is remembered, so that a
\* forgotten one comes back.  The plans: every table of two calls.  The files: three
\* saves of two scripts, and a process number that comes back.
SPECIFICATION ServerSpec
CONSTANTS
    DayLength = 3
    WeekDays = 7
    MaxNames = 2
    Names <- MCNames
    day = day
    night = night
    Values = {day, night}
    None = None
    Bad = Bad
    Scripts <- MCScripts
    HandledMax = 1
    Alerts = {clear, water}
    NoAlert = clear
    MaxClock = 3
    MaxFailing = 1
    MaxLog = 2
    Requests <- Calls
    Missing = Missing
    Reported <- Codes
    Texts = {example, moody}
    Moody = {moody}
    Example = example
    NoText = NoText
    Pids = {p1, p2}
    MaxRevision = 2
    Processes = {"p1", "p2"}
    Nobody = nobody
    Keys = {k1, k2}
    Settings <- LogSettings
    MaxPieces = 10
INVARIANTS
    TypeOK
    OneAtATime
    DueWhenPlanned
    HandedOverOnce
    ScriptKnowsWhatIsShown
    FilesKeepTheirWord
    LogIsReadable
PROPERTIES
    SilentWhenDeadOrSuspended
    AlarmsAreTold
    PulseSettlesPlan
    LockHasItsHolder
CHECK_DEADLOCK FALSE
