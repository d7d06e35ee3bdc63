CONSTANTS
    mail = mail
    wait = wait
    hook = hook
    wait2 = wait2
    utc = utc
    sydney = sydney
    Action = {mail, wait, hook}
    NoAction = NoAction
    Automation = {1, 2}
    NoAutomation = 0
    CronExpr = {daily, weekly}
    Zone = {utc, sydney}
    DefaultTimezone = utc
    Unset = Unset
    NoSchedule = NoSchedule
    NoRow = NoRow
    Graph <- EventGraphs
    Job = {1, 2, 3, 4, 5, 6, 7, 8, 9}
    MaxWorkers = 2
    MaxAttempts = 2
    MaxSteps = 3
    Bound <- EventsBound
SPECIFICATION Spec
CONSTRAINT Scenario
SYMMETRY Interchangeable
INVARIANT PauseHandsOver UndisturbedEffectsOnce TargetedEventTouchesOnlyTarget WalkMatchesEvent
PROPERTY CompletedJobsAreDone
