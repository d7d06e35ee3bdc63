CONSTANTS
    mail = mail
    wait = wait
    hook = hook
    wait2 = wait2
    utc = utc
    sydney = sydney
    Action = {mail, wait, hook, wait2}
    NoAction = NoAction
    Automation = {1}
    NoAutomation = 0
    CronExpr = {}
    Zone = {utc}
    DefaultTimezone = utc
    Unset = Unset
    NoSchedule = NoSchedule
    NoRow = NoRow
    Graph <- TwoDelayGraphs
    Job = {1, 2, 3, 4, 5}
    MaxWorkers = 2
    MaxAttempts = 2
    MaxSteps = 3
    Bound <- UndisturbedBound
SPECIFICATION Spec
INVARIANT UndisturbedEffectsOnce
