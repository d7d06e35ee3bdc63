CONSTANTS
    mail = mail
    wait = wait
    hook = hook
    wait2 = wait2
    utc = utc
    sydney = sydney
    Action = {mail, wait, hook}
    NoAction = NoAction
    Automation = {1}
    NoAutomation = 0
    CronExpr = {}
    Zone = {utc}
    DefaultTimezone = utc
    Unset = Unset
    NoSchedule = NoSchedule
    NoRow = NoRow
    Graph <- ErrorGraphs
    Job = {1, 2, 3, 4, 5, 6}
    MaxWorkers = 1
    MaxAttempts = 2
    MaxSteps = 3
    Bound <- ErrorsBound
SPECIFICATION FairSpec
INVARIANT NoEffectTwiceInAWalk
PROPERTY EveryJobSettles
