SPECIFICATION Spec
CONSTANTS
    a = a
    b = b
    tick = tick
    cli = cli
    req = req
    req2 = req2
    api = api
    cmd = cmd
    NoSession = NoSession
    Jobs = {a}
    Tickers = {tick, cli}
    Requests = {req}
    Processes = {api, cmd}
    Crashes = {api, cmd}
    Keys = {a}
    LockKey <- OwnLock
    ProcessOf <- MCProcessOf
    Interval <- MCInterval
    Backoff = 1
    MaxRetries = 1
    MaxTime = 0
CHECK_DEADLOCK FALSE
INVARIANTS HandlerExclusion DurableOnce WorkIsAudited 
PROPERTIES OnlyResumeEnables
