SPECIFICATION FairSpec
CONSTANTS
    a = a
    b = b
    tick = tick
    cli = cli
    req = req
    req2 = req2
    api = api
    cmd = cmd
    NoSession = NoSession
    Jobs = {a}
    Tickers = {tick}
    Requests = {}
    Processes = {api}
    Crashes = {}
    Keys = {a}
    LockKey <- OwnLock
    ProcessOf <- MCProcessOf
    Interval <- MCInterval
    Backoff = 1
    MaxRetries = 1
    MaxTime = 6
CHECK_DEADLOCK FALSE
PROPERTIES  DueJobRuns
