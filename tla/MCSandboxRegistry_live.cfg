CONSTANTS
    Visitors = {v1}
    Uploaders = {}
    Sweeps = {w1}
    Cron = cron
    Ids = {s1, s2, s3}
    MAX_SANDBOXES = 1
    IDLE = 0
    LIFETIME = 1
    MaxFaults = 1
    NULL = NULL
SPECIFICATION FairSpec
PROPERTY LoginAnswered
PROPERTY TemplateReturns
PROPERTY SandboxesEnd
