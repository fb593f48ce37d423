SPECIFICATION Spec
CONSTANTS
    Calls = {c1}
    Others = {o1}
    Threshold = 2
    CoolDown = 5
    MaxAttempts = 3
    Timeout = 3
    CallerTimeout = 2
    MaxPause = 2
PROPERTY CallerTimeoutSparesBreaker
