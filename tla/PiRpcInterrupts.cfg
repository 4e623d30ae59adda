SPECIFICATION InterruptedSpec
CONSTANTS
    Backend = {b1, b2}
    Proc = {c1, c2}
    Sid = {s1, s2, s3}
    NoBackend = NoBackend
    NoProc = NoProc
    NoSid = NoSid
    MaxOps = 2
    MaxAttempts = 2
    MaxMessages = 2
PROPERTIES ParentKept
CHECK_DEADLOCK FALSE
