SPECIFICATION Spec
CONSTANTS
    h1 = h1
    h2 = h2
    s1 = s1
    s2 = s2
    s3 = s3
    Handle = {h1, h2}
    Sid = {s1, s2, s3}
    NoHandle = NoHandle
    NoSid = NoSid
    Absent = Absent
    None = None
    Kind = {"plain", "command", "claude", "codex", "pi", "rpc"}
    MaxAsk = 3
    Budget <- MCBudget
SYMMETRY Symmetry
CHECK_DEADLOCK FALSE
INVARIANTS TablesAgree EphemeralsReleased FollowUpInContext Remembers CreatedOnce DefaultIsFresh
PROPERTY ImplementsConversations
