SPECIFICATION AglSpec
CONSTANTS
    Part = {"cache"}
    Module = {"prelude", "a", "b", "c"}
    Boot = {"prelude"}
    Name = {"x", "y", "f", "T", "U"}
    Rank <- ReplRank
    Imports <- ReplImports
    Parts <- ReplParts
    Entry <- ReplEntries
    MaxEntries = 3
    InterruptEarly = FALSE
    Mod = {"a", "b", "n"}
    ModOrder <- CacheOrder
    Text = {"t1", "t2"}
    Absent = "absent"
    Versions <- EditVersions
    FirstFiles <- EditFiles
    Explicit <- EditExplicit
    Wild <- NoWild
    Roots = {{"a"}}
    BootRoots = {"n"}
    MaxCompiles = 3
    MaxMoves = 1
    SessionReloads = TRUE
    Signature <- MatchSignature
    Literals <- MatchLiterals
    Fields <- MatchFields
    Blank = "_"
    Other = "other"
    Arms <- MatchArms
    Values <- MatchValues
    MaxArms = 3
    Main = "main"
    Fn = {"main", "f", "g", "m", "q"}
    Outer <- FnOuter
    Params <- FnParams
    Lets <- FnLets
    Mutable = {"s", "v"}
    Static = {"s"}
    Refers <- FnRefers
    MaxCalls = 3
    MaxClosures = 2
    MaxBindings = 6
    Interp = {"p", "entry"}
    Lent = {"entry"}
    Host = "session"
    Target <- ExternTarget
    BaseLimit = 15
    Thread = {"t", "u"}
    Nowhere = "nowhere"
    Key = {"k", "l"}
    MaxDepth = 5
    MaxValues = 2
    LooseState = FALSE
    Cycle <- CycleOrder
    Outside = {"o"}
    Public <- CyclePublic
    TypePaths <- CycleTypes
    MayExport <- CycleExports
    MaxExports = 4
INVARIANT SlotsHonest
CHECK_DEADLOCK FALSE
