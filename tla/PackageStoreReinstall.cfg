SPECIFICATION SpecWithInterrupts
CONSTANTS
    a = a
    b = b
    p1 = p1
    p2 = p2
    r1 = r1
    r2 = r2
    NoProc = NoProc
    Pkg = {a, b}
    Ver = {1, 2}
    Rev = {r1}
    Proc = {p1, p2}
    Offered <- MCOffered
    Dep <- MCDep
    Path <- MCPath
    MaxOrder = 2
    MaxDebris = 1
SYMMETRY Symmetry
CHECK_DEADLOCK FALSE
PROPERTY PriorInstallationRestored
