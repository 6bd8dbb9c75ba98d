SPECIFICATION FairSpec
CONSTANTS
    p1 = p1
    p2 = p2
    Loader = Loader
    AllPids = AllPids
    NoOne = NoOne
    Proc = {p1, p2}
    Callers = {p1}
    Root = {p1, p2}
    Owner <- Uids
    Syscall = {1}
    NR_syscalls = 2
    Cmds = {"INTERCEPT", "RELEASE"}
    StopAllUnlisted = TRUE
    LoadedAtStart = TRUE
PROPERTY EveryCallReturns
CHECK_DEADLOCK FALSE
