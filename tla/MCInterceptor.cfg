SPECIFICATION Spec
CONSTANTS
    p1 = p1
    p2 = p2
    Loader = Loader
    AllPids = AllPids
    NoOne = NoOne
    Proc = {p1, p2}
    Callers = {p1, p2}
    Root = {p1, p2}
    Owner <- Uids
    Syscall = {1}
    NR_syscalls = 2
    Cmds = {"INTERCEPT", "RELEASE", "START", "STOP"}
    StopAllUnlisted = FALSE
    LoadedAtStart = FALSE
INVARIANTS
    TypeOK
    ListCountMatches
    LocksAreReleased
    InterceptorCanForward
    LocksDieOnlyUnready
PROPERTIES
    OnlyOvertakingSpoilsBooks
    OnlyRacingStartsListTwice
    MonitoringFollowsLists
    OnlyLateStartsListTheGone
CHECK_DEADLOCK FALSE
