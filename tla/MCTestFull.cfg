SPECIFICATION TestSpec
CONSTANTS
    tester = tester
    init = init
    nonroot = nonroot
    stopper = stopper
    starter = starter
    last_child = last_child
    bystander = bystander
    Bystanders = {bystander}
    Loader = Loader
    AllPids = AllPids
    NoOne = NoOne
    Proc = {tester, init, nonroot, stopper, starter, last_child, bystander}
    Callers = {tester, nonroot, stopper, starter, bystander}
    Root = {tester, init, last_child}
    Owner <- ThreeOwners
    exit = 1
    open = 2
    Syscall = {1, 2}
    NR_syscalls = 3
    Cmds = {"INTERCEPT", "RELEASE", "START", "STOP"}
    StopAllUnlisted = TRUE
    LoadedAtStart = FALSE
INVARIANTS
    TestsPass
    DeadAreNotListed
CHECK_DEADLOCK FALSE
