------------------------------ MODULE TestFull ------------------------------
(***************************************************************************)
(* The tests of Assignment1/test_full.c, run against the interceptor while *)
(* other processes of the machine use it too.                              *)
(*                                                                         *)
(* The tester is a process of root.  It loads the module, issues commands, *)
(* starts three guests (itself again, as user nobody) and waits for each,  *)
(* and removes the module.  Together they run one line of the script after *)
(* the other.  Bystanders, who are other users, issue any commands, make   *)
(* any calls and exit at any time, and init makes calls.                   *)
(*                                                                         *)
(* Lines with numbers that my_syscall refuses at once are left out.        *)
(***************************************************************************)
EXTENDS Interceptor, Sequences

CONSTANTS
    tester,                     \* test_full, as root
    init,                       \* pid 1
    nonroot, stopper, starter,  \* the guests: test_full nonroot, stop and start
    last_child,                 \* the shell the last guest was started from
    Bystanders,                 \* processes of other users
    exit, open                  \* __NR_exit and SYS_open

Guests == {nonroot, stopper, starter}
Testers == Guests \union {tester, last_child}

ASSUME UsersAssumption ==
    /\ Proc = Testers \union {init} \union Bystanders
    /\ Callers = {tester} \union Guests \union Bystanders
    /\ Root = {tester, init, last_child}
    /\ \A g \in Guests, p \in Proc : Owner[p] = Owner[g] <=> p \in Guests
    /\ \A b \in Bystanders, p \in Proc \ Bystanders : Owner[p] # Owner[b]

\* The names are of six different processes.
ASSUME NamesAssumption ==
    /\ Guests \cap Root = {} /\ Bystanders \cap (Testers \union {init}) = {}
    /\ nonroot # stopper /\ starter \notin {nonroot, stopper}
    /\ tester # last_child /\ init \notin {tester, last_child}

ASSUME TestAssumption ==
    /\ exit # open /\ Syscall = {exit, open} /\ Cmds = {INTERCEPT, RELEASE, START, STOP}
    /\ LoadedAtStart = FALSE

VARIABLES
    line,       \* the line of the script that runs
    passed,     \* no line printed "failed"
    nomem       \* a START of the script met a kmalloc that failed

testVars == <<vars, line, passed, nomem>>

\* The lines: who does what, and the result that is expected.
Issue(who, cmd, sys, pid, status) ==
    [who |-> who, do |-> cmd, sys |-> sys, pid |-> pid, status |-> status]
Act(who, what, sys) ==
    [who |-> who, do |-> what, sys |-> sys, pid |-> AllPids, status |-> "0"]

do_intercept(who, sys, status) == Issue(who, INTERCEPT, sys, who, status)
do_release(who, sys, status)   == Issue(who, RELEASE, sys, who, status)
do_start(who, sys, pid, status) == Issue(who, START, sys, pid, status)
do_stop(who, sys, pid, status) == Issue(who, STOP, sys, pid, status)
do_monitor(who, sys) == Act(who, "monitor", sys)
exit_group(who) == Act(who, "return", exit)

do_nonroot(sys) ==
    << do_intercept(nonroot, sys, "-EPERM"),
       do_release(nonroot, sys, "-EPERM"),
       do_start(nonroot, sys, AllPids, "-EPERM"),
       do_stop(nonroot, sys, AllPids, "-EPERM"),
       do_start(nonroot, sys, init, "-EPERM"),
       do_stop(nonroot, sys, init, "-EPERM"),
       do_start(nonroot, sys, nonroot, "0"),
       do_start(nonroot, sys, nonroot, "-EBUSY"),
       do_monitor(nonroot, sys),
       do_stop(nonroot, sys, nonroot, "0"),
       do_stop(nonroot, sys, nonroot, "-EINVAL"),
       exit_group(nonroot) >>

test_syscall(sys) ==
    << do_intercept(tester, sys, "0"), do_intercept(tester, sys, "-EBUSY") >>
    \o do_nonroot(sys)
    \o << do_start(tester, sys, AllPids, "0"),
          do_stop(tester, sys, AllPids, "0"),
          do_start(tester, sys, init, "0"),
          do_stop(stopper, sys, init, "-EPERM"), exit_group(stopper),
          do_stop(tester, sys, init, "0"),
          do_start(starter, sys, starter, "0"), exit_group(starter), exit_group(last_child),
          do_stop(tester, sys, last_child, "-EINVAL"),
          do_release(tester, sys, "0") >>

Script ==
    << Act(Loader, "insmod", exit),
       do_intercept(tester, exit, "0"), do_release(tester, exit, "0") >>
    \o test_syscall(open)
    \o << Act(Loader, "rmmod", exit) >>

-----------------------------------------------------------------------------
TestInit == Init /\ line = 1 /\ passed = TRUE /\ nomem = FALSE

Running == line <= Len(Script)
Now == Script[line]

\* A line of the script makes its call; test_full makes the next one when this
\* one has returned, and waits for a guest until it has gone.
Begin ==
    /\ Running
    /\ CASE Now.do \in Cmds ->
              /\ Request(Now.who)
              /\ req'[Now.who] = [cmd |-> Now.do, sys |-> Now.sys, pid |-> Now.pid]
         [] Now.do = "monitor" -> CallSyscall(Now.who) /\ req'[Now.who].sys = Now.sys
         [] Now.do = "return"  -> Exit(Now.who)
         [] Now.do = "insmod"  -> Load
         [] Now.do = "rmmod"   -> Unload
    /\ UNCHANGED <<line, passed, nomem>>

\* interceptor logs the call of a process that is monitored.
Logged(p) ==
    LET e == table[req[p].sys]
    IN  e.monitored = 2 \/ (e.monitored = 1 /\ e.my_list[p] > 0)

\* What the command of p returns, by the place it returns from.
Result(p) ==
    LET r == req[p]
        listed == check_pid_monitored(r.sys, r.pid)
    IN  CASE pc[p] = "args" -> IF r.pid = AllPids \/ Alive(r.pid)
                               THEN "-EPERM" ELSE "-EINVAL"
          [] pc[p] = "owner" -> "-EPERM"
          [] pc[p] = "context" -> IF r.cmd \in {RELEASE, STOP}
                                  THEN "-EINVAL" ELSE "-EBUSY"
          [] pc[p] = "start" /\ r.pid # AllPids ->
                IF table[r.sys].monitored = 2
                THEN IF listed THEN "0" ELSE "-EINVAL"
                ELSE IF table'[r.sys].my_list[r.pid] > table[r.sys].my_list[r.pid]
                     THEN "0" ELSE "-ENOMEM"
          [] pc[p] = "stop" /\ r.pid # AllPids -> IF listed THEN "0" ELSE "-EINVAL"
          [] OTHER -> "0"

\* The test of a line that has just ended its call, by what it is about.
LinePasses ==
    LET p == Now.who
    IN  CASE Now.do = "monitor" -> pc[p] = "log" => Logged(p)
          [] Now.do \in Cmds    -> pc'[p] = "user" => Result(p) = Now.status
          [] OTHER              -> TRUE

Ended(p) == pc'[p] \in {"user", "dead", "loaded", "removed"}

\* Whoever runs the line goes on in the module, or in insmod and rmmod.
Continue ==
    /\ Running
    /\ IF Now.who = Loader THEN LoaderStep ELSE Run(Now.who)
    /\ line' = IF Ended(Now.who) THEN line + 1 ELSE line
    /\ passed' = (passed /\ LinePasses)
    /\ nomem' = (nomem \/ (Ended(Now.who) /\ Now.do = START
                              /\ Result(Now.who) = "-ENOMEM"))

Lock == /\ \E t \in Task : LockPidlist(t) \/ LockCalltable(t)
        /\ UNCHANGED <<line, passed, nomem>>

\* The machine does not stop for the tests.
Meanwhile ==
    /\ \/ \E p \in {init} \union Bystanders : CallSyscall(p) \/ Run(p) \/ Unmapped(p)
       \/ \E p \in Bystanders : Request(p) \/ Exit(p)
    /\ UNCHANGED <<line, passed, nomem>>

TestNext == Begin \/ Continue \/ Lock \/ Meanwhile

TestSpec == TestInit /\ [][TestNext]_testVars
-----------------------------------------------------------------------------
\* No line of test_full prints "failed" (test_full.c:44), whatever the processes
\* it has not started do in between, unless the kernel ran out of memory.
TestsPass == nomem \/ passed
=============================================================================
