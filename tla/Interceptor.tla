---------------------------- MODULE Interceptor -----------------------------
(***************************************************************************)
(* The system call interceptor of Assignment1/interceptor.c: a kernel      *)
(* module entered by many processes at once, through my_syscall (the four  *)
(* commands), through interceptor (a call of an intercepted system call)   *)
(* and through my_exit_group, and by the loader through init_function and  *)
(* exit_function.                                                          *)
(*                                                                         *)
(* Taking a spinlock is a step; the code between two lock operations is    *)
(* one step that also does the unlocking.  A process is at a place in the  *)
(* code (pc) and either holds the lock that place needs or is about to     *)
(* spin for it.  An oops kills the process and leaves its locks held.      *)
(***************************************************************************)
EXTENDS Integers, FiniteSets

CONSTANTS
    Proc,           \* the processes; a process stands for its pid
    Loader,         \* whoever loads and removes the module
    Callers,        \* the processes that use my_syscall
    Root,           \* the processes whose uid is 0
    Owner,          \* the uid of every process
    AllPids,        \* the argument pid = 0
    Syscall,        \* the system calls that are used; number 0 is my_syscall itself
    NR_syscalls,    \* the table has entries 0 .. NR_syscalls
    Cmds,           \* the commands that are used
    StopAllUnlisted,\* which side of an unresolved merge is built (see StopUnlisted)
    LoadedAtStart,  \* TRUE: start after init_function
    NoOne           \* a lock that is not held

INTERCEPT == "INTERCEPT"
RELEASE   == "RELEASE"
START     == "START"
STOP      == "STOP"

ASSUME ProcAssumption == /\ Loader \notin Proc /\ NoOne \notin Proc /\ NoOne # Loader
                         /\ AllPids \notin Proc
                         /\ Callers \subseteq Proc /\ Root \subseteq Proc
ASSUME SyscallAssumption == NR_syscalls \in Nat /\ Syscall \subseteq 1 .. NR_syscalls
ASSUME CmdsAssumption == Cmds \subseteq {INTERCEPT, RELEASE, START, STOP}
ASSUME BooleanAssumption == {StopAllUnlisted, LoadedAtStart} \subseteq BOOLEAN

Task == Proc \union {Loader}
Pid  == Proc \union {AllPids}

VARIABLES
    table,      \* the module's bookkeeping, an entry per system call
    sct,        \* sys_call_table
    pidlist,    \* the holder of pidlist_lock
    calltable,  \* the holder of calltable_lock
    pc,         \* where every process and the loader are
    req         \* the arguments a process entered the module with

vars == <<table, sct, pidlist, calltable, pc, req>>

Handler == {"original", "interceptor"}

\* my_list only matters as a bag of pids: every loop over it looks for a pid.
Entry == [f : Handler \union {"none"}, intercepted : BOOLEAN,
          monitored : 0 .. 2, listcount : Int, my_list : [Proc -> Int]]

NoArgs == [cmd |-> "none", sys |-> 0, pid |-> AllPids]
Args == [cmd : Cmds \union {"none"}, sys : Syscall \union {0}, pid : Pid]

\* Places in my_syscall, interceptor and my_exit_group, with "user" outside of
\* the module, and in the loader.
ProcPlace == {"user", "args", "owner", "context", "intercept", "hijack",
              "release", "restore", "start", "stop", "log", "call", "exit",
              "gone", "dead", "oops"}
LoaderPlace == {"unloaded", "init_hijack", "init_table", "loaded",
                "exit_restore", "exit_clear", "removed"}

-----------------------------------------------------------------------------
\* The lists of pids.
EmptyList == [p \in Proc |-> 0]
ZeroEntry == [f |-> "none", intercepted |-> FALSE, monitored |-> 0,
              listcount |-> 0, my_list |-> EmptyList]

check_pid_monitored(s, pid) == pid \in Proc /\ table[s].my_list[pid] > 0

\* Mutations of Unmonitored: the flag is decremented; the count is not looked at.
UnmonitoredByOne(e) ==
    [e EXCEPT !.monitored = IF e.listcount = 0 THEN @ - 1 ELSE @]
UnmonitoredAtOnce(e) == [e EXCEPT !.monitored = IF @ = 1 THEN 0 ELSE @]

\* Monitoring of a system call stops with the last pid in its list, unless it is
\* for all pids.
Unmonitored(e) ==
    [e EXCEPT !.monitored = IF e.listcount = 0 /\ e.monitored = 1 THEN 0 ELSE @]

add_pid_sysc(e, p) == [e EXCEPT !.my_list[p] = @ + 1, !.listcount = @ + 1]

del_pid_sysc(e, p) ==
    Unmonitored([e EXCEPT !.my_list[p] = @ - 1, !.listcount = @ - 1])

\* Mutation of DelPidRange: one entry fewer.
DelPidRangeShort == {s \in Syscall : s >= 1 /\ s < NR_syscalls - 1}

\* del_pid removes every node of p from the entries 1 .. NR_syscalls - 1.
del_pid(e, p) ==
    IF e.my_list[p] = 0 THEN e
    ELSE Unmonitored([e EXCEPT !.my_list[p] = 0,
                               !.listcount = @ - e.my_list[p]])
DelPidRange == {s \in Syscall : s >= 1 /\ s < NR_syscalls}

\* Mutation of destroy_list: the count is not reset.
destroy_list_only(e) == [e EXCEPT !.my_list = EmptyList, !.monitored = 0]

destroy_list(e) == [e EXCEPT !.my_list = EmptyList, !.listcount = 0, !.monitored = 0]

\* Mutation of InitRange: one entry fewer is initialised.
InitRangeShort == {s \in Syscall : s < NR_syscalls - 1}

\* Before init_function has run, and in the last entry for ever, the list head
\* is all zero: the first look at the list follows a null pointer.
InitRange == {s \in Syscall : s < NR_syscalls}
TableReady == pc[Loader] \notin {"unloaded", "init_hijack", "init_table"}
ListReady(s) == TableReady /\ s \in InitRange

\* MY_CUSTOM_SYSCALL and exit_group lead into the module.
Entered == pc[Loader] \in {"init_table", "loaded", "exit_restore"}

Alive(pid) == pid \in Proc /\ pc[pid] \notin {"dead", "oops"}

-----------------------------------------------------------------------------
Init ==
    /\ table     = [s \in Syscall |-> ZeroEntry]
    /\ sct       = [s \in Syscall |-> "original"]
    /\ pidlist   = NoOne
    /\ calltable = NoOne
    /\ pc = [t \in Task |-> IF t # Loader THEN "user"
                            ELSE IF LoadedAtStart THEN "loaded" ELSE "unloaded"]
    /\ req = [p \in Proc |-> NoArgs]

\* The places whose code runs under each lock.  interceptor takes calltable_lock
\* and then pidlist_lock; RELEASE takes them the other way round.
UnderPidlist   == {"context", "intercept", "release", "start", "stop", "exit",
                   "init_table", "exit_clear"}
UnderCalltable == {"hijack", "restore", "log", "init_hijack", "exit_restore"}

WantsPidlist(t) ==
    /\ pidlist # t
    /\ pc[t] \in UnderPidlist \/ (pc[t] = "log" /\ calltable = t)
WantsCalltable(t) == calltable # t /\ pc[t] \in UnderCalltable

LockPidlist(t) ==
    /\ WantsPidlist(t)
    /\ pidlist = NoOne
    /\ pidlist' = t
    /\ UNCHANGED <<table, sct, calltable, pc, req>>

LockCalltable(t) ==
    /\ WantsCalltable(t)
    /\ calltable = NoOne
    /\ calltable' = t
    /\ UNCHANGED <<table, sct, pidlist, pc, req>>

At(t, place) == pc[t] = place
Holding(t, place) == pc[t] = place /\ pidlist = t

Goto(t, place) == pc' = [pc EXCEPT ![t] = place]

\* Back to user mode: every return of my_syscall and interceptor.
Return(p) == /\ Goto(p, "user")
             /\ req' = [req EXCEPT ![p] = NoArgs]

\* A null pointer is followed: the process dies where it is.
Oops(p) == /\ Goto(p, "oops")
           /\ UNCHANGED <<table, sct, pidlist, calltable, req>>

-----------------------------------------------------------------------------
\* A process calls my_syscall; calls with a bad command or number return at once
\* and are left out.
Request(p) ==
    /\ p \in Callers
    /\ Entered
    /\ At(p, "user")
    /\ \E cmd \in Cmds, s \in Syscall, pid \in Pid :
          req' = [req EXCEPT ![p] = [cmd |-> cmd, sys |-> s, pid |-> pid]]
    /\ Goto(p, "args")
    /\ UNCHANGED <<table, sct, pidlist, calltable>>

\* The pid must exist, for all four commands; INTERCEPT and RELEASE are for root.
CheckArgs(p) ==
    /\ At(p, "args")
    /\ LET valid == req[p].pid = AllPids \/ Alive(req[p].pid)
           allowed == req[p].cmd \in {INTERCEPT, RELEASE} => p \in Root
       IN  IF ~valid \/ ~allowed THEN Return(p)
           ELSE /\ Goto(p, IF p \in Root THEN "context" ELSE "owner")
                /\ UNCHANGED req
    /\ UNCHANGED <<table, sct, pidlist, calltable>>

\* check_pid_from_list looks the pid up again and expects it to be there.
CheckOwner(p) ==
    /\ At(p, "owner")
    /\ \/ /\ req[p].pid = AllPids
          /\ Return(p)
          /\ UNCHANGED <<table, sct, pidlist, calltable>>
       \/ /\ Alive(req[p].pid)
          /\ IF Owner[req[p].pid] = Owner[p]
             THEN Goto(p, "context") /\ UNCHANGED req
             ELSE Return(p)
          /\ UNCHANGED <<table, sct, pidlist, calltable>>
       \/ /\ req[p].pid # AllPids /\ ~Alive(req[p].pid)
          /\ Oops(p)

\* The source holds both sides of a merge here.  They differ in whether STOP for
\* all pids skips the search for the pid (StopAllUnlisted) or fails it.
StopUnlisted(s, pid) ==
    ~check_pid_monitored(s, pid) /\ (StopAllUnlisted => pid # AllPids)

\* Mutations of Refused: without the check for RELEASE, INTERCEPT, START.
RefusedNotRelease(cmd, s, pid) ==
    \/ cmd = STOP /\ (StopUnlisted(s, pid) \/ ~table[s].intercepted)
    \/ cmd = INTERCEPT /\ table[s].intercepted
    \/ cmd = START /\ check_pid_monitored(s, pid)
RefusedNotIntercept(cmd, s, pid) ==
    \/ cmd = RELEASE /\ ~table[s].intercepted
    \/ cmd = STOP /\ (StopUnlisted(s, pid) \/ ~table[s].intercepted)
    \/ cmd = START /\ check_pid_monitored(s, pid)
RefusedNotStart(cmd, s, pid) ==
    \/ cmd = RELEASE /\ ~table[s].intercepted
    \/ cmd = STOP /\ (StopUnlisted(s, pid) \/ ~table[s].intercepted)
    \/ cmd = INTERCEPT /\ table[s].intercepted

\* -EINVAL or -EBUSY from the context of the command.
Refused(cmd, s, pid) ==
    \/ cmd = RELEASE /\ ~table[s].intercepted
    \/ cmd = STOP /\ (StopUnlisted(s, pid) \/ ~table[s].intercepted)
    \/ cmd = INTERCEPT /\ table[s].intercepted
    \/ cmd = START /\ check_pid_monitored(s, pid)

\* Where each command goes on once its context has been accepted.
CommandPlace(cmd) == CASE cmd = INTERCEPT -> "intercept"
                       [] cmd = RELEASE   -> "release"
                       [] cmd = START     -> "start"
                       [] cmd = STOP      -> "stop"

CheckContext(p) ==
    /\ Holding(p, "context")
    /\ LET r == req[p]
       IN  IF r.cmd \in {START, STOP} /\ ~ListReady(r.sys) THEN Oops(p)
           ELSE /\ IF Refused(r.cmd, r.sys, r.pid) THEN Return(p)
                   ELSE Goto(p, CommandPlace(r.cmd)) /\ UNCHANGED req
                /\ pidlist' = NoOne
                /\ UNCHANGED <<table, sct, calltable>>

-----------------------------------------------------------------------------
\* INTERCEPT, first under pidlist_lock: whatever is in the call table now is
\* saved as the original ...
Intercept(p) ==
    /\ Holding(p, "intercept")
    /\ table' = [table EXCEPT ![req[p].sys].intercepted = TRUE,
                              ![req[p].sys].f = sct[req[p].sys]]
    /\ pidlist' = NoOne
    /\ Goto(p, "hijack")
    /\ UNCHANGED <<sct, calltable, req>>

\* ... then under calltable_lock.
Hijack(p) ==
    /\ At(p, "hijack") /\ calltable = p
    /\ sct' = [sct EXCEPT ![req[p].sys] = "interceptor"]
    /\ calltable' = NoOne
    /\ Return(p)
    /\ UNCHANGED <<table, pidlist>>

\* RELEASE clears the flags under pidlist_lock and keeps it ...
Release(p) ==
    /\ Holding(p, "release")
    /\ table' = [table EXCEPT ![req[p].sys].intercepted = FALSE,
                              ![req[p].sys].monitored = 0]
    /\ Goto(p, "restore")
    /\ UNCHANGED <<sct, pidlist, calltable, req>>

\* Mutation of Restore: pidlist_lock is not released.
RestoreKeepsLock(p) ==
    /\ At(p, "restore") /\ calltable = p
    /\ sct' = [sct EXCEPT ![req[p].sys] = table[req[p].sys].f]
    /\ calltable' = NoOne
    /\ Return(p)
    /\ UNCHANGED <<table, pidlist>>

\* ... while it restores the call under calltable_lock.
Restore(p) ==
    /\ At(p, "restore") /\ calltable = p
    /\ sct' = [sct EXCEPT ![req[p].sys] = table[req[p].sys].f]
    /\ calltable' = NoOne
    /\ pidlist' = NoOne
    /\ Return(p)
    /\ UNCHANGED table

\* START for all pids sets the flag to 2 and then calls destroy_list.
StartedAll(e) == destroy_list([e EXCEPT !.monitored = 2])

\* START for one pid: added to the list, or taken out of it when the flag is 2;
\* kmalloc may fail after the flag is set.
StartedOne(e, p) ==
    IF e.monitored # 2
    THEN {add_pid_sysc([e EXCEPT !.monitored = 1], p), [e EXCEPT !.monitored = 1]}
    ELSE {IF e.my_list[p] > 0 THEN del_pid_sysc(e, p) ELSE e}

Start(p) ==
    /\ Holding(p, "start")
    /\ \E e \in IF req[p].pid = AllPids
                THEN {StartedAll(table[req[p].sys])}
                ELSE StartedOne(table[req[p].sys], req[p].pid) :
          table' = [table EXCEPT ![req[p].sys] = e]
    /\ pidlist' = NoOne
    /\ Return(p)
    /\ UNCHANGED <<sct, calltable>>

\* STOP for one pid sets the flag to 1 before it takes the pid out of the list,
\* also when the pid is no longer there.
StoppedOne(e, p) ==
    LET one == [e EXCEPT !.monitored = 1]
    IN  IF e.my_list[p] > 0 THEN del_pid_sysc(one, p) ELSE one

Stop(p) ==
    /\ Holding(p, "stop")
    /\ table' = [table EXCEPT ![req[p].sys] =
                    IF req[p].pid = AllPids THEN destroy_list(@)
                    ELSE StoppedOne(@, req[p].pid)]
    /\ pidlist' = NoOne
    /\ Return(p)
    /\ UNCHANGED <<sct, calltable>>

-----------------------------------------------------------------------------
\* A process makes a system call that the call table sends to interceptor; once
\* the module is gone there is no code there.  Other calls change nothing here.
CallSyscall(p) ==
    /\ At(p, "user")
    /\ \E s \in Syscall :
        /\ sct[s] = "interceptor"
        /\ req' = [req EXCEPT ![p] = [NoArgs EXCEPT !.sys = s]]
    /\ Goto(p, IF At(Loader, "removed") THEN "oops" ELSE "log")
    /\ UNCHANGED <<table, sct, pidlist, calltable>>

\* interceptor, with both locks, decides whether to log the call; neither that
\* nor the message changes anything.
Log(p) ==
    /\ Holding(p, "log") /\ calltable = p
    /\ pidlist' = NoOne
    /\ calltable' = NoOne
    /\ Goto(p, "call")
    /\ UNCHANGED <<table, sct, req>>

\* The saved original is called after the locks are released: it returns, or it
\* is interceptor itself.
CallOriginal(p) ==
    /\ At(p, "call")
    /\ CASE table[req[p].sys].f = "original"    -> Return(p)
         [] table[req[p].sys].f = "interceptor" -> Goto(p, "log") /\ UNCHANGED req
         [] table[req[p].sys].f = "none"        -> Goto(p, "oops") /\ UNCHANGED req
    /\ UNCHANGED <<table, sct, pidlist, calltable>>

\* A process calls exit_group.
Exit(p) ==
    /\ At(p, "user")
    /\ Goto(p, IF Entered THEN "exit" ELSE "dead")
    /\ UNCHANGED <<table, sct, pidlist, calltable, req>>

\* my_exit_group takes the pid out of the lists ...
ExitGroup(p) ==
    /\ Holding(p, "exit")
    /\ IF ~TableReady /\ DelPidRange # {} THEN Oops(p)
       ELSE /\ table' = [s \in Syscall |-> IF s \in DelPidRange
                                           THEN del_pid(table[s], p) ELSE table[s]]
            /\ pidlist' = NoOne
            /\ Goto(p, "gone")
            /\ UNCHANGED <<sct, calltable, req>>

\* ... and the original exit_group makes the process disappear.
Disappear(p) ==
    /\ At(p, "gone")
    /\ Goto(p, "dead")
    /\ UNCHANGED <<table, sct, pidlist, calltable, req>>

-----------------------------------------------------------------------------
\* init_function and exit_function; insmod and rmmod are the loader's choice.
Load ==
    /\ At(Loader, "unloaded")
    /\ Goto(Loader, "init_hijack")
    /\ UNCHANGED <<table, sct, pidlist, calltable, req>>

\* my_syscall and my_exit_group can be called from here on.
InitHijack ==
    /\ At(Loader, "init_hijack") /\ calltable = Loader
    /\ calltable' = NoOne
    /\ Goto(Loader, "init_table")
    /\ UNCHANGED <<table, sct, pidlist, req>>

\* f is not among the fields that are set.
InitialEntry(e) == [e EXCEPT !.my_list = EmptyList, !.listcount = 0,
                             !.monitored = 0, !.intercepted = FALSE]

InitTable ==
    /\ Holding(Loader, "init_table")
    /\ table' = [s \in Syscall |-> IF s \in InitRange
                                   THEN InitialEntry(table[s]) ELSE table[s]]
    /\ pidlist' = NoOne
    /\ Goto(Loader, "loaded")
    /\ UNCHANGED <<sct, calltable, req>>

Unload ==
    /\ ~LoadedAtStart
    /\ At(Loader, "loaded")
    /\ Goto(Loader, "exit_restore")
    /\ UNCHANGED <<table, sct, pidlist, calltable, req>>

ExitRestore ==
    /\ At(Loader, "exit_restore") /\ calltable = Loader
    /\ calltable' = NoOne
    /\ Goto(Loader, "exit_clear")
    /\ UNCHANGED <<table, sct, pidlist, req>>

\* exit_function empties the same entries; the call table is left as it is.
ExitClear ==
    /\ Holding(Loader, "exit_clear")
    /\ table' = [s \in Syscall |-> IF s \in InitRange
                    THEN InitialEntry(destroy_list(table[s])) ELSE table[s]]
    /\ pidlist' = NoOne
    /\ Goto(Loader, "removed")
    /\ UNCHANGED <<sct, calltable, req>>

\* A process that is still in the module when its code is gone may be lucky, and
\* go on, or die.
Unmapped(p) ==
    /\ At(Loader, "removed")
    /\ pc[p] \notin {"user", "gone", "dead", "oops"}
    /\ Oops(p)

Idle == (\A p \in Proc : pc[p] \in {"dead", "oops"}) /\ UNCHANGED vars

Command(p) ==
    \/ CheckArgs(p) \/ CheckOwner(p) \/ CheckContext(p)
    \/ Intercept(p) \/ Hijack(p)
    \/ Release(p) \/ Restore(p)
    \/ Start(p) \/ Stop(p)

\* What a process does once it is inside the module.
Run(p) == Command(p) \/ Log(p) \/ CallOriginal(p) \/ ExitGroup(p) \/ Disappear(p)

LoaderStep == InitHijack \/ InitTable \/ ExitRestore \/ ExitClear

Next ==
    \/ \E p \in Proc : Request(p) \/ CallSyscall(p) \/ Exit(p) \/ Run(p) \/ Unmapped(p)
    \/ \E t \in Task : LockPidlist(t) \/ LockCalltable(t)
    \/ Load \/ Unload \/ LoaderStep
    \/ Idle

Spec == Init /\ [][Next]_vars

\* A process in the module keeps running, and a spinlock that is released again
\* and again is got in the end by each process that spins for it.
FairSpec ==
    /\ Spec
    /\ \A p \in Proc : /\ WF_vars(Run(p))
                       /\ SF_vars(LockPidlist(p))
                       /\ SF_vars(LockCalltable(p))
-----------------------------------------------------------------------------
TypeOK ==
    /\ table \in [Syscall -> Entry]
    /\ sct \in [Syscall -> Handler]
    /\ {pidlist, calltable} \subseteq Task \union {NoOne}
    /\ pc \in [Task -> ProcPlace \union LoaderPlace]
    /\ req \in [Proc -> Args]

\* "Be careful to unlock any spinlocks you might be holding, before you exit the
\* function (including error cases!)" (interceptor.c:363): whoever holds a lock
\* is in code that runs under it, or died there; nobody returns or exits with it.
LocksAreReleased ==
    /\ pidlist # NoOne => \/ pc[pidlist] \in UnderPidlist \union {"oops"}
                          \/ pc[pidlist] = "restore"
                          \/ pc[pidlist] = "log" /\ calltable = pidlist
    /\ calltable # NoOne => pc[calltable] \in UnderCalltable \union {"oops"}

\* A system call that goes to interceptor has an original to go on to, also when
\* it was restored or intercepted again after the call came in.
InterceptorCanForward ==
    /\ \A s \in Syscall : sct[s] = "interceptor" => table[s].f # "none"
    /\ \A p \in Proc : pc[p] \in {"log", "call", "hijack", "restore"} =>
                            table[req[p].sys].f # "none"

\* The nodes of a list: the k-th one that holds pid p.
Nodes(my_list) == UNION {{p} \X (1 .. my_list[p]) : p \in Proc}

\* listcount, which decides when monitoring stops, is the number of nodes in the
\* list after any commands and exits.
ListCountMatches ==
    \A s \in Syscall : table[s].listcount = Cardinality(Nodes(table[s].my_list))

\* p is at this place on behalf of system call s; t goes from one place to another.
Serves(p, place, s) == pc[p] = place /\ req[p].sys = s
Goes(t, from, to) == pc[t] = from /\ pc'[t] = to

\* The books are right: what is saved is not the interceptor, the flag says
\* whether the call leads to interceptor, or what the process that is about to
\* write the call table will make of it, and whoever goes on to INTERCEPT a call
\* still finds it as it was when that was checked.
BooksAgree(s) ==
    /\ table[s].f # "interceptor"
    /\ \/ table[s].intercepted <=> sct[s] = "interceptor"
       \/ table[s].intercepted /\ \E p \in Proc : Serves(p, "hijack", s)
       \/ ~table[s].intercepted /\ \E p \in Proc : Serves(p, "restore", s)
    /\ \A p \in Proc :
        /\ Serves(p, "intercept", s) => ~table[s].intercepted
        /\ Serves(p, "hijack", s) => table[s].intercepted

\* The steps that overtake: an INTERCEPT that was let in beside another, a RELEASE
\* between the two halves of an INTERCEPT, and the loader, who clears the flags
\* when calls may be intercepted already, leaves them so when it goes, and takes
\* away the code under those who are in it.
Overtakes(s) ==
    \/ \E p, q \in Proc : /\ p # q
                          /\ Serves(p, "intercept", s) /\ pc'[p] = "hijack"
                          /\ Serves(q, "intercept", s)
    \/ \E p, q \in Proc : /\ Serves(p, "release", s) /\ pc'[p] = "restore"
                          /\ Serves(q, "hijack", s)
    \/ Goes(Loader, "init_table", "loaded")
    \/ Goes(Loader, "exit_clear", "removed")
    \/ pc[Loader] = "removed"

\* "Save the original system call" (interceptor.c:359) and "keep track of all the
\* metadata on what is being intercepted" (353): INTERCEPT acts on a check that
\* may be stale and writes the flag and the call table under different locks, but
\* no step other than those that overtake makes the books wrong.
OnlyOvertakingSpoilsBooks ==
    [][\A s \in Syscall : BooksAgree(s) => BooksAgree(s)' \/ Overtakes(s)]_vars

\* p is listed once at most, and a START that was let in for it still finds it absent.
ListedRight(s, p) ==
    /\ table[s].my_list[p] \in {0, 1}
    /\ \A t \in Proc : Serves(t, "start", s) /\ req[t].pid = p => table[s].my_list[p] = 0

\* "-EBUSY ... if monitoring a pid that is already being monitored"
\* (interceptor.c:349): only a START that was let in beside another one of the same
\* pid lists it twice, or lists it while the other is still to act.
OnlyRacingStartsListTwice ==
    [][\A s \in Syscall, p \in Proc :
        ListedRight(s, p) =>
            \/ ListedRight(s, p)'
            \/ \E t, u \in Proc : /\ t # u /\ req[t].pid = p /\ req[u].pid = p
                                  /\ Serves(t, "start", s) /\ pc'[t] = "user"
                                  /\ Serves(u, "start", s)]_vars

\* The flag tells whether pids are monitored: a system call with pids in its list
\* is monitored, and one monitored for some pids has some.
MonitoredAsListed(s) ==
    LET listed == \E p \in Proc : table[s].my_list[p] > 0
    IN  (listed => table[s].monitored # 0) /\ (table[s].monitored = 1 => listed)

\* "monitored=1 => some pids are monitored, check the corresponding my_list"
\* (interceptor.c:287): the two part only when RELEASE clears the flag and keeps the
\* list, and when a START without memory or a STOP that comes too late sets the flag
\* and changes no list.
MonitoringFollowsLists ==
    [][\A s \in Syscall :
        MonitoredAsListed(s) =>
            \/ MonitoredAsListed(s)'
            \/ \E p \in Proc :
                \/ Serves(p, "release", s) /\ pc'[p] = "restore"
                \/ /\ Serves(p, "start", s) \/ Serves(p, "stop", s)
                   /\ pc'[p] = "user" /\ req[p].pid # AllPids
                   /\ table'[s].my_list = table[s].my_list]_vars

\* A null pointer in the owner check, or a call of what was never saved, kills one
\* process; a lock dies with it, and with that lock the machine, only in the window
\* before the lists are initialised, in the last entry, or when the code is gone.
LocksDieOnlyUnready ==
    \A p \in Proc :
        pc[p] = "oops" /\ p \in {pidlist, calltable} =>
            pc[Loader] \in {"init_table", "removed"} \/ req[p].sys = NR_syscalls

\* "Remove the exiting process's pid from *all* syscall lists"
\* (interceptor.c:236): while the module is loaded, a process that has exited is
\* in no list.
DeadAreNotListed ==
    At(Loader, "loaded") =>
        \A p \in Proc, s \in Syscall : pc[p] = "dead" => table[s].my_list[p] = 0

\* p is listed for s although it is exiting and past my_exit_group, or has gone.
ListedGone(s, p) == pc[p] \in {"gone", "dead"} /\ table[s].my_list[p] > 0

\* While the module stays, a process that is on its way out is only put into a list
\* by a START that was let in for it before.
OnlyLateStartsListTheGone ==
    [][pc[Loader] \in {"init_table", "loaded", "exit_restore"} =>
        \A s \in Syscall, p \in Proc :
            ListedGone(s, p)' =>
                \/ ListedGone(s, p)
                \/ \E t \in Proc : /\ Serves(t, "start", s) /\ req[t].pid = p
                                   /\ pc[p] \in {"gone", "dead"}]_vars

\* A process without root is dead because the owner check looked for a pid that had
\* gone.
DiedInOwnerCheck(p) ==
    /\ p \notin Root /\ pc[p] = "oops"
    /\ req[p].pid # AllPids /\ ~Alive(req[p].pid)

\* "We allow processes to proceed as normal" (interceptor.c:293): whoever enters
\* the module by a command or an intercepted call comes back to user mode, all but
\* who dies in the owner check.
EveryCallReturns ==
    \A p \in Proc : pc[p] \in {"args", "log"} ~> pc[p] = "user" \/ DiedInOwnerCheck(p)
=============================================================================
