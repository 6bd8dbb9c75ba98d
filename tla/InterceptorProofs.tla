------------------------- MODULE InterceptorProofs --------------------------
(***************************************************************************)
(* Proofs about Interceptor, for any number of processes, system calls and *)
(* callers.                                                                *)
(***************************************************************************)
EXTENDS Interceptor, FiniteSetTheorems, TLAPS

\* What a process carries while it is inside the module: a command until its
\* context is accepted, and the number of a system call until it leaves.
RequestsOK ==
    \A p \in Proc :
        /\ pc[p] \in {"args", "owner", "context"} => req[p].cmd \in Cmds
        /\ pc[p] \in {"args", "owner", "context", "intercept", "hijack", "release",
                      "restore", "start", "stop", "log", "call"}
             => req[p].sys \in Syscall

\* The original of a system call is saved before anything leads to it: the flag,
\* the call table, and every process on its way to use what was saved.
Saved ==
    /\ \A s \in Syscall : table[s].intercepted => table[s].f # "none"
    /\ \A s \in Syscall : sct[s] = "interceptor" => table[s].f # "none"
    /\ \A p \in Proc : pc[p] \in {"log", "call", "hijack", "release", "restore"} =>
                            table[req[p].sys].f # "none"

TypeInv == TypeOK /\ RequestsOK

LEMMA EntryWithList ==
    ASSUME NEW e \in Entry, NEW l \in [Proc -> Int], NEW n \in Int
    PROVE  [e EXCEPT !.my_list = l, !.listcount = n] \in Entry
  BY DEF Entry

LEMMA EntryWithFlags ==
    ASSUME NEW e \in Entry, NEW m \in 0 .. 2, NEW b \in BOOLEAN
    PROVE  /\ [e EXCEPT !.monitored = m] \in Entry
           /\ [e EXCEPT !.intercepted = b] \in Entry
  BY DEF Entry

\* Every helper makes an entry of the table out of an entry.
LEMMA HelpersMakeEntries ==
    ASSUME NEW e \in Entry, NEW p \in Proc
    PROVE  /\ add_pid_sysc(e, p) \in Entry
           /\ del_pid_sysc(e, p) \in Entry
           /\ del_pid(e, p) \in Entry
<1> /\ e.my_list \in [Proc -> Int] /\ e.listcount \in Int
    /\ e.my_list[p] \in Int
  BY DEF Entry
<1>1. add_pid_sysc(e, p) \in Entry
  <2>1. /\ [e.my_list EXCEPT ![p] = e.my_list[p] + 1] \in [Proc -> Int]
        /\ e.listcount + 1 \in Int
    OBVIOUS
  <2>2. add_pid_sysc(e, p) = [e EXCEPT !.my_list = [e.my_list EXCEPT ![p] = e.my_list[p] + 1],
                            !.listcount = e.listcount + 1]
    BY DEF add_pid_sysc
  <2>3. [e EXCEPT !.my_list = [e.my_list EXCEPT ![p] = e.my_list[p] + 1],
                  !.listcount = e.listcount + 1] \in Entry
    BY <2>1, EntryWithList, Zenon
  <2>4. QED
    BY <2>2, <2>3, Zenon
<1>2. \A d \in Entry : Unmonitored(d) \in Entry
  <2> TAKE d \in Entry
  <2>1. (IF d.listcount = 0 /\ d.monitored = 1 THEN 0 ELSE d.monitored) \in 0 .. 2
    BY DEF Entry
  <2>2. QED
    BY <2>1, EntryWithFlags DEF Unmonitored
<1>3. [e EXCEPT !.my_list[p] = @ - 1, !.listcount = @ - 1] \in Entry
  <2>1. /\ [e.my_list EXCEPT ![p] = e.my_list[p] - 1] \in [Proc -> Int]
        /\ e.listcount - 1 \in Int
    OBVIOUS
  <2>2. [e EXCEPT !.my_list[p] = @ - 1, !.listcount = @ - 1] = [e EXCEPT !.my_list = [e.my_list EXCEPT ![p] = e.my_list[p] - 1],
                            !.listcount = e.listcount - 1]
    OBVIOUS
  <2>3. QED
    BY <2>1, <2>2, EntryWithList, Zenon
<1>4. [e EXCEPT !.my_list[p] = 0, !.listcount = @ - e.my_list[p]] \in Entry
  <2>1. /\ [e.my_list EXCEPT ![p] = 0] \in [Proc -> Int]
        /\ e.listcount - e.my_list[p] \in Int
    OBVIOUS
  <2>2. [e EXCEPT !.my_list[p] = 0, !.listcount = @ - e.my_list[p]] = [e EXCEPT !.my_list = [e.my_list EXCEPT ![p] = 0],
                            !.listcount = e.listcount - e.my_list[p]]
    OBVIOUS
  <2>3. QED
    BY <2>1, <2>2, EntryWithList, Zenon
<1>5. QED
  BY <1>1, <1>2, <1>3, <1>4 DEF del_pid_sysc, del_pid

LEMMA EmptiedEntries ==
    ASSUME NEW e \in Entry
    PROVE  /\ destroy_list(e) \in Entry
           /\ InitialEntry(e) \in Entry
<1>1. EmptyList \in [Proc -> Int]
  BY DEF EmptyList
<1>2. [e EXCEPT !.my_list = EmptyList, !.listcount = 0] \in Entry
  <2>1. 0 \in Int
    OBVIOUS
  <2>2. QED
    BY <1>1, <2>1, EntryWithList, Zenon
<1>3. 0 \in 0 .. 2 /\ FALSE \in BOOLEAN
  OBVIOUS
<1>4. destroy_list(e) = [[e EXCEPT !.my_list = EmptyList, !.listcount = 0]
                            EXCEPT !.monitored = 0]
  BY DEF destroy_list
<1>5. InitialEntry(e) = [[[e EXCEPT !.my_list = EmptyList, !.listcount = 0]
                            EXCEPT !.monitored = 0] EXCEPT !.intercepted = FALSE]
  BY DEF InitialEntry
<1>6. QED
  BY <1>2, <1>3, <1>4, <1>5, EntryWithFlags, Zenon

LEMMA StartedEntries ==
    ASSUME NEW e \in Entry, NEW p \in Proc
    PROVE  /\ StartedAll(e) \in Entry
           /\ StartedOne(e, p) \subseteq Entry
           /\ StoppedOne(e, p) \in Entry
<1>1. /\ [e EXCEPT !.monitored = 2] \in Entry
      /\ [e EXCEPT !.monitored = 1] \in Entry
  BY DEF Entry
<1>2. StartedAll(e) \in Entry
  BY <1>1, EmptiedEntries DEF StartedAll
<1>3. StartedOne(e, p) \subseteq Entry
  BY <1>1, HelpersMakeEntries DEF StartedOne
<1>4. StoppedOne(e, p) \in Entry
  BY <1>1, HelpersMakeEntries DEF StoppedOne
<1>5. QED
  BY <1>2, <1>3, <1>4

LEMMA InitTypeInv == Init => TypeInv
<1> SUFFICES ASSUME Init
             PROVE  TypeInv
  OBVIOUS
<1>1. ZeroEntry \in Entry
  BY DEF ZeroEntry, Entry, EmptyList
<1>2. NoArgs \in Args
  BY DEF NoArgs, Args, Pid
<1>3. pc \in [Task -> ProcPlace \union LoaderPlace]
  BY DEF Init, ProcPlace, LoaderPlace
<1>4. \A p \in Proc : pc[p] = "user"
  BY ProcAssumption DEF Init, Task
<1>5. QED
  BY <1>1, <1>2, <1>3, <1>4 DEF Init, TypeInv, TypeOK, RequestsOK, Handler

\* A task moves; its new place asks no more of req than what holds.
LEMMA MoveTypeInv ==
    ASSUME TypeInv, NEW t \in Task, NEW place \in ProcPlace \union LoaderPlace,
           Goto(t, place), UNCHANGED req,
           table' \in [Syscall -> Entry], sct' \in [Syscall -> Handler],
           {pidlist', calltable'} \subseteq Task \union {NoOne},
           \/ t \notin Proc
           \/ place \in {"user", "exit", "gone", "dead", "oops"}
           \/ /\ place \notin {"args", "owner", "context"}
              /\ req[t].sys \in Syscall
           \/ /\ req[t].cmd \in Cmds
              /\ req[t].sys \in Syscall
    PROVE  TypeInv'
<1>1. pc' \in [Task -> ProcPlace \union LoaderPlace]
  BY DEF Goto, TypeInv, TypeOK
<1>2. pc'[t] = place /\ \A u \in Task : u # t => pc'[u] = pc[u]
  BY DEF Goto, TypeInv, TypeOK
<1>3. RequestsOK'
  BY <1>2 DEF RequestsOK, TypeInv, Task
<1>4. QED
  BY <1>1, <1>3 DEF TypeInv, TypeOK

\* A process returns to user mode.
LEMMA ReturnTypeInv ==
    ASSUME TypeInv, NEW p \in Proc, Return(p),
           table' \in [Syscall -> Entry], sct' \in [Syscall -> Handler],
           {pidlist', calltable'} \subseteq Task \union {NoOne}
    PROVE  TypeInv'
<1>1. p \in Task
  BY DEF Task
<1>2. pc' \in [Task -> ProcPlace \union LoaderPlace]
  BY <1>1 DEF Return, Goto, TypeInv, TypeOK, ProcPlace
<1>3. pc'[p] = "user" /\ \A q \in Proc : q # p => pc'[q] = pc[q]
  BY <1>1 DEF Return, Goto, TypeInv, TypeOK, Task
<1>4. NoArgs \in Args
  BY DEF NoArgs, Args, Pid
<1>5. req' \in [Proc -> Args] /\ \A q \in Proc : q # p => req'[q] = req[q]
  BY <1>4 DEF Return, TypeInv, TypeOK
<1>6. RequestsOK'
  BY <1>3, <1>5 DEF RequestsOK, TypeInv
<1>7. QED
  BY <1>2, <1>5, <1>6 DEF TypeInv, TypeOK

\* The steps that only a process inside the module takes.
LEMMA RunTypeInv ==
    ASSUME TypeInv, Saved, NEW p \in Proc, Run(p)
    PROVE  TypeInv'
<1> USE DEF ProcPlace, LoaderPlace
<1>1. /\ p \in Task /\ NoOne \in Task \union {NoOne}
      /\ table \in [Syscall -> Entry] /\ sct \in [Syscall -> Handler]
      /\ {pidlist, calltable} \subseteq Task \union {NoOne}
      /\ req[p] \in Args
  BY DEF Task, TypeInv, TypeOK
<1>2. CASE CheckArgs(p)
  <2>1. /\ UNCHANGED <<table, sct, pidlist, calltable>>
        /\ req[p].cmd \in Cmds /\ req[p].sys \in Syscall
    BY <1>2 DEF CheckArgs, At, TypeInv, RequestsOK
  <2>2. \/ Return(p)
        \/ UNCHANGED req /\ (Goto(p, "context") \/ Goto(p, "owner"))
    BY <1>2 DEF CheckArgs
  <2>3. QED
    BY <1>1, <2>1, <2>2, MoveTypeInv, ReturnTypeInv
<1>3. CASE CheckOwner(p)
  <2>1. /\ UNCHANGED <<table, sct, pidlist, calltable>>
        /\ req[p].cmd \in Cmds /\ req[p].sys \in Syscall
    BY <1>3 DEF CheckOwner, At, Oops, TypeInv, RequestsOK
  <2>2. \/ Return(p)
        \/ UNCHANGED req /\ (Goto(p, "context") \/ Goto(p, "oops"))
    BY <1>3 DEF CheckOwner, Oops
  <2>3. QED
    BY <1>1, <2>1, <2>2, MoveTypeInv, ReturnTypeInv
<1>4. CASE CheckContext(p)
  <2>1. /\ UNCHANGED <<table, sct, calltable>>
        /\ pidlist' \in {pidlist, NoOne}
        /\ req[p].cmd \in Cmds /\ req[p].sys \in Syscall
    BY <1>4 DEF CheckContext, Holding, Oops, TypeInv, RequestsOK
  <2>2. \/ Return(p)
        \/ UNCHANGED req /\ (Goto(p, "oops") \/ Goto(p, CommandPlace(req[p].cmd)))
    BY <1>4 DEF CheckContext, Oops
  <2>3. CommandPlace(req[p].cmd) \in {"intercept", "release", "start", "stop"}
    BY <2>1, CmdsAssumption DEF CommandPlace, INTERCEPT, RELEASE, START, STOP
  <2>4. QED
    BY <1>1, <2>1, <2>2, <2>3, MoveTypeInv, ReturnTypeInv
<1>5. CASE Intercept(p)
  <2>1. /\ UNCHANGED <<sct, calltable, req>>
        /\ pidlist' = NoOne
        /\ req[p].sys \in Syscall
        /\ Goto(p, "hijack")
    BY <1>5 DEF Intercept, Holding, TypeInv, RequestsOK
  <2>2. table' \in [Syscall -> Entry]
    <3> DEFINE s == req[p].sys
    <3>1. [table[s] EXCEPT !.intercepted = TRUE, !.f = sct[s]] \in Entry
      BY <1>1, <2>1 DEF Entry
    <3>2. table' = [table EXCEPT ![s] = [table[s] EXCEPT !.intercepted = TRUE,
                                                         !.f = sct[s]]]
      BY <1>1, <1>5 DEF Intercept
    <3>3. QED
      BY <1>1, <3>1, <3>2
  <2>3. QED
    BY <1>1, <2>1, <2>2, MoveTypeInv
<1>6. CASE Hijack(p)
  <2>1. sct' \in [Syscall -> Handler]
    BY <1>1, <1>6 DEF Hijack, Handler
  <2>2. QED
    BY <1>1, <1>6, <2>1, ReturnTypeInv DEF Hijack
<1>7. CASE Release(p)
  <2>1. /\ UNCHANGED <<sct, pidlist, calltable, req>>
        /\ req[p].sys \in Syscall
        /\ Goto(p, "restore")
    BY <1>7 DEF Release, Holding, TypeInv, RequestsOK
  <2>2. table' \in [Syscall -> Entry]
    <3> DEFINE s == req[p].sys
    <3>1. [[table[s] EXCEPT !.intercepted = FALSE] EXCEPT !.monitored = 0] \in Entry
      <4>1. 0 \in 0 .. 2 /\ FALSE \in BOOLEAN /\ table[s] \in Entry
        BY <1>1, <2>1
      <4>2. QED
        BY <4>1, EntryWithFlags, Zenon
    <3>2. table' = [table EXCEPT ![s] = [[table[s] EXCEPT !.intercepted = FALSE]
                                            EXCEPT !.monitored = 0]]
      BY <1>1, <1>7 DEF Release
    <3>3. QED
      BY <1>1, <3>1, <3>2
  <2>3. QED
    BY <1>1, <2>1, <2>2, MoveTypeInv
<1>8. CASE Restore(p)
  <2>1. req[p].sys \in Syscall /\ table[req[p].sys].f # "none"
    BY <1>8 DEF Restore, At, TypeInv, RequestsOK, Saved
  <2>2. sct' \in [Syscall -> Handler]
    BY <1>1, <1>8, <2>1 DEF Restore, Entry
  <2>3. QED
    BY <1>1, <1>8, <2>2, ReturnTypeInv DEF Restore
<1>9. CASE Start(p)
  <2>1. /\ UNCHANGED <<sct, calltable>>
        /\ pidlist' = NoOne
        /\ req[p].sys \in Syscall
        /\ Return(p)
    BY <1>9 DEF Start, Holding, TypeInv, RequestsOK
  <2>2. req[p].pid # AllPids => req[p].pid \in Proc
    BY <1>1 DEF Args, Pid
  <2>3. PICK e \in IF req[p].pid = AllPids
                   THEN {StartedAll(table[req[p].sys])}
                   ELSE StartedOne(table[req[p].sys], req[p].pid) :
            table' = [table EXCEPT ![req[p].sys] = e]
    BY <1>9 DEF Start
  <2>4. e \in Entry
    BY <1>1, <2>1, <2>2, <2>3, StartedEntries
  <2>5. table' \in [Syscall -> Entry]
    BY <1>1, <2>3, <2>4
  <2>6. QED
    BY <1>1, <2>1, <2>5, ReturnTypeInv
<1>10. CASE Stop(p)
  <2>1. /\ UNCHANGED <<sct, calltable>>
        /\ pidlist' = NoOne
        /\ req[p].sys \in Syscall
        /\ Return(p)
    BY <1>10 DEF Stop, Holding, TypeInv, RequestsOK
  <2>2. req[p].pid # AllPids => req[p].pid \in Proc
    BY <1>1 DEF Args, Pid
  <2>3. /\ destroy_list(table[req[p].sys]) \in Entry
        /\ req[p].pid # AllPids => StoppedOne(table[req[p].sys], req[p].pid) \in Entry
    BY <1>1, <2>1, <2>2, EmptiedEntries, StartedEntries
  <2>4. table' \in [Syscall -> Entry]
    BY <1>1, <1>10, <2>3 DEF Stop
  <2>5. QED
    BY <1>1, <2>1, <2>4, ReturnTypeInv
<1>11. CASE Log(p)
  <2>1. req[p].sys \in Syscall
    BY <1>11 DEF Log, Holding, TypeInv, RequestsOK
  <2>2. QED
    BY <1>1, <1>11, <2>1, MoveTypeInv DEF Log
<1>12. CASE CallOriginal(p)
  <2>1. /\ UNCHANGED <<table, sct, pidlist, calltable>>
        /\ req[p].sys \in Syscall
    BY <1>12 DEF CallOriginal, At, TypeInv, RequestsOK
  <2>2. table[req[p].sys].f \in {"original", "interceptor", "none"}
    BY <1>1, <2>1 DEF Entry, Handler
  <2>3. Return(p) \/ (UNCHANGED req /\ (Goto(p, "log") \/ Goto(p, "oops")))
    BY <1>12, <2>2 DEF CallOriginal
  <2>4. QED
    BY <1>1, <2>1, <2>3, MoveTypeInv, ReturnTypeInv
<1>13. CASE ExitGroup(p)
  <2>1. CASE Oops(p)
    BY <1>1, <2>1, MoveTypeInv DEF Oops
  <2>2. CASE ~Oops(p)
    <3>1. \A s \in Syscall : del_pid(table[s], p) \in Entry
      BY <1>1, HelpersMakeEntries
    <3>2. table' \in [Syscall -> Entry]
      BY <1>1, <1>13, <2>2, <3>1 DEF ExitGroup
    <3>3. QED
      BY <1>1, <1>13, <2>2, <3>2, MoveTypeInv DEF ExitGroup
  <2>3. QED
    BY <2>1, <2>2
<1>14. CASE Disappear(p)
  BY <1>1, <1>14, MoveTypeInv DEF Disappear
<1>15. QED
  BY <1>2, <1>3, <1>4, <1>5, <1>6, <1>7, <1>8, <1>9, <1>10, <1>11, <1>12, <1>13,
     <1>14 DEF Run, Command

LEMMA NextTypeInv ==
    ASSUME TypeInv, Saved, [Next]_vars
    PROVE  TypeInv'
<1> USE DEF ProcPlace, LoaderPlace
<1>1. /\ table \in [Syscall -> Entry] /\ sct \in [Syscall -> Handler]
      /\ {pidlist, calltable} \subseteq Task \union {NoOne}
      /\ req \in [Proc -> Args] /\ pc \in [Task -> ProcPlace \union LoaderPlace]
      /\ Loader \in Task /\ Proc \subseteq Task
      /\ Loader \notin Proc
  BY ProcAssumption DEF Task, TypeInv, TypeOK
<1>2. ASSUME NEW p \in Proc, Request(p) \/ CallSyscall(p)
      PROVE  TypeInv'
  <2>1. UNCHANGED <<table, sct, pidlist, calltable>>
    BY <1>2 DEF Request, CallSyscall
  <2>2. PICK r \in Args : /\ req' = [req EXCEPT ![p] = r]
                          /\ r.sys \in Syscall
                          /\ Request(p) => r.cmd \in Cmds
    <3>1. CASE Request(p)
      <4>1. PICK cmd \in Cmds, s \in Syscall, pid \in Pid :
                req' = [req EXCEPT ![p] = [cmd |-> cmd, sys |-> s, pid |-> pid]]
        BY <3>1 DEF Request
      <4>2. [cmd |-> cmd, sys |-> s, pid |-> pid] \in Args
        BY DEF Args
      <4>3. QED
        BY <4>1, <4>2
    <3>2. CASE ~Request(p)
      <4>1. PICK s \in Syscall : req' = [req EXCEPT ![p] = [NoArgs EXCEPT !.sys = s]]
        BY <1>2, <3>2 DEF CallSyscall
      <4>2. [NoArgs EXCEPT !.sys = s] = [cmd |-> "none", sys |-> s, pid |-> AllPids]
        BY DEF NoArgs
      <4>3. [cmd |-> "none", sys |-> s, pid |-> AllPids] \in Args
        BY DEF Args, Pid
      <4>4. QED
        BY <3>2, <4>1, <4>2, <4>3
    <3>3. QED
      BY <3>1, <3>2
  <2>3. /\ Goto(p, "args") \/ Goto(p, "oops") \/ Goto(p, "log")
        /\ Goto(p, "args") => Request(p)
    BY <1>1, <1>2 DEF Request, CallSyscall, Goto
  <2>4. /\ pc'[p] \in {"args", "oops", "log"}
        /\ pc'[p] = "args" => Request(p)
        /\ \A q \in Proc : q # p => pc'[q] = pc[q] /\ req'[q] = req[q]
        /\ req'[p] = r
        /\ pc' \in [Task -> ProcPlace \union LoaderPlace]
        /\ req' \in [Proc -> Args]
    BY <1>1, <2>2, <2>3 DEF Goto
  <2>5. RequestsOK'
    BY <2>2, <2>4 DEF RequestsOK, TypeInv
  <2>6. QED
    BY <1>1, <2>1, <2>4, <2>5 DEF TypeInv, TypeOK
<1>3. ASSUME NEW p \in Proc, Exit(p) \/ Unmapped(p)
      PROVE  TypeInv'
  <2>1. /\ UNCHANGED <<table, sct, pidlist, calltable, req>>
        /\ Goto(p, "exit") \/ Goto(p, "dead") \/ Goto(p, "oops")
    BY <1>3 DEF Exit, Unmapped, Oops
  <2>2. QED
    BY <1>1, <2>1, MoveTypeInv
<1>4. ASSUME NEW p \in Proc, Run(p)
      PROVE  TypeInv'
  BY <1>4, RunTypeInv
<1>5. ASSUME NEW t \in Task, LockPidlist(t) \/ LockCalltable(t)
      PROVE  TypeInv'
  BY <1>1, <1>5 DEF LockPidlist, LockCalltable, TypeInv, TypeOK, RequestsOK
<1>6. CASE Load \/ Unload \/ InitHijack \/ ExitRestore
  <2>1. /\ UNCHANGED <<table, sct, pidlist, req>>
        /\ calltable' \in {calltable, NoOne}
        /\ \E place \in LoaderPlace : Goto(Loader, place)
    BY <1>6 DEF Load, Unload, InitHijack, ExitRestore
  <2>2. QED
    BY <1>1, <2>1, MoveTypeInv
<1>7. CASE InitTable \/ ExitClear
  <2>1. /\ UNCHANGED <<sct, calltable, req>>
        /\ pidlist' = NoOne
        /\ \E place \in LoaderPlace : Goto(Loader, place)
    BY <1>7 DEF InitTable, ExitClear
  <2>2. \A s \in Syscall : /\ InitialEntry(table[s]) \in Entry
                           /\ InitialEntry(destroy_list(table[s])) \in Entry
    BY <1>1, EmptiedEntries
  <2>3. table' \in [Syscall -> Entry]
    BY <1>1, <1>7, <2>2 DEF InitTable, ExitClear
  <2>4. QED
    BY <1>1, <2>1, <2>3, MoveTypeInv
<1>8. CASE UNCHANGED vars
  BY <1>8 DEF vars, TypeInv, TypeOK, RequestsOK
<1>9. QED
  BY <1>2, <1>3, <1>4, <1>5, <1>6, <1>7, <1>8 DEF Next, LoaderStep, Idle

\* No helper touches what was saved, and none sets the flag.
KeepsSaved(e, d) == d.f = e.f /\ (d.intercepted => e.intercepted)

LEMMA HelpersKeepSaved ==
    ASSUME NEW e \in Entry, NEW p \in Proc
    PROVE  /\ KeepsSaved(e, del_pid(e, p))
           /\ KeepsSaved(e, InitialEntry(e))
           /\ KeepsSaved(e, InitialEntry(destroy_list(e)))
           /\ KeepsSaved(e, destroy_list(e))
           /\ KeepsSaved(e, StartedAll(e))
           /\ KeepsSaved(e, StoppedOne(e, p))
           /\ \A d \in StartedOne(e, p) : KeepsSaved(e, d)
<1> USE DEF KeepsSaved, Entry
<1>1. KeepsSaved(e, del_pid(e, p))
  BY DEF del_pid, Unmonitored
<1>2. KeepsSaved(e, destroy_list(e)) /\ KeepsSaved(e, InitialEntry(e))
  BY DEF destroy_list, InitialEntry
<1>3. KeepsSaved(e, InitialEntry(destroy_list(e)))
  BY DEF destroy_list, InitialEntry
<1>4. KeepsSaved(e, StartedAll(e))
  BY DEF destroy_list, StartedAll
<1>5. KeepsSaved(e, StoppedOne(e, p))
  BY DEF StoppedOne, del_pid_sysc, Unmonitored
<1>6. \A d \in StartedOne(e, p) : KeepsSaved(e, d)
  BY DEF StartedOne, add_pid_sysc, del_pid_sysc, Unmonitored
<1>7. QED
  BY <1>1, <1>2, <1>3, <1>4, <1>5, <1>6

Forwarding == {"log", "call", "hijack", "release", "restore"}

\* One task moves, and its new place, the flags and the call table only rely on
\* originals that are saved.
LEMMA MoveSaved ==
    ASSUME TypeInv, Saved, NEW t \in Task,
           \A u \in Task : u # t => pc'[u] = pc[u],
           \A q \in Proc : q # t => req'[q] = req[q],
           \A s \in Syscall : table[s].f # "none" => table'[s].f # "none",
           \A s \in Syscall : table'[s].intercepted =>
                                table[s].intercepted \/ table'[s].f # "none",
           \A s \in Syscall : sct'[s] = "interceptor" =>
                                sct[s] = "interceptor" \/ table'[s].f # "none",
           t \in Proc /\ pc'[t] \in Forwarding =>
                                table'[req'[t].sys].f # "none"
    PROVE  Saved'
<1>1. ASSUME NEW q \in Proc, pc'[q] \in Forwarding
      PROVE  table'[req'[q].sys].f # "none"
  <2>1. CASE q = t
    BY <1>1, <2>1
  <2>2. CASE q # t
    <3>1. pc[q] \in Forwarding /\ req'[q] = req[q]
      BY <1>1, <2>2 DEF Task
    <3>2. req[q].sys \in Syscall /\ table[req[q].sys].f # "none"
      BY <3>1 DEF Forwarding, Saved, TypeInv, RequestsOK
    <3>3. QED
      BY <3>1, <3>2
  <2>3. QED
    BY <2>1, <2>2
<1>2. QED
  BY <1>1 DEF Saved, Forwarding

LEMMA RunSaved ==
    ASSUME TypeInv, Saved, NEW p \in Proc, Run(p)
    PROVE  Saved'
<1> USE DEF Forwarding
<1>1. /\ table \in [Syscall -> Entry] /\ sct \in [Syscall -> Handler]
      /\ req \in [Proc -> Args] /\ pc \in [Task -> ProcPlace \union LoaderPlace]
      /\ p \in Task
  BY DEF Task, TypeInv, TypeOK
<1>2. \A place : Goto(p, place) => /\ pc'[p] = place
                                   /\ \A u \in Task : u # p => pc'[u] = pc[u]
  BY <1>1 DEF Goto
<1>3. Return(p) => /\ pc'[p] = "user"
                   /\ \A u \in Task : u # p => pc'[u] = pc[u]
                   /\ \A q \in Proc : q # p => req'[q] = req[q]
  BY <1>1, <1>2 DEF Return
<1>4. CASE CheckArgs(p) \/ CheckOwner(p) \/ Disappear(p)
  <2>1. /\ UNCHANGED <<table, sct>>
        /\ \/ Return(p)
           \/ /\ UNCHANGED req
              /\ \E place \in {"context", "owner", "oops", "dead"} : Goto(p, place)
    BY <1>4 DEF CheckArgs, CheckOwner, Disappear, Oops
  <2>2. QED
    BY <1>1, <1>2, <1>3, <2>1, MoveSaved
<1>5. CASE CheckContext(p)
  <2>1. /\ UNCHANGED <<table, sct>>
        /\ \/ Return(p)
           \/ UNCHANGED req /\ Goto(p, "oops")
           \/ /\ UNCHANGED req
              /\ Goto(p, CommandPlace(req[p].cmd))
              /\ ~Refused(req[p].cmd, req[p].sys, req[p].pid)
    BY <1>5 DEF CheckContext, Oops
  <2>2. req[p].cmd \in Cmds /\ req[p].sys \in Syscall
    BY <1>5 DEF CheckContext, Holding, TypeInv, RequestsOK
  <2>3. /\ CommandPlace(req[p].cmd) \in {"intercept", "release", "start", "stop"}
        /\ CommandPlace(req[p].cmd) = "release" => req[p].cmd = RELEASE
    BY <2>2, CmdsAssumption DEF CommandPlace, INTERCEPT, RELEASE, START, STOP
  <2>4. ~Refused(req[p].cmd, req[p].sys, req[p].pid) =>
            (CommandPlace(req[p].cmd) = "release" => table[req[p].sys].f # "none")
    BY <2>2, <2>3 DEF Refused, Saved
  <2>5. QED
    BY <1>1, <1>2, <1>3, <2>1, <2>3, <2>4, MoveSaved
<1>6. CASE Intercept(p)
  <2> DEFINE s == req[p].sys
  <2>1. UNCHANGED <<sct, req>> /\ Goto(p, "hijack") /\ s \in Syscall
    BY <1>6 DEF Intercept, Holding, TypeInv, RequestsOK
  <2>2. table' = [table EXCEPT ![s] = [table[s] EXCEPT !.intercepted = TRUE,
                                                       !.f = sct[s]]]
    BY <1>1, <1>6 DEF Intercept
  <2>3. sct[s] \in Handler /\ sct[s] # "none"
    BY <1>1, <2>1 DEF Handler
  <2>4. table'[s].f = sct[s] /\ \A r \in Syscall : r # s => table'[r] = table[r]
    BY <1>1, <2>1, <2>2 DEF Entry
  <2>5. QED
    BY <1>1, <1>2, <2>1, <2>3, <2>4, MoveSaved
<1>7. CASE Hijack(p)
  <2> DEFINE s == req[p].sys
  <2>1. /\ table' = table /\ sct' = [sct EXCEPT ![s] = "interceptor"]
        /\ s \in Syscall /\ table[s].f # "none" /\ Return(p)
    BY <1>7 DEF Hijack, At, TypeInv, RequestsOK, Saved
  <2>2. QED
    BY <1>1, <1>3, <2>1, MoveSaved
<1>8. CASE Release(p)
  <2> DEFINE s == req[p].sys
  <2>1. /\ UNCHANGED <<sct, req>> /\ Goto(p, "restore")
        /\ s \in Syscall /\ table[s].f # "none"
    BY <1>8 DEF Release, Holding, TypeInv, RequestsOK, Saved
  <2>2. table' = [table EXCEPT ![s] = [table[s] EXCEPT !.intercepted = FALSE,
                                                       !.monitored = 0]]
    BY <1>1, <1>8 DEF Release
  <2>3. /\ table'[s].f = table[s].f /\ ~table'[s].intercepted
        /\ \A r \in Syscall : r # s => table'[r] = table[r]
    BY <1>1, <2>1, <2>2 DEF Entry
  <2>4. QED
    BY <1>1, <1>2, <2>1, <2>3, MoveSaved
<1>9. CASE Restore(p)
  <2> DEFINE s == req[p].sys
  <2>1. /\ table' = table /\ sct' = [sct EXCEPT ![s] = table[s].f]
        /\ s \in Syscall /\ table[s].f # "none" /\ Return(p)
    BY <1>9 DEF Restore, At, TypeInv, RequestsOK, Saved
  <2>2. QED
    BY <1>1, <1>3, <2>1, MoveSaved
<1>10. CASE Start(p) \/ Stop(p)
  <2> DEFINE s == req[p].sys
  <2>1. sct' = sct /\ s \in Syscall /\ Return(p) /\ table[s] \in Entry
    BY <1>1, <1>10 DEF Start, Stop, Holding, TypeInv, RequestsOK
  <2>2. req[p].pid # AllPids => req[p].pid \in Proc
    BY <1>1 DEF Args, Pid
  <2>3. PICK d : KeepsSaved(table[s], d) /\ table' = [table EXCEPT ![s] = d]
    <3>1. CASE Start(p)
      <4>1. PICK d \in IF req[p].pid = AllPids THEN {StartedAll(table[s])}
                       ELSE StartedOne(table[s], req[p].pid) :
                table' = [table EXCEPT ![s] = d]
        BY <3>1 DEF Start
      <4>2. KeepsSaved(table[s], d)
        BY <2>1, <2>2, <4>1, HelpersKeepSaved
      <4>3. QED
        BY <4>1, <4>2
    <3>2. CASE Stop(p)
      <4>1. \/ table' = [table EXCEPT ![s] = destroy_list(table[s])]
            \/ /\ req[p].pid # AllPids
               /\ table' = [table EXCEPT ![s] = StoppedOne(table[s], req[p].pid)]
        BY <3>2 DEF Stop
      <4>2. QED
        BY <2>1, <2>2, <4>1, HelpersKeepSaved
    <3>3. QED
      BY <1>10, <3>1, <3>2
  <2>4. /\ table'[s].f = table[s].f
        /\ (table'[s].intercepted => table[s].intercepted)
        /\ \A r \in Syscall : r # s => table'[r] = table[r]
    BY <1>1, <2>1, <2>3 DEF KeepsSaved
  <2>5. QED
    BY <1>1, <1>3, <2>1, <2>4, MoveSaved
<1>11. CASE Log(p) \/ CallOriginal(p)
  <2>1. /\ UNCHANGED <<table, sct>>
        /\ req[p].sys \in Syscall /\ table[req[p].sys].f # "none"
    BY <1>11 DEF Log, Holding, CallOriginal, At, TypeInv, RequestsOK, Saved
  <2>2. table[req[p].sys].f \in {"original", "interceptor"}
    BY <1>1, <2>1 DEF Entry, Handler
  <2>3. \/ Return(p)
        \/ UNCHANGED req /\ (Goto(p, "call") \/ Goto(p, "log"))
    BY <1>11, <2>2 DEF Log, CallOriginal
  <2>4. QED
    BY <1>1, <1>2, <1>3, <2>1, <2>3, MoveSaved
<1>12. CASE ExitGroup(p)
  <2>1. /\ UNCHANGED <<sct, req>>
        /\ \/ table' = table /\ Goto(p, "oops")
           \/ /\ table' = [s \in Syscall |-> IF s \in DelPidRange
                                THEN del_pid(table[s], p) ELSE table[s]]
              /\ Goto(p, "gone")
    BY <1>12 DEF ExitGroup, Oops
  <2>2. \A s \in Syscall : KeepsSaved(table[s], table'[s])
    BY <1>1, <2>1, HelpersKeepSaved DEF KeepsSaved
  <2>3. QED
    BY <1>1, <1>2, <2>1, <2>2, MoveSaved DEF KeepsSaved
<1>13. QED
  BY <1>4, <1>5, <1>6, <1>7, <1>8, <1>9, <1>10, <1>11, <1>12 DEF Run, Command

LEMMA NextSaved ==
    ASSUME TypeInv, Saved, [Next]_vars
    PROVE  Saved'
<1> USE DEF Forwarding
<1>1. /\ table \in [Syscall -> Entry] /\ sct \in [Syscall -> Handler]
      /\ req \in [Proc -> Args] /\ pc \in [Task -> ProcPlace \union LoaderPlace]
      /\ Loader \in Task /\ Proc \subseteq Task /\ Loader \notin Proc
  BY ProcAssumption DEF Task, TypeInv, TypeOK
<1>2. \A t \in Task : \A place :
          Goto(t, place) => /\ pc'[t] = place
                            /\ \A u \in Task : u # t => pc'[u] = pc[u]
  BY <1>1 DEF Goto
<1>3. ASSUME NEW p \in Proc, Request(p)
      PROVE  Saved'
  <2>1. /\ UNCHANGED <<table, sct>> /\ Goto(p, "args")
        /\ \A q \in Proc : q # p => req'[q] = req[q]
    BY <1>1, <1>3 DEF Request
  <2>2. QED
    BY <1>1, <1>2, <2>1, MoveSaved
<1>4. ASSUME NEW p \in Proc, CallSyscall(p)
      PROVE  Saved'
  <2>1. PICK s \in Syscall :
            /\ sct[s] = "interceptor"
            /\ req' = [req EXCEPT ![p] = [NoArgs EXCEPT !.sys = s]]
    BY <1>4 DEF CallSyscall
  <2>2. /\ UNCHANGED <<table, sct>> /\ (Goto(p, "oops") \/ Goto(p, "log"))
        /\ \A q \in Proc : q # p => req'[q] = req[q]
        /\ req'[p].sys = s
    BY <1>1, <1>4, <2>1 DEF CallSyscall, NoArgs
  <2>3. table[s].f # "none"
    BY <2>1 DEF Saved
  <2>4. QED
    BY <1>1, <1>2, <2>2, <2>3, MoveSaved
<1>5. ASSUME NEW p \in Proc, Exit(p) \/ Unmapped(p)
      PROVE  Saved'
  <2>1. /\ UNCHANGED <<table, sct, req>>
        /\ \E place \in {"exit", "dead", "oops"} : Goto(p, place)
    BY <1>5 DEF Exit, Unmapped, Oops
  <2>2. QED
    BY <1>1, <1>2, <2>1, MoveSaved
<1>6. ASSUME NEW p \in Proc, Run(p)
      PROVE  Saved'
  BY <1>6, RunSaved
<1>7. ASSUME NEW t \in Task, LockPidlist(t) \/ LockCalltable(t)
      PROVE  Saved'
  BY <1>7 DEF LockPidlist, LockCalltable, Saved
<1>8. CASE Load \/ Unload \/ LoaderStep
  <2>1. /\ UNCHANGED <<sct, req>>
        /\ \E place \in LoaderPlace : Goto(Loader, place)
    BY <1>8 DEF Load, Unload, LoaderStep, InitHijack, InitTable, ExitRestore,
                ExitClear, LoaderPlace
  <2>2. \A s \in Syscall : KeepsSaved(table[s], table'[s])
    <3>1. CASE UNCHANGED table
      BY <3>1 DEF KeepsSaved
    <3>2. CASE InitTable \/ ExitClear
      <4>1. \A s \in Syscall : /\ KeepsSaved(table[s], InitialEntry(table[s]))
                               /\ KeepsSaved(table[s], InitialEntry(destroy_list(table[s])))
                               /\ KeepsSaved(table[s], table[s])
        <5>1. ASSUME NEW s \in Syscall
              PROVE  /\ KeepsSaved(table[s], InitialEntry(table[s]))
                     /\ KeepsSaved(table[s], InitialEntry(destroy_list(table[s])))
          BY <1>1 DEF KeepsSaved, Entry, InitialEntry, destroy_list
        <5>2. QED
          BY <5>1 DEF KeepsSaved
      <4>2. QED
        BY <1>1, <3>2, <4>1 DEF InitTable, ExitClear
    <3>3. QED
      BY <1>8, <3>1, <3>2 DEF Load, Unload, LoaderStep, InitHijack, ExitRestore
  <2>3. QED
    BY <1>1, <1>2, <2>1, <2>2, MoveSaved DEF KeepsSaved
<1>9. CASE UNCHANGED vars
  BY <1>9 DEF vars, Saved
<1>10. QED
  BY <1>3, <1>4, <1>5, <1>6, <1>7, <1>8, <1>9 DEF Next, Idle

LEMMA InitSaved == Init => Saved
<1> SUFFICES ASSUME Init
             PROVE  Saved
  OBVIOUS
<1>1. \A p \in Proc : pc[p] = "user"
  BY ProcAssumption DEF Init, Task
<1>2. QED
  BY <1>1 DEF Init, Saved, ZeroEntry

\* The inductive invariant: LocksAreReleased needs only the types added to it.
IInv == TypeInv /\ Saved /\ LocksAreReleased

LEMMA InitLocks == Init => LocksAreReleased
  BY DEF Init, LocksAreReleased

\* A step that takes a lock.
LEMMA LockLocks ==
    ASSUME IInv, NEW t \in Task, LockPidlist(t) \/ LockCalltable(t)
    PROVE  LocksAreReleased'
<1>1. CASE LockPidlist(t)
  BY <1>1 DEF LockPidlist, WantsPidlist, IInv, TypeInv, TypeOK, LocksAreReleased
<1>2. CASE LockCalltable(t)
  BY <1>2 DEF LockCalltable, WantsCalltable, IInv, TypeInv, TypeOK, LocksAreReleased
<1>3. QED
  BY <1>1, <1>2

\* A process that moves from a place without locks, and leaves the locks alone.
LEMMA MoveLocks ==
    ASSUME IInv, NEW t \in Task, NEW place \in ProcPlace \union LoaderPlace,
           Goto(t, place), UNCHANGED <<pidlist, calltable>>,
           \/ place = "oops"
           \/ pc[t] \notin UnderPidlist \union UnderCalltable \union {"oops"}
    PROVE  LocksAreReleased'
<1>1. pc'[t] = place /\ \A u \in Task : u # t => pc'[u] = pc[u]
  BY DEF Goto, IInv, TypeInv, TypeOK
<1>2. QED
  BY <1>1 DEF IInv, TypeInv, TypeOK, LocksAreReleased, UnderPidlist, UnderCalltable

\* A task that holds pidlist_lock moves on and releases it, and calltable_lock too
\* if it holds that one.
LEMMA ReleaseLocks ==
    ASSUME IInv, NEW t \in Task, NEW place \in ProcPlace \union LoaderPlace,
           Goto(t, place),
           pidlist' = NoOne /\ (pidlist = t \/ pidlist = NoOne \/ pc[pidlist] = "oops"),
           calltable' = calltable \/ calltable' = NoOne,
           calltable' # t
    PROVE  LocksAreReleased'
<1>1. pc'[t] = place /\ \A u \in Task : u # t => pc'[u] = pc[u]
  BY DEF Goto, IInv, TypeInv, TypeOK
<1>2. QED
  BY <1>1 DEF IInv, TypeInv, TypeOK, LocksAreReleased

\* The commands, the calls and the exits of process p.
LEMMA RunLocks ==
    ASSUME IInv, NEW p \in Proc, Run(p)
    PROVE  LocksAreReleased'
<1> p \in Task
  BY DEF Task
<1> USE DEF ProcPlace, LoaderPlace
<1>1. CASE CheckArgs(p)
  <2>1. Goto(p, "user") \/ Goto(p, "context") \/ Goto(p, "owner")
    BY <1>1 DEF CheckArgs, Return
  <2>2. QED
    BY <1>1, <2>1, MoveLocks DEF CheckArgs, At, UnderPidlist, UnderCalltable
<1>2. CASE CheckOwner(p)
  <2>1. Goto(p, "user") \/ Goto(p, "context") \/ Goto(p, "oops")
    BY <1>2 DEF CheckOwner, Return, Oops
  <2>2. UNCHANGED <<pidlist, calltable>>
    BY <1>2 DEF CheckOwner, Oops
  <2>3. QED
    BY <1>2, <2>1, <2>2, MoveLocks DEF CheckOwner, At, UnderPidlist, UnderCalltable
<1>3. CASE CheckContext(p)
  <2>1. CASE Oops(p)
    BY <2>1, MoveLocks DEF Oops
  <2>2. CASE ~Oops(p)
    <3>1. /\ pidlist = p /\ pidlist' = NoOne /\ calltable' = calltable
          /\ pc[p] = "context"
      BY <1>3, <2>2 DEF CheckContext, Holding
    <3>2. \/ Goto(p, "user")
          \/ \E place \in {"intercept", "release", "start", "stop"} : Goto(p, place)
      <4>1. \/ Return(p)
            \/ Goto(p, CommandPlace(req[p].cmd))
        BY <1>3, <2>2 DEF CheckContext
      <4>2. req[p].cmd \in Cmds
        BY <3>1 DEF IInv, TypeInv, RequestsOK
      <4>3. CommandPlace(req[p].cmd) \in {"intercept", "release", "start", "stop"}
        BY <4>2, CmdsAssumption DEF CommandPlace, INTERCEPT, RELEASE, START, STOP
      <4>4. QED
        BY <4>1, <4>3 DEF Return
    <3>3. calltable' # p
      BY <3>1, ProcAssumption DEF IInv, LocksAreReleased, UnderCalltable
    <3>4. QED
      BY <3>1, <3>2, <3>3, ReleaseLocks
  <2>3. QED
    BY <2>1, <2>2
<1>4. CASE Intercept(p) \/ Start(p) \/ Stop(p)
  <2>1. /\ pidlist = p /\ pidlist' = NoOne /\ calltable' = calltable
        /\ pc[p] \in {"intercept", "start", "stop"}
        /\ Goto(p, "hijack") \/ Goto(p, "user")
    BY <1>4 DEF Intercept, Start, Stop, Holding, Return
  <2>2. calltable' # p
    BY <2>1, ProcAssumption DEF IInv, LocksAreReleased, UnderCalltable
  <2>3. QED
    BY <2>1, <2>2, ReleaseLocks
<1>5. CASE Hijack(p)
  BY <1>5 DEF Hijack, At, Return, Goto, IInv, TypeInv, TypeOK, LocksAreReleased,
              UnderPidlist, UnderCalltable
<1>6. CASE Release(p)
  BY <1>6 DEF Release, Holding, Goto, IInv, TypeInv, TypeOK, LocksAreReleased,
              UnderPidlist, UnderCalltable
<1>7. CASE Restore(p)
  BY <1>7 DEF Restore, At, Return, Goto, IInv, TypeInv, TypeOK, LocksAreReleased
<1>8. CASE Log(p)
  BY <1>8 DEF Log, Holding, Goto, IInv, TypeInv, TypeOK, LocksAreReleased
<1>9. CASE CallOriginal(p)
  <2>1. Goto(p, "user") \/ Goto(p, "log") \/ Goto(p, "oops")
    <3>1. table[req[p].sys].f \in {"original", "interceptor", "none"}
      BY <1>9 DEF CallOriginal, At, IInv, TypeInv, RequestsOK, TypeOK, Entry, Handler
    <3>2. QED
      BY <1>9, <3>1 DEF CallOriginal, Return
  <2>2. QED
    BY <1>9, <2>1, MoveLocks DEF CallOriginal, At, UnderPidlist, UnderCalltable
<1>10. CASE ExitGroup(p)
  <2>1. CASE Oops(p)
    BY <2>1, MoveLocks DEF Oops
  <2>2. CASE ~Oops(p)
    <3>1. /\ pidlist = p /\ pidlist' = NoOne /\ calltable' = calltable
          /\ pc[p] = "exit" /\ Goto(p, "gone")
      BY <1>10, <2>2 DEF ExitGroup, Holding
    <3>2. calltable' # p
      BY <3>1, ProcAssumption DEF IInv, LocksAreReleased, UnderCalltable
    <3>3. QED
      BY <3>1, <3>2, ReleaseLocks
  <2>3. QED
    BY <2>1, <2>2
<1>11. CASE Disappear(p)
  BY <1>11, MoveLocks DEF Disappear, At, UnderPidlist, UnderCalltable
<1>12. QED
  BY <1>1, <1>2, <1>3, <1>4, <1>5, <1>6, <1>7, <1>8, <1>9, <1>10, <1>11
     DEF Run, Command

\* The steps of the loader.
LEMMA LoaderLocks ==
    ASSUME IInv, Load \/ Unload \/ LoaderStep
    PROVE  LocksAreReleased'
<1> Loader \in Task
  BY DEF Task
<1> USE DEF ProcPlace, LoaderPlace
<1>1. CASE Load \/ Unload
  <2>1. Goto(Loader, "init_hijack") \/ Goto(Loader, "exit_restore")
    BY <1>1 DEF Load, Unload
  <2>2. QED
    BY <1>1, <2>1, MoveLocks DEF Load, Unload, At, UnderPidlist, UnderCalltable
<1>2. CASE InitHijack \/ ExitRestore
  BY <1>2 DEF InitHijack, ExitRestore, At, Goto, IInv, TypeInv, TypeOK, LocksAreReleased,
              UnderPidlist, UnderCalltable
<1>3. CASE InitTable \/ ExitClear
  <2>1. /\ pidlist = Loader /\ pidlist' = NoOne /\ calltable' = calltable
        /\ pc[Loader] \in {"init_table", "exit_clear"}
        /\ Goto(Loader, "loaded") \/ Goto(Loader, "removed")
    BY <1>3 DEF InitTable, ExitClear, Holding
  <2>2. calltable' # Loader
    BY <2>1, ProcAssumption DEF IInv, LocksAreReleased, UnderCalltable
  <2>3. QED
    BY <2>1, <2>2, ReleaseLocks
<1>4. QED
  BY <1>1, <1>2, <1>3 DEF LoaderStep

LEMMA NextLocks ==
    ASSUME IInv, [Next]_vars
    PROVE  LocksAreReleased'
<1> USE DEF ProcPlace, LoaderPlace
<1>1. ASSUME NEW p \in Proc, Request(p) \/ CallSyscall(p) \/ Exit(p)
      PROVE  LocksAreReleased'
  <2>1. p \in Task
    BY DEF Task
  <2>2. \E place \in {"args", "oops", "log", "exit", "dead"} : Goto(p, place)
    BY <1>1 DEF Request, CallSyscall, Exit
  <2>3. QED
    BY <1>1, <2>1, <2>2, MoveLocks
       DEF Request, CallSyscall, Exit, At, UnderPidlist, UnderCalltable
<1>2. ASSUME NEW p \in Proc, Run(p)
      PROVE  LocksAreReleased'
  BY <1>2, RunLocks
<1>3. ASSUME NEW p \in Proc, Unmapped(p)
      PROVE  LocksAreReleased'
  <2>1. p \in Task
    BY DEF Task
  <2>2. QED
    BY <1>3, <2>1, MoveLocks DEF Unmapped, Oops
<1>4. ASSUME NEW t \in Task, LockPidlist(t) \/ LockCalltable(t)
      PROVE  LocksAreReleased'
  BY <1>4, LockLocks
<1>5. CASE Load \/ Unload \/ LoaderStep
  BY <1>5, LoaderLocks
<1>6. CASE Idle \/ UNCHANGED vars
  BY <1>6 DEF Idle, vars, IInv, TypeInv, TypeOK, LocksAreReleased
<1>7. QED
  BY <1>1, <1>2, <1>3, <1>4, <1>5, <1>6 DEF Next

\* IInv is inductive.
LEMMA NextIInv == IInv /\ [Next]_vars => IInv'
  BY NextLocks, NextTypeInv, NextSaved DEF IInv

\* The invariant holds in all states: who may be between the locks of my_syscall,
\* what the lists and flags say, and what was saved of the table.
THEOREM Invariance == Spec => []IInv
<1>1. Init => IInv
  BY InitTypeInv, InitSaved, InitLocks DEF IInv
<1>2. QED
  BY <1>1, NextIInv, PTL DEF Spec

\* Every variable keeps its type; in particular the call table never holds
\* anything but the original or interceptor.
THEOREM TypeCorrect == Spec => []TypeOK
<1>1. IInv => TypeOK
  BY DEF IInv, TypeInv
<1>2. QED
  BY <1>1, Invariance, PTL

\* Whatever the processes and the loader do, in whatever order, a lock is held
\* only by code that runs under it or by a process that died there: every return
\* and every error path of my_syscall, interceptor, my_exit_group, init_function
\* and exit_function has released what it took.
THEOREM LocksAreAlwaysReleased == Spec => []LocksAreReleased
<1>1. IInv => LocksAreReleased
  BY DEF IInv
<1>2. QED
  BY <1>1, Invariance, PTL

\* No system call is ever sent to interceptor, or restored, without something
\* saved to go on to, although INTERCEPT and RELEASE do their work under two locks
\* one after the other and race with each other and with init and exit.
THEOREM InterceptorAlwaysForwards == Spec => []InterceptorCanForward
<1>1. IInv => InterceptorCanForward
  BY DEF IInv, Saved, InterceptorCanForward
<1>2. QED
  BY <1>1, Invariance, PTL
-----------------------------------------------------------------------------
\* The list of an entry and its count.  No list ever has a negative number of nodes
\* for a pid: one is only taken out where one was found.
Counted(e) ==
    /\ \A p \in Proc : e.my_list[p] >= 0
    /\ IsFiniteSet(Nodes(e.my_list))
    /\ e.listcount = Cardinality(Nodes(e.my_list))

Lists == \A s \in Syscall : Counted(table[s])

LEMMA InNodes ==
    ASSUME NEW l, NEW x
    PROVE  x \in Nodes(l) <=> \E q \in Proc : \E k \in 1 .. l[q] : x = <<q, k>>
  BY DEF Nodes

LEMMA EmptyNodes == Nodes(EmptyList) = {}
<1>1. \A q \in Proc : 1 .. EmptyList[q] = {}
  BY DEF EmptyList
<1>2. QED
  BY <1>1 DEF Nodes

LEMMA NodeAdded ==
    ASSUME NEW l \in [Proc -> Int], NEW m, NEW p \in Proc, l[p] >= 0,
           m[p] = l[p] + 1, \A q \in Proc : q # p => m[q] = l[q]
    PROVE  /\ Nodes(m) = Nodes(l) \union {<<p, l[p] + 1>>}
           /\ <<p, l[p] + 1>> \notin Nodes(l)
<1>1. m[p] = l[p] + 1 /\ \A q \in Proc : q # p => m[q] = l[q]
  OBVIOUS
<1>2. <<p, l[p] + 1>> \notin Nodes(l)
  BY InNodes
<1>3. 1 .. m[p] = (1 .. l[p]) \union {l[p] + 1}
  BY <1>1
<1>4. ASSUME NEW x
      PROVE  x \in Nodes(m) <=> x \in Nodes(l) \union {<<p, l[p] + 1>>}
  <2>1. x \in Nodes(m) <=> \/ \E k \in 1 .. m[p] : x = <<p, k>>
                           \/ \E q \in Proc \ {p} : \E k \in 1 .. m[q] : x = <<q, k>>
    BY InNodes
  <2>2. x \in Nodes(l) <=> \/ \E k \in 1 .. l[p] : x = <<p, k>>
                           \/ \E q \in Proc \ {p} : \E k \in 1 .. l[q] : x = <<q, k>>
    BY InNodes
  <2>3. (\E k \in 1 .. m[p] : x = <<p, k>>)
            <=> (\E k \in 1 .. l[p] : x = <<p, k>>) \/ x = <<p, l[p] + 1>>
    BY <1>3
  <2>4. (\E q \in Proc \ {p} : \E k \in 1 .. m[q] : x = <<q, k>>)
            <=> (\E q \in Proc \ {p} : \E k \in 1 .. l[q] : x = <<q, k>>)
    BY <1>1
  <2>5. QED
    BY <2>1, <2>2, <2>3, <2>4
<1>5. QED
  BY <1>2, <1>4

LEMMA NodesDropped ==
    ASSUME NEW l \in [Proc -> Int], NEW m, NEW p \in Proc, NEW n \in Nat, n <= l[p],
           m[p] = n, \A q \in Proc : q # p => m[q] = l[q]
    PROVE  Nodes(m) = Nodes(l) \ ({p} \X (n + 1 .. l[p]))
<1>1. m[p] = n /\ \A q \in Proc : q # p => m[q] = l[q]
  OBVIOUS
<1>2. l[p] \in Int
  OBVIOUS
<1>3. ASSUME NEW q \in Proc, NEW k
      PROVE  k \in 1 .. m[q] <=> k \in 1 .. l[q] /\ ~ (q = p /\ k \in n + 1 .. l[p])
  <2>1. CASE q = p
    BY <1>1, <1>2, <2>1
  <2>2. CASE q # p
    BY <1>1, <2>2
  <2>3. QED
    BY <2>1, <2>2
<1>4. ASSUME NEW x
      PROVE  x \in Nodes(m) <=> x \in Nodes(l) /\ x \notin {p} \X (n + 1 .. l[p])
  <2>1. ASSUME x \in Nodes(m)
        PROVE  x \in Nodes(l) /\ x \notin {p} \X (n + 1 .. l[p])
    <3>1. PICK q \in Proc : \E k \in 1 .. m[q] : x = <<q, k>>
      BY <2>1, InNodes
    <3> PICK k \in 1 .. m[q] : x = <<q, k>>
      BY <3>1
    <3>2. k \in 1 .. l[q] /\ ~ (q = p /\ k \in n + 1 .. l[p])
      BY <1>3
    <3>3. QED
      BY <3>1, <3>2, InNodes
  <2>2. ASSUME x \in Nodes(l), x \notin {p} \X (n + 1 .. l[p])
        PROVE  x \in Nodes(m)
    <3>1. PICK q \in Proc : \E k \in 1 .. l[q] : x = <<q, k>>
      BY <2>2, InNodes
    <3> PICK k \in 1 .. l[q] : x = <<q, k>>
      BY <3>1
    <3>2. ~ (q = p /\ k \in n + 1 .. l[p])
      BY <2>2, <3>1
    <3>3. k \in 1 .. m[q]
      BY <1>3, <3>2
    <3>4. QED
      BY <3>1, <3>3, InNodes
  <2>3. QED
    BY <2>1, <2>2
<1>5. QED
  BY <1>4

LEMMA RowCardinality ==
    ASSUME NEW p, NEW n \in Nat, NEW k \in Int, n <= k
    PROVE  Cardinality({p} \X (n + 1 .. k)) = k - n
<1> DEFINE P == {p}
           K == n + 1 .. k
<1>1. IsFiniteSet(K) /\ Cardinality(K) = k - n
  <2>1. n + 1 \in Int /\ (n + 1 > k => k - n = 0)
    OBVIOUS
  <2>2. /\ IsFiniteSet(n + 1 .. k)
        /\ Cardinality(n + 1 .. k) = IF n + 1 > k THEN 0 ELSE k - (n + 1) + 1
    BY <2>1, FS_Interval
  <2>3. QED
    BY <2>1, <2>2
<1>2. IsFiniteSet(P) /\ Cardinality(P) = 1
  BY FS_Singleton
<1> HIDE DEF P, K
<1>3. Cardinality(P \X K) = Cardinality(P) * Cardinality(K)
  BY <1>1, <1>2, FS_Product
<1>4. Cardinality(P \X K) = 1 * (k - n)
  BY <1>1, <1>2, <1>3
<1>5. Cardinality(P \X K) = k - n
  BY <1>4
<1>6. QED
  BY <1>5 DEF P, K

-----------------------------------------------------------------------------
\* Each helper keeps the count right.
LEMMA EmptiedCounted ==
    ASSUME NEW e \in Entry
    PROVE  /\ Counted(destroy_list(e)) /\ Counted(InitialEntry(e))
           /\ Counted(StartedAll(e)) /\ Counted(InitialEntry(destroy_list(e)))
<1>1. ASSUME NEW d, d.my_list = EmptyList, d.listcount = 0
      PROVE  Counted(d)
  <2>1. \A p \in Proc : d.my_list[p] >= 0
    BY <1>1 DEF EmptyList
  <2>2. IsFiniteSet(Nodes(d.my_list)) /\ Cardinality(Nodes(d.my_list)) = 0
    BY <1>1, EmptyNodes, FS_EmptySet
  <2>3. QED
    BY <1>1, <2>1, <2>2 DEF Counted
<1>2. /\ destroy_list(e).my_list = EmptyList /\ destroy_list(e).listcount = 0
      /\ InitialEntry(e).my_list = EmptyList /\ InitialEntry(e).listcount = 0
      /\ StartedAll(e).my_list = EmptyList /\ StartedAll(e).listcount = 0
      /\ InitialEntry(destroy_list(e)).my_list = EmptyList
      /\ InitialEntry(destroy_list(e)).listcount = 0
  BY DEF destroy_list, InitialEntry, StartedAll, Entry
<1>3. QED
  BY <1>1, <1>2

\* The flags have no part in it.
LEMMA FlagsKeepCounted ==
    ASSUME NEW e, NEW d, Counted(e), d.my_list = e.my_list, d.listcount = e.listcount
    PROVE  Counted(d)
  BY DEF Counted

\* The list m of an entry in place of its list l.
LEMMA NodeAddedCounted ==
    ASSUME NEW e \in Entry, Counted(e), NEW p \in Proc, NEW d,
           d.my_list = [e.my_list EXCEPT ![p] = e.my_list[p] + 1],
           d.listcount = e.listcount + 1
    PROVE  Counted(d)
<1>1. PICK l \in [Proc -> Int] : l = e.my_list
  BY DEF Entry
<1>2. PICK m \in [Proc -> Int] : m = d.my_list
  BY <1>1
<1>3. m[p] = l[p] + 1 /\ \A q \in Proc : q # p => m[q] = l[q]
  BY <1>1, <1>2
<1>4. \A q \in Proc : l[q] >= 0 /\ l[q] \in Int
  BY <1>1 DEF Counted
<1>5. \A q \in Proc : m[q] >= 0
  BY <1>3, <1>4
<1>6. Nodes(m) = Nodes(l) \union {<<p, l[p] + 1>>} /\ <<p, l[p] + 1>> \notin Nodes(l)
  BY <1>3, <1>4, NodeAdded
<1>7. IsFiniteSet(Nodes(l)) /\ e.listcount = Cardinality(Nodes(l))
  BY <1>1 DEF Counted
<1>8. IsFiniteSet(Nodes(m)) /\ Cardinality(Nodes(m)) = Cardinality(Nodes(l)) + 1
  <2> DEFINE S == Nodes(l)
             x == <<p, l[p] + 1>>
  <2>1. IsFiniteSet(S) /\ x \notin S /\ Nodes(m) = S \union {x}
    BY <1>6, <1>7
  <2> HIDE DEF S, x
  <2>2. IsFiniteSet(S \union {x}) /\ Cardinality(S \union {x}) = Cardinality(S) + 1
    BY <2>1, FS_AddElement
  <2>3. QED
    BY <2>1, <2>2 DEF S
<1>9. QED
  BY <1>2, <1>5, <1>7, <1>8 DEF Counted

LEMMA NodesDroppedCounted ==
    ASSUME NEW e \in Entry, Counted(e), NEW p \in Proc, NEW n \in Nat,
           n <= e.my_list[p], NEW d,
           d.my_list = [e.my_list EXCEPT ![p] = n],
           d.listcount = e.listcount - (e.my_list[p] - n)
    PROVE  Counted(d)
<1>1. PICK l \in [Proc -> Int] : l = e.my_list
  BY DEF Entry
<1>2. PICK m \in [Proc -> Int] : m = d.my_list
  BY <1>1
<1>3. m[p] = n /\ \A q \in Proc : q # p => m[q] = l[q]
  BY <1>1, <1>2
<1>4. \A q \in Proc : l[q] >= 0 /\ l[q] \in Int
  BY <1>1 DEF Counted
<1>5. \A q \in Proc : m[q] >= 0
  BY <1>3, <1>4
<1> DEFINE row == {p} \X (n + 1 .. l[p])
<1>6. Nodes(m) = Nodes(l) \ row
  BY <1>1, <1>3, NodesDropped
<1>7. IsFiniteSet(Nodes(l)) /\ e.listcount = Cardinality(Nodes(l))
  BY <1>1 DEF Counted
<1>8. Nodes(l) \cap row = row
  <2>1. n + 1 .. l[p] \subseteq 1 .. l[p]
    BY <1>4
  <2>2. QED
    BY <2>1 DEF Nodes
<1>9. Cardinality(row) = l[p] - n
  BY <1>1, <1>4, RowCardinality
<1>10. /\ IsFiniteSet(Nodes(m))
       /\ Cardinality(Nodes(m)) = Cardinality(Nodes(l)) - Cardinality(Nodes(l) \cap row)
  <2> DEFINE S == Nodes(l)
  <2>1. IsFiniteSet(S) /\ Nodes(m) = S \ row
    BY <1>6, <1>7
  <2> HIDE DEF S, row
  <2>2. IsFiniteSet(S \ row) /\ Cardinality(S \ row) = Cardinality(S) - Cardinality(S \cap row)
    BY <2>1, FS_Difference
  <2>3. QED
    BY <2>1, <2>2 DEF S
<1>11. QED
  BY <1>1, <1>2, <1>5, <1>7, <1>8, <1>9, <1>10 DEF Counted

-----------------------------------------------------------------------------
\* A pid in the list of an entry is monitored.
Watched(e) == \A p \in Proc : e.my_list[p] > 0 => e.monitored # 0

LEMMA CountZero ==
    ASSUME NEW e \in Entry, Counted(e), e.listcount = 0
    PROVE  \A p \in Proc : e.my_list[p] = 0
<1>1. Nodes(e.my_list) = {}
  BY FS_EmptySet DEF Counted
<1>2. \A p \in Proc : e.my_list[p] \in Int /\ e.my_list[p] >= 0
  BY DEF Entry, Counted
<1>3. ASSUME NEW p \in Proc, e.my_list[p] > 0
      PROVE  FALSE
  <2>1. 1 \in 1 .. e.my_list[p]
    BY <1>2, <1>3
  <2>2. <<p, 1>> \in Nodes(e.my_list)
    BY <2>1, InNodes
  <2>3. QED
    BY <1>1, <2>2
<1>4. QED
  BY <1>2, <1>3

LEMMA UnmonitoredLists ==
    ASSUME NEW e \in Entry, Counted(e)
    PROVE  /\ Counted(Unmonitored(e))
           /\ Watched(e) => Watched(Unmonitored(e))
<1>1. /\ Unmonitored(e).my_list = e.my_list /\ Unmonitored(e).listcount = e.listcount
      /\ e.listcount # 0 => Unmonitored(e).monitored = e.monitored
  BY DEF Unmonitored, Entry
<1>2. Counted(Unmonitored(e))
  BY <1>1, FlagsKeepCounted
<1>3. ASSUME Watched(e)
      PROVE  Watched(Unmonitored(e))
  <2>1. CASE e.listcount = 0
    BY <1>1, <2>1, CountZero DEF Watched
  <2>2. CASE e.listcount # 0
    BY <1>1, <1>3, <2>2 DEF Watched
  <2>3. QED
    BY <2>1, <2>2
<1>4. QED
  BY <1>2, <1>3

LEMMA DelPidSyscLists ==
    ASSUME NEW e \in Entry, Counted(e), NEW p \in Proc, e.my_list[p] > 0
    PROVE  /\ Counted(del_pid_sysc(e, p))
           /\ Watched(e) => Watched(del_pid_sysc(e, p))
<1> DEFINE l == [e.my_list EXCEPT ![p] = e.my_list[p] - 1]
           u == [e EXCEPT !.my_list = l, !.listcount = e.listcount - 1]
<1>1. /\ e.my_list \in [Proc -> Int] /\ e.listcount \in Int
      /\ \A q \in Proc : e.my_list[q] \in Int
  BY DEF Entry
<1>2. l \in [Proc -> Int] /\ e.listcount - 1 \in Int
  BY <1>1
<1>3. u \in Entry
  BY <1>2, EntryWithList, Zenon
<1>4. u.my_list = l /\ u.listcount = e.listcount - 1 /\ u.monitored = e.monitored
  BY DEF Entry
<1>5. del_pid_sysc(e, p) = Unmonitored(u)
  BY DEF del_pid_sysc
<1>6. Counted(u)
  <2>1. PICK n \in Nat : n = e.my_list[p] - 1
    BY <1>1
  <2>2. n <= e.my_list[p] /\ e.listcount - 1 = e.listcount - (e.my_list[p] - n)
    BY <1>1, <2>1
  <2>3. /\ u.my_list = [e.my_list EXCEPT ![p] = n]
        /\ u.listcount = e.listcount - (e.my_list[p] - n)
    BY <1>4, <2>1, <2>2
  <2> HIDE DEF u
  <2>4. QED
    BY <2>2, <2>3, NodesDroppedCounted
<1>7. Watched(e) => Watched(u)
  BY <1>1, <1>4 DEF Watched
<1> HIDE DEF u
<1>8. QED
  BY <1>3, <1>5, <1>6, <1>7, UnmonitoredLists

LEMMA DelPidLists ==
    ASSUME NEW e \in Entry, Counted(e), NEW p \in Proc
    PROVE  /\ Counted(del_pid(e, p))
           /\ Watched(e) => Watched(del_pid(e, p))
<1> DEFINE l == [e.my_list EXCEPT ![p] = 0]
           u == [e EXCEPT !.my_list = l, !.listcount = e.listcount - e.my_list[p]]
<1>1. /\ e.my_list \in [Proc -> Int] /\ e.listcount \in Int
      /\ \A q \in Proc : e.my_list[q] \in Int /\ e.my_list[q] >= 0
  BY DEF Entry, Counted
<1>2. l \in [Proc -> Int] /\ e.listcount - e.my_list[p] \in Int
  BY <1>1
<1>3. u \in Entry
  BY <1>2, EntryWithList, Zenon
<1>4. /\ u.my_list = l /\ u.listcount = e.listcount - e.my_list[p]
      /\ u.monitored = e.monitored
  BY DEF Entry
<1>5. del_pid(e, p) = e \/ del_pid(e, p) = Unmonitored(u)
  BY DEF del_pid
<1>6. Counted(u)
  <2>1. PICK n \in Nat : n = 0
    OBVIOUS
  <2>2. n <= e.my_list[p] /\ e.my_list[p] - n = e.my_list[p]
    BY <1>1, <2>1
  <2>3. /\ u.my_list = [e.my_list EXCEPT ![p] = n]
        /\ u.listcount = e.listcount - (e.my_list[p] - n)
    BY <1>4, <2>1, <2>2
  <2> HIDE DEF u
  <2>4. QED
    BY <2>2, <2>3, NodesDroppedCounted
<1>7. Watched(e) => Watched(u)
  BY <1>1, <1>4 DEF Watched
<1> HIDE DEF u
<1>8. QED
  BY <1>3, <1>5, <1>6, <1>7, UnmonitoredLists

LEMMA AddPidLists ==
    ASSUME NEW e \in Entry, Counted(e), NEW p \in Proc, e.monitored # 0
    PROVE  Counted(add_pid_sysc(e, p)) /\ Watched(add_pid_sysc(e, p))
<1>1. /\ add_pid_sysc(e, p).my_list = [e.my_list EXCEPT ![p] = e.my_list[p] + 1]
      /\ add_pid_sysc(e, p).listcount = e.listcount + 1
      /\ add_pid_sysc(e, p).monitored = e.monitored
  BY DEF add_pid_sysc, Entry
<1>2. QED
  BY <1>1, NodeAddedCounted DEF Watched

LEMMA StartStopLists ==
    ASSUME NEW e \in Entry, Counted(e), NEW p \in Proc
    PROVE  /\ Counted(StoppedOne(e, p)) /\ Watched(StoppedOne(e, p))
           /\ \A d \in StartedOne(e, p) : Counted(d) /\ (Watched(e) => Watched(d))
<1> DEFINE one == [e EXCEPT !.monitored = 1]
<1>1. /\ one \in Entry /\ one.my_list = e.my_list /\ one.listcount = e.listcount
      /\ one.monitored = 1
  BY DEF Entry
<1>2. StoppedOne(e, p) = IF e.my_list[p] > 0 THEN del_pid_sysc(one, p) ELSE one
  BY DEF StoppedOne
<1>3. StartedOne(e, p) = IF e.monitored # 2
                         THEN {add_pid_sysc(one, p), one}
                         ELSE {IF e.my_list[p] > 0 THEN del_pid_sysc(e, p) ELSE e}
  BY DEF StartedOne
<1> HIDE DEF one
<1>4. Counted(one) /\ Watched(one)
  BY <1>1, FlagsKeepCounted DEF Watched
<1>5. Counted(StoppedOne(e, p)) /\ Watched(StoppedOne(e, p))
  BY <1>1, <1>2, <1>4, DelPidSyscLists
<1>6. Counted(add_pid_sysc(one, p)) /\ Watched(add_pid_sysc(one, p))
  BY <1>1, <1>4, AddPidLists
<1>7. \A d \in StartedOne(e, p) : Counted(d) /\ (Watched(e) => Watched(d))
  BY <1>3, <1>4, <1>6, DelPidSyscLists
<1>8. QED
  BY <1>5, <1>7

LEMMA EmptiedWatched ==
    ASSUME NEW e \in Entry
    PROVE  /\ Watched(destroy_list(e)) /\ Watched(InitialEntry(e))
           /\ Watched(StartedAll(e)) /\ Watched(InitialEntry(destroy_list(e)))
<1>1. ASSUME NEW d, d.my_list = EmptyList
      PROVE  Watched(d)
  BY <1>1 DEF Watched, EmptyList
<1>2. /\ destroy_list(e).my_list = EmptyList
      /\ InitialEntry(e).my_list = EmptyList
      /\ StartedAll(e).my_list = EmptyList
      /\ InitialEntry(destroy_list(e)).my_list = EmptyList
  BY DEF destroy_list, InitialEntry, StartedAll, Entry
<1>3. QED
  BY <1>1, <1>2

-----------------------------------------------------------------------------
\* What a step may make of an entry, unless it starts or stops to monitor a pid ...
Rewritten(e) ==
    {e, destroy_list(e), StartedAll(e), InitialEntry(e), InitialEntry(destroy_list(e))}
    \union {del_pid(e, p) : p \in Proc}

\* ... or does so, with d what becomes of the entry.
Listing(s, d) ==
    \E p \in Proc : /\ Start(p) /\ req[p].sys = s /\ req[p].pid \in Proc
                    /\ d \in StartedOne(table[s], req[p].pid)
Stopping(s, d) ==
    \E p \in Proc : /\ Stop(p) /\ req[p].sys = s /\ req[p].pid \in Proc
                    /\ d = StoppedOne(table[s], req[p].pid)

\* INTERCEPT and RELEASE leave the list alone; RELEASE clears the flag.
OnlyFlags(s, d) ==
    /\ d.my_list = table[s].my_list /\ d.listcount = table[s].listcount
    /\ \/ d.monitored = table[s].monitored
       \/ \E p \in Proc : Release(p) /\ req[p].sys = s

LEMMA RunTable ==
    ASSUME TypeInv, NEW p \in Proc, Run(p), NEW s \in Syscall
    PROVE  \/ table'[s] \in Rewritten(table[s])
           \/ OnlyFlags(s, table'[s])
           \/ Listing(s, table'[s]) \/ Stopping(s, table'[s])
<1>1. /\ table \in [Syscall -> Entry] /\ req[p] \in Args
      /\ table[s] \in Rewritten(table[s])
  BY DEF TypeInv, TypeOK, Rewritten
<1>2. req[p].pid # AllPids => req[p].pid \in Proc
  BY <1>1 DEF Args, Pid
<1>3. CASE Intercept(p)
  <2>1. /\ table' = [table EXCEPT ![req[p].sys] = [table[req[p].sys] EXCEPT
                                        !.intercepted = TRUE, !.f = sct[req[p].sys]]]
    BY <1>1, <1>3 DEF Intercept
  <2>2. CASE s = req[p].sys
    <3>1. table'[s] = [table[s] EXCEPT !.intercepted = TRUE, !.f = sct[s]]
      BY <1>1, <2>1, <2>2
    <3>2. OnlyFlags(s, table'[s])
      BY <1>1, <3>1 DEF OnlyFlags, Entry
    <3>3. QED
      BY <3>2
  <2>3. CASE s # req[p].sys
    BY <1>1, <2>1, <2>3
  <2>4. QED
    BY <2>2, <2>3
<1>4. CASE Release(p)
  <2>1. /\ table' = [table EXCEPT ![req[p].sys] = [table[req[p].sys] EXCEPT
                                        !.intercepted = FALSE, !.monitored = 0]]
        /\ pc[p] = "release"
    BY <1>1, <1>4 DEF Release, Holding
  <2>2. CASE s = req[p].sys
    <3>1. table'[s] = [table[s] EXCEPT !.intercepted = FALSE, !.monitored = 0]
      BY <1>1, <2>1, <2>2
    <3>2. OnlyFlags(s, table'[s])
      BY <1>1, <1>4, <2>2, <3>1 DEF OnlyFlags, Entry
    <3>3. QED
      BY <3>2
  <2>3. CASE s # req[p].sys
    BY <1>1, <2>1, <2>3
  <2>4. QED
    BY <2>2, <2>3
<1>5. CASE Start(p)
  <2>1. PICK e \in IF req[p].pid = AllPids
                   THEN {StartedAll(table[req[p].sys])}
                   ELSE StartedOne(table[req[p].sys], req[p].pid) :
            table' = [table EXCEPT ![req[p].sys] = e]
    BY <1>5 DEF Start
  <2>2. CASE s = req[p].sys
    <3>1. table'[s] = e
      BY <1>1, <2>1, <2>2
    <3>2. e \in Rewritten(table[s]) \/ Listing(s, e)
      BY <1>2, <1>5, <2>1, <2>2 DEF Rewritten, Listing
    <3>3. QED
      BY <3>1, <3>2
  <2>3. CASE s # req[p].sys
    BY <1>1, <2>1, <2>3
  <2>4. QED
    BY <2>2, <2>3
<1>6. CASE Stop(p)
  <2>1. table' = [table EXCEPT ![req[p].sys] =
                    IF req[p].pid = AllPids THEN destroy_list(table[req[p].sys])
                    ELSE StoppedOne(table[req[p].sys], req[p].pid)]
    BY <1>1, <1>6 DEF Stop
  <2>2. CASE s = req[p].sys
    <3>1. table'[s] = IF req[p].pid = AllPids THEN destroy_list(table[s])
                      ELSE StoppedOne(table[s], req[p].pid)
      BY <1>1, <2>1, <2>2
    <3>2. QED
      BY <1>2, <1>6, <2>2, <3>1 DEF Rewritten, Stopping
  <2>3. CASE s # req[p].sys
    BY <1>1, <2>1, <2>3
  <2>4. QED
    BY <2>2, <2>3
<1>7. CASE ExitGroup(p)
  <2>1. CASE UNCHANGED table
    BY <1>1, <2>1
  <2>2. CASE ~ UNCHANGED table
    <3>1. table'[s] \in {table[s], del_pid(table[s], p)}
      BY <1>7, <2>2 DEF ExitGroup, Oops
    <3>2. QED
      BY <1>1, <3>1 DEF Rewritten
  <2>3. QED
    BY <2>1, <2>2
<1>8. CASE \/ CheckArgs(p) \/ CheckOwner(p) \/ CheckContext(p) \/ Hijack(p) \/ Restore(p)
           \/ Log(p) \/ CallOriginal(p) \/ Disappear(p)
  <2>1. UNCHANGED table
    BY <1>8 DEF CheckArgs, CheckOwner, CheckContext, Hijack, Restore, Log, CallOriginal,
                Disappear, Oops
  <2>2. QED
    BY <1>1, <2>1
<1>9. QED
  BY <1>3, <1>4, <1>5, <1>6, <1>7, <1>8 DEF Run, Command

LEMMA NextTable ==
    ASSUME TypeInv, [Next]_vars, NEW s \in Syscall
    PROVE  \/ table'[s] \in Rewritten(table[s])
           \/ OnlyFlags(s, table'[s])
           \/ Listing(s, table'[s]) \/ Stopping(s, table'[s])
<1>1. table[s] \in Rewritten(table[s])
  BY DEF Rewritten
<1>2. ASSUME NEW p \in Proc, Run(p)
      PROVE  \/ table'[s] \in Rewritten(table[s])
             \/ OnlyFlags(s, table'[s])
             \/ Listing(s, table'[s]) \/ Stopping(s, table'[s])
  BY <1>2, RunTable
<1>3. CASE InitTable \/ ExitClear
  <2>1. table'[s] \in {table[s], InitialEntry(table[s]), InitialEntry(destroy_list(table[s]))}
    BY <1>3 DEF InitTable, ExitClear
  <2>2. QED
    BY <2>1 DEF Rewritten
<1>4. CASE UNCHANGED table
  BY <1>1, <1>4
<1>5. ASSUME NEW p \in Proc, Request(p) \/ CallSyscall(p) \/ Exit(p) \/ Unmapped(p)
      PROVE  UNCHANGED table
  BY <1>5 DEF Request, CallSyscall, Exit, Unmapped, Oops
<1>6. ASSUME NEW t \in Task, LockPidlist(t) \/ LockCalltable(t)
      PROVE  UNCHANGED table
  BY <1>6 DEF LockPidlist, LockCalltable
<1>7. ASSUME Load \/ Unload \/ InitHijack \/ ExitRestore \/ Idle \/ UNCHANGED vars
      PROVE  UNCHANGED table
  BY <1>7 DEF Load, Unload, InitHijack, ExitRestore, Idle, vars
<1>8. QED
  BY <1>2, <1>3, <1>4, <1>5, <1>6, <1>7 DEF Next, LoaderStep

LEMMA RewrittenLists ==
    ASSUME NEW e \in Entry, Counted(e), NEW d \in Rewritten(e)
    PROVE  Counted(d) /\ (Watched(e) => Watched(d))
<1>1. CASE d \in {e, destroy_list(e), StartedAll(e), InitialEntry(e),
                  InitialEntry(destroy_list(e))}
  BY <1>1, EmptiedCounted, EmptiedWatched
<1>2. ASSUME NEW p \in Proc, d = del_pid(e, p)
      PROVE  Counted(d) /\ (Watched(e) => Watched(d))
  BY <1>2, DelPidLists
<1>3. QED
  BY <1>1, <1>2 DEF Rewritten

LEMMA NextLists ==
    ASSUME TypeInv, Lists, [Next]_vars
    PROVE  Lists'
<1> SUFFICES ASSUME NEW s \in Syscall
             PROVE  Counted(table'[s])
  BY DEF Lists, Counted
<1>1. table[s] \in Entry /\ Counted(table[s])
  BY DEF TypeInv, TypeOK, Lists
<1>2. CASE table'[s] \in Rewritten(table[s])
  BY <1>1, <1>2, RewrittenLists
<1>3. CASE OnlyFlags(s, table'[s])
  BY <1>1, <1>3, FlagsKeepCounted DEF OnlyFlags
<1>4. CASE Listing(s, table'[s]) \/ Stopping(s, table'[s])
  BY <1>1, <1>4, StartStopLists DEF Listing, Stopping
<1>5. QED
  BY <1>2, <1>3, <1>4, NextTable

LEMMA InitLists == Init => Lists
<1> SUFFICES ASSUME Init, NEW s \in Syscall
             PROVE  Counted(table[s])
  BY DEF Lists
<1>1. table[s] = ZeroEntry /\ ZeroEntry.my_list = EmptyList /\ ZeroEntry.listcount = 0
  BY DEF Init, ZeroEntry
<1>2. \A p \in Proc : EmptyList[p] >= 0
  BY DEF EmptyList
<1>3. IsFiniteSet(Nodes(EmptyList)) /\ Cardinality(Nodes(EmptyList)) = 0
  BY EmptyNodes, FS_EmptySet
<1>4. QED
  BY <1>1, <1>2, <1>3 DEF Counted

LEMMA ListsInvariance == Spec => [](IInv /\ Lists)
<1>1. IInv => TypeInv
  BY DEF IInv
<1>2. Lists /\ IInv /\ [Next]_vars => Lists'
  BY <1>1, NextLists
<1>3. QED
  BY <1>2, InitLists, Invariance, PTL DEF Spec

\* Whatever commands and exits race, listcount is the number of nodes in the list,
\* with any number of processes, each in it any number of times: every function
\* that links or frees nodes counts them (interceptor.c:118 to 262).
THEOREM ListsAreCounted == Spec => []ListCountMatches
<1>1. Lists => ListCountMatches
  BY DEF Lists, Counted, ListCountMatches
<1>2. QED
  BY <1>1, ListsInvariance, PTL

-----------------------------------------------------------------------------
\* A process that has exited and the lists.  Entries whose list can be looked at are
\* the ones that init_function has set up; no other list ever has a node.
Untouched ==
    \A s \in Syscall, q \in Proc : ~ListReady(s) => table[s].my_list[q] = 0

StartsAreReady == \A p \in Proc : pc[p] = "start" => ListReady(req[p].sys)

GoneUnlisted ==
    At(Loader, "loaded") =>
        \A q \in Proc, s \in Syscall : pc[q] \in {"gone", "dead"} => table[s].my_list[q] = 0

DeadInv == Untouched /\ StartsAreReady /\ GoneUnlisted

\* Whoever is about to put a pid in a list does so before its process takes itself out
\* of the lists.
NoLateStart ==
    \A p \in Proc : pc[p] = "start" /\ req[p].pid # AllPids =>
                        pc[req[p].pid] \notin {"gone", "dead"}

\* Only START for the pid itself puts it in a list that it is not in.
LEMMA StaysOut ==
    ASSUME NEW e \in Entry, NEW q \in Proc, e.my_list[q] = 0
    PROVE  /\ \A d \in Rewritten(e) : d.my_list[q] = 0
           /\ \A p \in Proc : StoppedOne(e, p).my_list[q] = 0
           /\ \A p \in Proc \ {q} : \A d \in StartedOne(e, p) : d.my_list[q] = 0
<1> DEFINE one == [e EXCEPT !.monitored = 1]
<1>1. one \in Entry /\ one.my_list = e.my_list /\ e.my_list \in [Proc -> Int]
  BY DEF Entry
<1>2. ASSUME NEW c \in Entry, c.my_list = e.my_list, NEW p \in Proc, p # q
      PROVE  del_pid_sysc(c, p).my_list[q] = 0 /\ add_pid_sysc(c, p).my_list[q] = 0
  <2>1. /\ del_pid_sysc(c, p).my_list = [c.my_list EXCEPT ![p] = c.my_list[p] - 1]
        /\ add_pid_sysc(c, p).my_list = [c.my_list EXCEPT ![p] = c.my_list[p] + 1]
    BY DEF del_pid_sysc, add_pid_sysc, Unmonitored, Entry
  <2>2. QED
    BY <1>1, <1>2, <2>1
<1>3. ASSUME NEW p \in Proc
      PROVE  del_pid(e, p).my_list[q] = 0
  <2>1. del_pid(e, p).my_list \in {e.my_list, [e.my_list EXCEPT ![p] = 0]}
    BY DEF del_pid, Unmonitored, Entry
  <2>2. QED
    BY <1>1, <2>1
<1>4. ASSUME NEW p \in Proc
      PROVE  StoppedOne(e, p).my_list[q] = 0
  <2>1. StoppedOne(e, p) = IF e.my_list[p] > 0 THEN del_pid_sysc(one, p) ELSE one
    BY DEF StoppedOne
  <2>2. e.my_list[p] > 0 => p # q
    OBVIOUS
  <2> HIDE DEF one
  <2>3. QED
    BY <1>1, <1>2, <2>1, <2>2
<1>5. ASSUME NEW p \in Proc \ {q}, NEW d \in StartedOne(e, p)
      PROVE  d.my_list[q] = 0
  <2>1. d \in {add_pid_sysc(one, p), one, del_pid_sysc(e, p), e}
    BY DEF StartedOne
  <2> HIDE DEF one
  <2>2. QED
    BY <1>1, <1>2, <2>1
<1>6. ASSUME NEW d \in {e, destroy_list(e), StartedAll(e), InitialEntry(e),
                        InitialEntry(destroy_list(e))}
      PROVE  d.my_list[q] = 0
  <2>1. d = e \/ d.my_list = EmptyList
    BY <1>6 DEF destroy_list, InitialEntry, StartedAll, Entry
  <2>2. QED
    BY <2>1 DEF EmptyList
<1>7. QED
  BY <1>3, <1>4, <1>5, <1>6 DEF Rewritten

LEMMA OnlyStartLists ==
    ASSUME TypeInv, [Next]_vars, NEW s \in Syscall, NEW q \in Proc,
           table[s].my_list[q] = 0
    PROVE  \/ table'[s].my_list[q] = 0
           \/ \E p \in Proc : Start(p) /\ req[p].sys = s /\ req[p].pid = q
<1>1. table[s] \in Entry
  BY DEF TypeInv, TypeOK
<1>2. CASE table'[s] \in Rewritten(table[s])
  BY <1>1, <1>2, StaysOut
<1>3. CASE OnlyFlags(s, table'[s])
  BY <1>3 DEF OnlyFlags
<1>4. CASE Listing(s, table'[s])
  BY <1>1, <1>4, StaysOut DEF Listing
<1>5. CASE Stopping(s, table'[s])
  BY <1>1, <1>5, StaysOut DEF Stopping
<1>6. QED
  BY <1>2, <1>3, <1>4, <1>5, NextTable

\* my_exit_group takes the process out of every list that can have it.
LEMMA ExitUnlists ==
    ASSUME TypeInv, Untouched, NEW q \in Proc, ExitGroup(q), ~ Oops(q), NEW s \in Syscall
    PROVE  table'[s].my_list[q] = 0
<1>1. table[s] \in Entry /\ s \in Int /\ s >= 1 /\ s <= NR_syscalls /\ NR_syscalls \in Nat
  BY SyscallAssumption DEF TypeInv, TypeOK
<1>2. table'[s] = IF s \in DelPidRange THEN del_pid(table[s], q) ELSE table[s]
  BY DEF ExitGroup
<1>3. CASE s \in DelPidRange
  <2>1. /\ del_pid(table[s], q).my_list \in
               {table[s].my_list, [table[s].my_list EXCEPT ![q] = 0]}
        /\ table[s].my_list[q] # 0 =>
               del_pid(table[s], q).my_list = [table[s].my_list EXCEPT ![q] = 0]
    BY <1>1 DEF del_pid, Unmonitored, Entry
  <2>2. table[s].my_list \in [Proc -> Int]
    BY <1>1 DEF Entry
  <2>3. QED
    BY <1>2, <1>3, <2>1, <2>2
<1>4. CASE s \notin DelPidRange
  <2>1. ~ ListReady(s)
    BY <1>1, <1>4 DEF DelPidRange, ListReady, InitRange
  <2>2. QED
    BY <1>2, <1>4, <2>1 DEF Untouched
<1>5. QED
  BY <1>3, <1>4

\* Where a process or the loader is, and what it carries, is its own business.
LEMMA OwnMoves ==
    ASSUME TypeInv, NEW p \in Proc,
           Request(p) \/ CallSyscall(p) \/ Exit(p) \/ Run(p) \/ Unmapped(p)
    PROVE  /\ \A t \in Task \ {p} : pc'[t] = pc[t]
           /\ \A q \in Proc \ {p} : req'[q] = req[q]
<1>1. pc \in [Task -> ProcPlace \union LoaderPlace] /\ req \in [Proc -> Args]
  BY DEF TypeInv, TypeOK
<1>2. /\ \E place : Goto(p, place)
      /\ \E r : req' = [req EXCEPT ![p] = r]
  <2>1. req = [req EXCEPT ![p] = req[p]]
    BY <1>1
  <2>2. CASE Request(p) \/ CallSyscall(p) \/ Exit(p) \/ Unmapped(p)
    BY <2>1, <2>2 DEF Request, CallSyscall, Exit, Unmapped, Oops
  <2>3. CASE CallOriginal(p)
    <3>1. req[p].sys \in Syscall
      BY <2>3 DEF CallOriginal, At, TypeInv, RequestsOK
    <3>2. table[req[p].sys].f \in {"original", "interceptor", "none"}
      BY <3>1 DEF TypeInv, TypeOK, Entry, Handler
    <3>3. QED
      BY <2>1, <2>3, <3>2 DEF CallOriginal, Return
  <2>4. CASE Log(p) \/ ExitGroup(p) \/ Disappear(p)
    BY <2>1, <2>4 DEF Log, ExitGroup, Disappear, Oops
  <2>5. CASE CheckArgs(p) \/ CheckOwner(p) \/ CheckContext(p)
    BY <2>1, <2>5 DEF CheckArgs, CheckOwner, CheckContext, Return, Oops
  <2>6. CASE Intercept(p) \/ Hijack(p) \/ Release(p) \/ Restore(p) \/ Start(p) \/ Stop(p)
    BY <2>1, <2>6 DEF Intercept, Hijack, Release, Restore, Start, Stop, Return
  <2>7. QED
    BY <2>2, <2>3, <2>4, <2>5, <2>6 DEF Run, Command
<1>3. QED
  BY <1>1, <1>2 DEF Goto

LEMMA WhoMoves ==
    ASSUME TypeInv, [Next]_vars, NEW p \in Proc
    PROVE  /\ \/ pc'[p] = pc[p] /\ req'[p] = req[p]
              \/ Request(p) \/ CallSyscall(p) \/ Exit(p) \/ Run(p) \/ Unmapped(p)
           /\ pc'[Loader] = pc[Loader] \/ Load \/ Unload \/ LoaderStep
<1>1. /\ p \in Task /\ Loader \in Task /\ Loader \notin Proc
      /\ pc \in [Task -> ProcPlace \union LoaderPlace]
  BY ProcAssumption DEF Task, TypeInv, TypeOK
<1>2. ASSUME NEW q \in Proc,
             Request(q) \/ CallSyscall(q) \/ Exit(q) \/ Run(q) \/ Unmapped(q)
      PROVE  /\ p # q => pc'[p] = pc[p] /\ req'[p] = req[p]
             /\ pc'[Loader] = pc[Loader]
  BY <1>1, <1>2, OwnMoves
<1>3. CASE Load \/ Unload \/ LoaderStep
  <2>1. UNCHANGED req /\ \E place : Goto(Loader, place)
    BY <1>3 DEF Load, Unload, LoaderStep, InitHijack, InitTable, ExitRestore, ExitClear
  <2>2. QED
    BY <1>1, <1>3, <2>1 DEF Goto
<1>4. CASE UNCHANGED <<pc, req>>
  BY <1>4
<1>5. QED
  BY <1>2, <1>3, <1>4 DEF Next, LockPidlist, LockCalltable, Idle, vars

\* The module is loaded once, and its table is ready from then on.
LEMMA ReadyForEver ==
    ASSUME TypeInv, [Next]_vars
    PROVE  /\ TableReady => TableReady'
           /\ At(Loader, "loaded")' => At(Loader, "loaded") \/ ~ TableReady
<1>1. pc \in [Task -> ProcPlace \union LoaderPlace] /\ Loader \in Task
  BY DEF TypeInv, TypeOK, Task
<1>2. CASE pc'[Loader] = pc[Loader]
  BY <1>2 DEF TableReady, At
<1>3. CASE Load \/ Unload \/ LoaderStep
  BY <1>1, <1>3 DEF Load, Unload, LoaderStep, InitHijack, InitTable, ExitRestore, ExitClear,
                    Holding, At, Goto, TableReady
<1>4. CASE Proc = {}
  <2>1. \/ \E t \in Task : LockPidlist(t) \/ LockCalltable(t)
        \/ Load \/ Unload \/ LoaderStep \/ Idle \/ UNCHANGED vars
    BY <1>4 DEF Next
  <2>2. pc'[Loader] = pc[Loader] \/ Load \/ Unload \/ LoaderStep
    BY <2>1 DEF LockPidlist, LockCalltable, Idle, vars
  <2>3. QED
    BY <1>2, <1>3, <2>2
<1>5. QED
  BY <1>2, <1>3, <1>4, WhoMoves

LEMMA NextUntouched ==
    ASSUME TypeInv, Untouched, StartsAreReady, [Next]_vars
    PROVE  Untouched'
<1> SUFFICES ASSUME NEW s \in Syscall, NEW q \in Proc, ~ ListReady(s)'
             PROVE  table'[s].my_list[q] = 0
  BY DEF Untouched
<1>1. ~ ListReady(s)
  BY ReadyForEver DEF ListReady, InitRange
<1>2. table[s].my_list[q] = 0
  BY <1>1 DEF Untouched
<1>3. \A p \in Proc : ~ (pc[p] = "start" /\ req[p].sys = s)
  BY <1>1 DEF StartsAreReady
<1>4. QED
  BY <1>2, <1>3, OnlyStartLists DEF Start, Holding

\* START gets to its second lock only with the list it was let in for.
LEMMA ComesToStart ==
    ASSUME TypeInv, [Next]_vars, NEW p \in Proc, pc'[p] = "start"
    PROVE  /\ req'[p] = req[p]
           /\ \/ pc[p] = "start"
              \/ pc[p] = "context" /\ req[p].cmd = START /\ ListReady(req[p].sys)
<1>1. pc \in [Task -> ProcPlace \union LoaderPlace] /\ p \in Task
  BY DEF TypeInv, TypeOK, Task
<1>2. CASE CheckContext(p)
  <2>1. Goto(p, CommandPlace(req[p].cmd)) /\ UNCHANGED req /\ pc[p] = "context"
    BY <1>1, <1>2 DEF CheckContext, Holding, Oops, Return, Goto
  <2>2. CommandPlace(req[p].cmd) = "start" /\ req[p].cmd \in Cmds
    BY <1>1, <2>1 DEF Goto, TypeInv, RequestsOK
  <2>3. req[p].cmd = START
    BY <2>2, CmdsAssumption DEF CommandPlace, INTERCEPT, RELEASE, START, STOP
  <2>4. ListReady(req[p].sys)
    BY <1>1, <1>2, <2>1, <2>3 DEF CheckContext, Oops, Goto
  <2>5. QED
    BY <2>1, <2>3, <2>4
<1>3. ASSUME Request(p) \/ CallSyscall(p) \/ Exit(p) \/ Run(p) \/ Unmapped(p),
             ~ CheckContext(p)
      PROVE  FALSE
  <2>1. \E place : place # "start" /\ Goto(p, place)
    <3>1. CASE Request(p) \/ CallSyscall(p) \/ Exit(p) \/ Unmapped(p)
      BY <3>1 DEF Request, CallSyscall, Exit, Unmapped, Oops
    <3>2. CASE CallOriginal(p)
      <4>1. req[p].sys \in Syscall
        BY <3>2 DEF CallOriginal, At, TypeInv, RequestsOK
      <4>2. table[req[p].sys].f \in {"original", "interceptor", "none"}
        BY <4>1 DEF TypeInv, TypeOK, Entry, Handler
      <4>3. QED
        BY <3>2, <4>2 DEF CallOriginal, Return
    <3>3. CASE Log(p) \/ ExitGroup(p) \/ Disappear(p) \/ CheckArgs(p) \/ CheckOwner(p)
      BY <3>3 DEF Log, ExitGroup, Disappear, CheckArgs, CheckOwner, Oops, Return
    <3>4. CASE \/ Intercept(p) \/ Hijack(p) \/ Release(p) \/ Restore(p) \/ Start(p)
               \/ Stop(p)
      BY <3>4 DEF Intercept, Hijack, Release, Restore, Start, Stop, Return
    <3>5. QED
      BY <1>3, <3>1, <3>2, <3>3, <3>4 DEF Run, Command
  <2>2. QED
    BY <1>1, <2>1 DEF Goto
<1>4. QED
  BY <1>2, <1>3, WhoMoves

LEMMA NextStartsAreReady ==
    ASSUME TypeInv, StartsAreReady, [Next]_vars
    PROVE  StartsAreReady'
<1> SUFFICES ASSUME NEW p \in Proc, pc'[p] = "start"
             PROVE  TableReady' /\ req'[p].sys \in InitRange
  BY DEF StartsAreReady, ListReady, InitRange
<1>1. req'[p] = req[p] /\ ListReady(req[p].sys)
  BY ComesToStart DEF StartsAreReady
<1>2. QED
  BY <1>1, ReadyForEver DEF ListReady, InitRange

\* A process of a loaded module disappears by way of my_exit_group.
LEMMA GoesThroughExit ==
    ASSUME TypeInv, [Next]_vars, Entered, NEW q \in Proc,
           pc'[q] \in {"gone", "dead"}, pc[q] \notin {"gone", "dead"}
    PROVE  ExitGroup(q) /\ ~ Oops(q)
<1>1. pc \in [Task -> ProcPlace \union LoaderPlace] /\ q \in Task
  BY DEF TypeInv, TypeOK, Task
<1>2. CASE ExitGroup(q)
  BY <1>1, <1>2 DEF Oops, Goto
<1>3. ASSUME Request(q) \/ CallSyscall(q) \/ Exit(q) \/ Run(q) \/ Unmapped(q),
             ~ ExitGroup(q)
      PROVE  FALSE
  <2>1. \E place : place \notin {"gone", "dead"} /\ Goto(q, place)
    <3>1. CASE Request(q) \/ CallSyscall(q) \/ Exit(q) \/ Unmapped(q)
      BY <3>1 DEF Request, CallSyscall, Exit, Unmapped, Oops, Entered, At
    <3>2. CASE CallOriginal(q)
      <4>1. req[q].sys \in Syscall
        BY <3>2 DEF CallOriginal, At, TypeInv, RequestsOK
      <4>2. table[req[q].sys].f \in {"original", "interceptor", "none"}
        BY <4>1 DEF TypeInv, TypeOK, Entry, Handler
      <4>3. QED
        BY <3>2, <4>2 DEF CallOriginal, Return
    <3>3. CASE Log(q) \/ CheckArgs(q) \/ CheckOwner(q)
      BY <3>3 DEF Log, CheckArgs, CheckOwner, Oops, Return
    <3>4. CASE CheckContext(q)
      <4>1. req[q].cmd \in {INTERCEPT, RELEASE, START, STOP}
        BY <3>4, CmdsAssumption DEF CheckContext, Holding, TypeInv, RequestsOK
      <4>2. CommandPlace(req[q].cmd) \in {"intercept", "release", "start", "stop"}
        BY <4>1 DEF CommandPlace, INTERCEPT, RELEASE, START, STOP
      <4>3. QED
        BY <3>4, <4>2 DEF CheckContext, Oops, Return
    <3>5. CASE \/ Intercept(q) \/ Hijack(q) \/ Release(q) \/ Restore(q) \/ Start(q)
               \/ Stop(q)
      BY <3>5 DEF Intercept, Hijack, Release, Restore, Start, Stop, Return
    <3>6. CASE Disappear(q)
      BY <3>6 DEF Disappear, At
    <3>7. QED
      BY <1>3, <3>1, <3>2, <3>3, <3>4, <3>5, <3>6 DEF Run, Command
  <2>2. QED
    BY <1>1, <2>1 DEF Goto
<1>4. QED
  BY <1>2, <1>3, WhoMoves

LEMMA NextGoneUnlisted ==
    ASSUME TypeInv, DeadInv, NoLateStart, [Next]_vars
    PROVE  GoneUnlisted'
<1> SUFFICES ASSUME At(Loader, "loaded")', NEW q \in Proc, NEW s \in Syscall,
                    pc'[q] \in {"gone", "dead"}
             PROVE  table'[s].my_list[q] = 0
  BY DEF GoneUnlisted
<1>1. CASE ~ TableReady
  <2>1. table[s].my_list[q] = 0 /\ \A p \in Proc : pc[p] # "start"
    BY <1>1 DEF DeadInv, Untouched, StartsAreReady, ListReady
  <2>2. QED
    BY <2>1, OnlyStartLists DEF Start, Holding
<1>2. CASE At(Loader, "loaded") /\ pc[q] \in {"gone", "dead"}
  <2>1. table[s].my_list[q] = 0
    BY <1>2 DEF DeadInv, GoneUnlisted
  <2>2. \A p \in Proc : ~ (pc[p] = "start" /\ req[p].pid = q)
    BY <1>2, ProcAssumption DEF NoLateStart
  <2>3. QED
    BY <2>1, <2>2, OnlyStartLists DEF Start, Holding
<1>3. CASE At(Loader, "loaded") /\ pc[q] \notin {"gone", "dead"}
  BY <1>3, GoesThroughExit, ExitUnlists DEF DeadInv, Entered, At
<1>4. QED
  BY <1>1, <1>2, <1>3, ReadyForEver

LEMMA InitDeadInv == Init => DeadInv
  BY ProcAssumption DEF Init, DeadInv, Untouched, StartsAreReady, GoneUnlisted, Task,
                        ZeroEntry, EmptyList

\* "Remove the exiting process's pid from *all* syscall lists" (interceptor.c:236):
\* a process that has exited can only be in a list by a START that was let in for it
\* while it lived and acts after it has gone, between the two locks of my_syscall.
\* Nothing else, of any number of processes, brings it back: not another command,
\* not an exit before the module was loaded, not an entry that del_pid does not visit.
THEOREM OnlyLateStartsListTheDead == Spec /\ []NoLateStart => []DeadAreNotListed
<1>1. DeadInv => DeadAreNotListed
  BY DEF DeadInv, GoneUnlisted, DeadAreNotListed
<1>2. IInv /\ DeadInv /\ NoLateStart /\ [Next]_vars => DeadInv'
  BY NextUntouched, NextStartsAreReady, NextGoneUnlisted DEF IInv, DeadInv
<1>3. QED
  BY <1>1, <1>2, InitDeadInv, Invariance, PTL DEF Spec

\* Without the assumption about behaviours: while the module is loaded, no step but
\* such a START puts a process that is past my_exit_group into a list.
THEOREM TheGoneAreListedLateOnly == Spec => OnlyLateStartsListTheGone
<1> DEFINE Ready == Untouched /\ StartsAreReady
           Late(s, p) == \E t \in Proc : /\ Serves(t, "start", s) /\ req[t].pid = p
                                        /\ pc[p] \in {"gone", "dead"}
<1>1. Init => Ready
  BY InitDeadInv DEF DeadInv
<1>2. IInv /\ Ready /\ [Next]_vars => Ready'
  BY NextUntouched, NextStartsAreReady DEF IInv
<1>3. ASSUME IInv, Lists, Ready, [Next]_vars,
             pc[Loader] \in {"init_table", "loaded", "exit_restore"},
             NEW s \in Syscall, NEW p \in Proc, ListedGone(s, p)', ~ListedGone(s, p)
      PROVE  Late(s, p)
  <2>1. pc'[p] \in {"gone", "dead"} /\ table'[s].my_list[p] > 0
    BY <1>3 DEF ListedGone
  <2>2. pc[p] \in {"gone", "dead"}
    <3>1. CASE pc[p] \notin {"gone", "dead"}
      <4>1. ExitGroup(p) /\ ~Oops(p)
        BY <1>3, <2>1, <3>1, GoesThroughExit DEF Entered, IInv
      <4>2. table'[s].my_list[p] = 0
        BY <1>3, <4>1, ExitUnlists DEF IInv
      <4>3. QED
        BY <2>1, <4>2
    <3>2. QED
      BY <3>1
  <2>3. table[s].my_list[p] = 0
    <3>1. table[s].my_list[p] \in Int /\ table[s].my_list[p] >= 0
      BY <1>3 DEF IInv, TypeInv, TypeOK, Entry, Lists, Counted
    <3>2. QED
      BY <1>3, <2>2, <3>1 DEF ListedGone
  <2>4. \E t \in Proc : Start(t) /\ req[t].sys = s /\ req[t].pid = p
    BY <1>3, <2>1, <2>3, OnlyStartLists DEF IInv
  <2>5. QED
    BY <2>2, <2>4 DEF Start, Holding, Serves
<1>4. IInv /\ Lists /\ Ready /\ [Next]_vars =>
        [pc[Loader] \in {"init_table", "loaded", "exit_restore"} =>
            \A s \in Syscall, p \in Proc :
                ListedGone(s, p)' =>
                    \/ ListedGone(s, p)
                    \/ \E t \in Proc : /\ Serves(t, "start", s) /\ req[t].pid = p
                                       /\ pc[p] \in {"gone", "dead"}]_vars
  BY <1>3
<1>5. Spec => []Ready
  BY <1>1, <1>2, Invariance, PTL DEF Spec
<1>6. QED
  BY <1>4, <1>5, ListsInvariance, PTL DEF Spec, OnlyLateStartsListTheGone

-----------------------------------------------------------------------------
\* An entry that is monitored for some pids has one in its list.
Busy(e) == e.monitored = 1 => \E p \in Proc : e.my_list[p] > 0

LEMMA CountPositive ==
    ASSUME NEW e \in Entry, Counted(e), e.listcount # 0
    PROVE  \E p \in Proc : e.my_list[p] > 0
<1>1. PICK n \in Nodes(e.my_list) : TRUE
  BY FS_EmptySet DEF Counted
<1>2. PICK p \in Proc : n \in {p} \X (1 .. e.my_list[p])
  BY <1>1 DEF Nodes
<1>3. e.my_list[p] \in Int
  BY DEF Entry
<1>4. QED
  BY <1>2, <1>3

LEMMA UnmonitoredBusy ==
    ASSUME NEW e \in Entry, Counted(e)
    PROVE  Busy(Unmonitored(e))
<1>1. /\ Unmonitored(e).my_list = e.my_list
      /\ Unmonitored(e).monitored = IF e.listcount = 0 /\ e.monitored = 1
                                    THEN 0 ELSE e.monitored
  BY DEF Unmonitored, Entry
<1>2. QED
  BY <1>1, CountPositive DEF Busy

\* Of the functions on lists only those that set the flag can leave it without a
\* pid, and these leave the list as it is.
LEMMA DelPidBusy ==
    ASSUME NEW e \in Entry, Counted(e), NEW p \in Proc
    PROVE  /\ e.my_list[p] > 0 => Busy(del_pid_sysc(e, p))
           /\ Busy(e) => Busy(del_pid(e, p))
<1> DEFINE one == [e EXCEPT !.my_list[p] = @ - 1, !.listcount = @ - 1]
           all == [e EXCEPT !.my_list[p] = 0, !.listcount = @ - e.my_list[p]]
<1>1. /\ e.my_list \in [Proc -> Int] /\ e.listcount \in Int
      /\ \A q \in Proc : e.my_list[q] \in Int /\ e.my_list[q] >= 0
  BY DEF Entry, Counted
<1>2. ASSUME NEW n \in Nat, n <= e.my_list[p],
             NEW u, u = [e EXCEPT !.my_list = [e.my_list EXCEPT ![p] = n],
                                  !.listcount = e.listcount - (e.my_list[p] - n)]
      PROVE  Busy(Unmonitored(u))
  <2>1. /\ [e.my_list EXCEPT ![p] = n] \in [Proc -> Int]
        /\ e.listcount - (e.my_list[p] - n) \in Int
    BY <1>1
  <2>2. u \in Entry
    BY <1>2, <2>1, EntryWithList, Zenon
  <2>3. /\ u.my_list = [e.my_list EXCEPT ![p] = n]
        /\ u.listcount = e.listcount - (e.my_list[p] - n)
    BY <1>2 DEF Entry
  <2>4. Counted(u)
    BY <1>2, <2>3, NodesDroppedCounted
  <2>5. QED
    BY <2>2, <2>4, UnmonitoredBusy
<1>3. ASSUME e.my_list[p] > 0
      PROVE  Busy(del_pid_sysc(e, p))
  <2>1. PICK n \in Nat : n = e.my_list[p] - 1
    BY <1>1, <1>3
  <2>2. e.listcount - 1 = e.listcount - (e.my_list[p] - n) /\ n <= e.my_list[p]
    BY <1>1, <2>1
  <2>3. one = [e EXCEPT !.my_list = [e.my_list EXCEPT ![p] = n],
                        !.listcount = e.listcount - (e.my_list[p] - n)]
    BY <2>1, <2>2
  <2> HIDE DEF one
  <2>4. Busy(Unmonitored(one))
    BY <1>2, <2>2, <2>3
  <2>5. QED
    BY <2>4 DEF del_pid_sysc, one
<1>4. ASSUME Busy(e)
      PROVE  Busy(del_pid(e, p))
  <2>1. e.listcount - e.my_list[p] = e.listcount - (e.my_list[p] - 0) /\ 0 <= e.my_list[p]
    BY <1>1
  <2>2. all = [e EXCEPT !.my_list = [e.my_list EXCEPT ![p] = 0],
                        !.listcount = e.listcount - (e.my_list[p] - 0)]
    BY <2>1
  <2> HIDE DEF all
  <2>3. Busy(Unmonitored(all))
    BY <1>2, <2>1, <2>2
  <2>4. QED
    BY <1>4, <2>3 DEF del_pid, all
<1>5. QED
  BY <1>3, <1>4

LEMMA EmptiedBusy ==
    ASSUME NEW e \in Entry, NEW d \in {destroy_list(e), StartedAll(e), InitialEntry(e),
                                       InitialEntry(destroy_list(e))}
    PROVE  Busy(d)
<1>1. d.monitored = 0
  BY DEF destroy_list, StartedAll, InitialEntry, Entry
<1>2. QED
  BY <1>1 DEF Busy

LEMMA StartStopBusy ==
    ASSUME NEW e \in Entry, Counted(e), NEW p \in Proc,
           NEW d \in StartedOne(e, p) \union {StoppedOne(e, p)},
           d.my_list # e.my_list
    PROVE  Busy(d)
<1> DEFINE one == [e EXCEPT !.monitored = 1]
<1>1. /\ one \in Entry /\ one.my_list = e.my_list /\ one.listcount = e.listcount
      /\ e.my_list \in [Proc -> Int] /\ e.my_list[p] \in Int /\ e.my_list[p] >= 0
  BY DEF Entry, Counted
<1>2. Counted(one)
  BY <1>1, FlagsKeepCounted
<1>3. \/ d \in {one, e, add_pid_sysc(one, p)}
      \/ e.my_list[p] > 0 /\ d \in {del_pid_sysc(one, p), del_pid_sysc(e, p)}
  BY DEF StartedOne, StoppedOne
<1> HIDE DEF one
<1>4. CASE d = add_pid_sysc(one, p)
  <2>1. d.my_list = [e.my_list EXCEPT ![p] = e.my_list[p] + 1]
    BY <1>1, <1>4 DEF add_pid_sysc, Entry
  <2>2. d.my_list[p] > 0
    BY <1>1, <2>1
  <2>3. QED
    BY <2>2 DEF Busy
<1>5. CASE e.my_list[p] > 0 /\ d \in {del_pid_sysc(one, p), del_pid_sysc(e, p)}
  BY <1>1, <1>2, <1>5, DelPidBusy
<1>6. QED
  BY <1>1, <1>3, <1>4, <1>5

\* "monitored=1 => some pids are monitored" (interceptor.c:287): for any number of
\* processes that race, the flag and the list of a system call part in three ways
\* only, RELEASE, a START without memory and a STOP whose pid has left the list.
THEOREM MonitoringAlwaysFollowsLists == Spec => MonitoringFollowsLists
<1> DEFINE Parting(s) ==
              \E p \in Proc :
                \/ Serves(p, "release", s) /\ pc'[p] = "restore"
                \/ /\ Serves(p, "start", s) \/ Serves(p, "stop", s)
                   /\ pc'[p] = "user" /\ req[p].pid # AllPids
                   /\ table'[s].my_list = table[s].my_list
<1>1. ASSUME IInv, Lists, [Next]_vars, NEW s \in Syscall, MonitoredAsListed(s), ~Parting(s)
      PROVE  MonitoredAsListed(s)'
  <2>1. /\ table[s] \in Entry /\ Counted(table[s]) /\ TypeInv
        /\ pc \in [Task -> ProcPlace \union LoaderPlace] /\ Proc \subseteq Task
    BY <1>1 DEF IInv, TypeInv, TypeOK, Lists, Task
  <2>2. Watched(table[s]) /\ Busy(table[s])
    BY <1>1 DEF MonitoredAsListed, Watched, Busy
  <2>3. Watched(table'[s]) /\ Busy(table'[s])
    <3>1. CASE table'[s] \in Rewritten(table[s])
      <4>1. Watched(table'[s])
        BY <2>1, <2>2, <3>1, RewrittenLists
      <4>2. Busy(table'[s])
        BY <2>1, <2>2, <3>1, DelPidBusy, EmptiedBusy DEF Rewritten
      <4>3. QED
        BY <4>1, <4>2
    <3>2. CASE OnlyFlags(s, table'[s])
      <4>1. ASSUME NEW p \in Proc, Release(p), req[p].sys = s
            PROVE  FALSE
        <5>1. Serves(p, "release", s) /\ pc'[p] = "restore"
          BY <2>1, <4>1 DEF Release, Holding, Goto, Serves
        <5>2. QED
          BY <1>1, <5>1
      <4>2. /\ table'[s].my_list = table[s].my_list
            /\ table'[s].monitored = table[s].monitored
        BY <3>2, <4>1 DEF OnlyFlags
      <4>3. QED
        BY <2>2, <4>2 DEF Watched, Busy
    <3>3. CASE Listing(s, table'[s]) \/ Stopping(s, table'[s])
      <4>1. PICK p \in Proc : /\ Start(p) \/ Stop(p)
                             /\ req[p].sys = s /\ req[p].pid \in Proc
                             /\ table'[s] \in StartedOne(table[s], req[p].pid)
                                            \union {StoppedOne(table[s], req[p].pid)}
        BY <3>3 DEF Listing, Stopping
      <4>2. /\ Serves(p, "start", s) \/ Serves(p, "stop", s)
            /\ pc'[p] = "user" /\ req[p].pid # AllPids
        BY <2>1, <4>1, ProcAssumption DEF Start, Stop, Holding, Return, Goto, Serves
      <4>3. table'[s].my_list # table[s].my_list
        BY <1>1, <4>2
      <4>4. Busy(table'[s])
        BY <2>1, <4>1, <4>3, StartStopBusy
      <4>5. Watched(table'[s])
        BY <2>1, <2>2, <4>1, StartStopLists
      <4>6. QED
        BY <4>4, <4>5
    <3>4. QED
      BY <2>1, <1>1, <3>1, <3>2, <3>3, NextTable
  <2>4. QED
    BY <2>3 DEF MonitoredAsListed, Watched, Busy
<1>2. IInv /\ Lists /\ [Next]_vars =>
        [\A s \in Syscall :
            MonitoredAsListed(s) =>
                \/ MonitoredAsListed(s)'
                \/ \E p \in Proc :
                    \/ Serves(p, "release", s) /\ pc'[p] = "restore"
                    \/ /\ Serves(p, "start", s) \/ Serves(p, "stop", s)
                       /\ pc'[p] = "user" /\ req[p].pid # AllPids
                       /\ table'[s].my_list = table[s].my_list]_vars
  BY <1>1
<1>3. QED
  BY <1>2, ListsInvariance, PTL DEF Spec, MonitoringFollowsLists

-----------------------------------------------------------------------------
\* Only START for the pid itself makes its nodes more.
LEMMA NotMore ==
    ASSUME NEW e \in Entry, NEW q \in Proc, e.my_list[q] >= 0
    PROVE  /\ \A d \in Rewritten(e) : d.my_list[q] <= e.my_list[q]
           /\ \A p \in Proc : StoppedOne(e, p).my_list[q] <= e.my_list[q]
           /\ \A p \in Proc \ {q} : \A d \in StartedOne(e, p) : d.my_list[q] <= e.my_list[q]
           /\ \A d \in StartedOne(e, q) : d.my_list[q] <= e.my_list[q] + 1
<1> DEFINE one == [e EXCEPT !.monitored = 1]
<1>1. /\ one \in Entry /\ one.my_list = e.my_list /\ e.my_list \in [Proc -> Int]
      /\ e.my_list[q] \in Int
  BY DEF Entry
<1>2. ASSUME NEW c \in Entry, c.my_list = e.my_list, NEW p \in Proc
      PROVE  /\ del_pid_sysc(c, p).my_list[q] <= e.my_list[q]
             /\ del_pid_sysc(c, p).my_list[q] <= e.my_list[q] + 1
             /\ add_pid_sysc(c, p).my_list[q] <= e.my_list[q] + 1
             /\ p # q => add_pid_sysc(c, p).my_list[q] = e.my_list[q]
  <2>1. /\ del_pid_sysc(c, p).my_list = [c.my_list EXCEPT ![p] = c.my_list[p] - 1]
        /\ add_pid_sysc(c, p).my_list = [c.my_list EXCEPT ![p] = c.my_list[p] + 1]
    BY DEF del_pid_sysc, add_pid_sysc, Unmonitored, Entry
  <2>2. QED
    BY <1>1, <1>2, <2>1
<1>3. ASSUME NEW p \in Proc
      PROVE  del_pid(e, p).my_list[q] <= e.my_list[q]
  <2>1. del_pid(e, p).my_list \in {e.my_list, [e.my_list EXCEPT ![p] = 0]}
    BY DEF del_pid, Unmonitored, Entry
  <2>2. QED
    BY <1>1, <2>1
<1>4. ASSUME NEW p \in Proc
      PROVE  StoppedOne(e, p).my_list[q] <= e.my_list[q]
  <2>1. StoppedOne(e, p) = IF e.my_list[p] > 0 THEN del_pid_sysc(one, p) ELSE one
    BY DEF StoppedOne
  <2> HIDE DEF one
  <2>2. QED
    BY <1>1, <1>2, <2>1
<1>5. ASSUME NEW p \in Proc, NEW d \in StartedOne(e, p)
      PROVE  /\ d.my_list[q] <= e.my_list[q] + 1
             /\ p # q => d.my_list[q] <= e.my_list[q]
  <2>1. d \in {add_pid_sysc(one, p), one, del_pid_sysc(e, p), e}
    BY DEF StartedOne
  <2> HIDE DEF one
  <2>2. QED
    BY <1>1, <1>2, <2>1
<1>6. ASSUME NEW d \in {e, destroy_list(e), StartedAll(e), InitialEntry(e),
                        InitialEntry(destroy_list(e))}
      PROVE  d.my_list[q] <= e.my_list[q]
  <2>1. d = e \/ d.my_list = EmptyList
    BY <1>6 DEF destroy_list, InitialEntry, StartedAll, Entry
  <2>2. QED
    BY <1>1, <2>1 DEF EmptyList
<1>7. QED
  BY <1>3, <1>4, <1>5, <1>6 DEF Rewritten

LEMMA OnlyStartAdds ==
    ASSUME TypeInv, Lists, [Next]_vars, NEW s \in Syscall, NEW q \in Proc
    PROVE  \/ table'[s].my_list[q] <= table[s].my_list[q]
           \/ /\ table'[s].my_list[q] <= table[s].my_list[q] + 1
              /\ \E p \in Proc : Start(p) /\ req[p].sys = s /\ req[p].pid = q
<1>1. table[s] \in Entry /\ table[s].my_list[q] \in Int /\ table[s].my_list[q] >= 0
  BY DEF TypeInv, TypeOK, Entry, Lists, Counted
<1>2. CASE table'[s] \in Rewritten(table[s])
  BY <1>1, <1>2, NotMore
<1>3. CASE OnlyFlags(s, table'[s])
  BY <1>1, <1>3 DEF OnlyFlags
<1>4. CASE Listing(s, table'[s])
  BY <1>1, <1>4, NotMore DEF Listing
<1>5. CASE Stopping(s, table'[s])
  BY <1>1, <1>5, NotMore DEF Stopping
<1>6. QED
  BY <1>2, <1>3, <1>4, <1>5, NextTable

\* START was let in for a pid that is not in the list.
LEMMA LetIn ==
    ASSUME TypeInv, [Next]_vars, NEW t \in Proc, pc'[t] = "start", pc[t] # "start",
           req[t].pid \in Proc
    PROVE  /\ ~check_pid_monitored(req[t].sys, req[t].pid)
           /\ table' = table
<1>1. pc[t] = "context" /\ req[t].cmd = START
  BY ComesToStart
<1>2. CheckContext(t)
  <2>1. Request(t) \/ CallSyscall(t) \/ Exit(t) \/ Run(t) \/ Unmapped(t)
    BY WhoMoves
  <2>2. pc'[t] # "oops"
    OBVIOUS
  <2>3. CASE Unmapped(t)
    BY <2>3 DEF Unmapped, Oops, Goto, TypeInv, TypeOK, Task
  <2>4. QED
    BY <1>1, <2>1, <2>3 DEF Request, CallSyscall, Exit, Run, Command, CheckArgs, CheckOwner,
        Intercept, Hijack, Release, Restore, Start, Stop, Log, CallOriginal, ExitGroup,
        Disappear, At, Holding
<1>3. ~Refused(req[t].cmd, req[t].sys, req[t].pid) /\ table' = table
  BY <1>2 DEF CheckContext, Oops, Return, Goto, TypeInv, TypeOK, Task
<1>4. QED
  BY <1>1, <1>3 DEF Refused

\* "-EBUSY ... if monitoring a pid that is already being monitored" (interceptor.c:349):
\* for any number of processes, only a START that was let in beside another of the
\* same pid and system call makes a pid stand in a list twice.
THEOREM PidsAreListedTwiceByRacesOnly == Spec => OnlyRacingStartsListTwice
<1>1. ASSUME IInv, Lists, Lists', [Next]_vars, NEW s \in Syscall, NEW p \in Proc,
             ListedRight(s, p),
             ~ \E t, u \in Proc : /\ t # u /\ req[t].pid = p /\ req[u].pid = p
                                 /\ Serves(t, "start", s) /\ pc'[t] = "user"
                                 /\ Serves(u, "start", s)
      PROVE  ListedRight(s, p)'
  <2>1. /\ TypeInv /\ table[s].my_list[p] \in {0, 1}
        /\ pc \in [Task -> ProcPlace \union LoaderPlace] /\ Proc \subseteq Task
        /\ table'[s].my_list[p] >= 0
    BY <1>1 DEF IInv, TypeInv, TypeOK, ListedRight, Task, Lists, Counted
  <2>2. table'[s].my_list[p] \in Int
    BY <1>1, NextTypeInv DEF IInv, TypeInv, TypeOK, Entry
  <2>3. ASSUME NEW t \in Proc, Start(t), req[t].sys = s, req[t].pid = p
        PROVE  ListedRight(s, p)'
    <3>1. Serves(t, "start", s) /\ pc'[t] = "user"
      BY <2>1, <2>3 DEF Start, Holding, Return, Goto, Serves
    <3>2. table[s].my_list[p] = 0
      BY <1>1, <2>3, <3>1 DEF ListedRight
    <3>3. table'[s].my_list[p] \in {0, 1}
      <4>1. table'[s].my_list[p] <= 1
        BY <1>1, <2>1, <2>2, <3>2, OnlyStartAdds
      <4>2. QED
        BY <2>1, <2>2, <4>1
    <3>4. ASSUME NEW u \in Proc, (Serves(u, "start", s) /\ req[u].pid = p)'
          PROVE  FALSE
      <4>1. pc'[u] = "start" /\ u # t
        BY <3>1, <3>4 DEF Serves
      <4>2. req'[u] = req[u] /\ pc'[u] = pc[u]
        BY <2>1, <2>3, <4>1, OwnMoves DEF Run, Command
      <4>3. QED
        BY <1>1, <2>3, <3>1, <3>4, <4>1, <4>2 DEF Serves
    <3>5. QED
      BY <3>3, <3>4 DEF ListedRight
  <2>4. ASSUME \A t \in Proc : ~(Start(t) /\ req[t].sys = s /\ req[t].pid = p)
        PROVE  ListedRight(s, p)'
    <3>1. table'[s].my_list[p] <= table[s].my_list[p]
      BY <1>1, <2>1, <2>4, OnlyStartAdds
    <3>2. table'[s].my_list[p] \in {0, 1}
      BY <2>1, <2>2, <3>1
    <3>3. ASSUME NEW t \in Proc, (Serves(t, "start", s) /\ req[t].pid = p)'
          PROVE  table'[s].my_list[p] = 0
      <4>1. pc'[t] = "start" /\ req'[t] = req[t] /\ req[t].sys = s /\ req[t].pid = p
        BY <1>1, <2>1, <3>3, ComesToStart DEF Serves
      <4>2. table[s].my_list[p] = 0
        <5>1. CASE pc[t] = "start"
          BY <1>1, <4>1, <5>1 DEF ListedRight, Serves
        <5>2. CASE pc[t] # "start"
          <6>1. ~check_pid_monitored(s, p)
            BY <1>1, <2>1, <4>1, <5>2, LetIn
          <6>2. QED
            BY <2>1, <6>1 DEF check_pid_monitored
        <5>3. QED
          BY <5>1, <5>2
      <4>3. QED
        BY <2>1, <2>2, <3>1, <4>2
    <3>4. QED
      BY <3>2, <3>3 DEF ListedRight
  <2>5. QED
    BY <2>3, <2>4
<1>2. IInv /\ Lists /\ Lists' /\ [Next]_vars =>
        [\A s \in Syscall, p \in Proc :
            ListedRight(s, p) =>
                \/ ListedRight(s, p)'
                \/ \E t, u \in Proc : /\ t # u /\ req[t].pid = p /\ req[u].pid = p
                                      /\ Serves(t, "start", s) /\ pc'[t] = "user"
                                      /\ Serves(u, "start", s)]_vars
  BY <1>1
<1>3. QED
  BY <1>2, ListsInvariance, PTL DEF Spec, OnlyRacingStartsListTwice

-----------------------------------------------------------------------------
(***************************************************************************)
(* The books of a system call: the flag, the saved handler and the call    *)
(* table.  Four steps write them, INTERCEPT and RELEASE in two halves; all *)
(* others leave them alone.                                                *)
(***************************************************************************)
Writing == {"intercept", "hijack", "release", "restore"}

\* RELEASE keeps pidlist_lock from its first half to its second, so that nobody
\* sets the flag in between.
RestoreHolds ==
    \A p \in Proc : pc[p] = "restore" => pidlist = p /\ ~table[req[p].sys].intercepted

SameBooks(s) ==
    /\ table'[s].f = table[s].f /\ table'[s].intercepted = table[s].intercepted
    /\ sct'[s] = sct[s]

LEMMA HelpersKeepBooks ==
    ASSUME NEW e \in Entry, NEW p \in Proc,
           NEW d \in {e, del_pid(e, p), destroy_list(e), StartedAll(e), StoppedOne(e, p)}
                    \union StartedOne(e, p)
    PROVE  d.f = e.f /\ d.intercepted = e.intercepted
<1> USE DEF Entry
<1>1. CASE d \in {e, destroy_list(e), StartedAll(e)}
  BY <1>1 DEF destroy_list, StartedAll
<1>2. CASE d = del_pid(e, p)
  BY <1>2 DEF del_pid, Unmonitored
<1>3. CASE d = StoppedOne(e, p)
  BY <1>3 DEF StoppedOne, del_pid_sysc, Unmonitored
<1>4. CASE d \in StartedOne(e, p)
  BY <1>4 DEF StartedOne, add_pid_sysc, del_pid_sysc, Unmonitored
<1>5. QED
  BY <1>1, <1>2, <1>3, <1>4

\* The steps of a process that do not write the books: it comes from a place where it
\* would not have done so and goes to none, but for a command that is let in.
Elsewhere(p) ==
    /\ pc[p] \notin Writing
    /\ \/ pc'[p] \notin Writing
       \/ /\ pc'[p] \in {"intercept", "release"} /\ req' = req
          /\ pc'[p] = "intercept" => ~table[req[p].sys].intercepted

LEMMA RunsElsewhere ==
    ASSUME TypeInv, NEW p \in Proc,
           Request(p) \/ CallSyscall(p) \/ Exit(p) \/ Run(p),
           ~(Intercept(p) \/ Hijack(p) \/ Release(p) \/ Restore(p))
    PROVE  Elsewhere(p) /\ \A s \in Syscall : SameBooks(s)
<1>1. /\ pc \in [Task -> ProcPlace \union LoaderPlace] /\ p \in Task
      /\ table \in [Syscall -> Entry] /\ req[p] \in Args
  BY DEF TypeInv, TypeOK, Task
<1>2. table' = table /\ sct' = sct => \A s \in Syscall : SameBooks(s)
  BY DEF SameBooks
<1>3. \A place : Goto(p, place) => pc'[p] = place
  BY <1>1 DEF Goto
<1>4. CASE Request(p) \/ CallSyscall(p) \/ Exit(p) \/ Log(p) \/ Disappear(p)
  <2>1. /\ pc[p] \in {"user", "log", "gone"} /\ table' = table /\ sct' = sct
        /\ \E place \in {"args", "oops", "log", "exit", "dead", "call"} : Goto(p, place)
    BY <1>4 DEF Request, CallSyscall, Exit, Log, Disappear, At, Holding
  <2>2. QED
    BY <1>2, <1>3, <2>1 DEF Elsewhere, Writing
<1>5. CASE CallOriginal(p)
  <2>1. req[p].sys \in Syscall
    BY <1>5 DEF CallOriginal, At, TypeInv, RequestsOK
  <2>2. table[req[p].sys].f \in {"original", "interceptor", "none"}
    BY <1>1, <2>1 DEF Entry, Handler
  <2>3. /\ pc[p] = "call" /\ table' = table /\ sct' = sct
        /\ \E place \in {"user", "oops", "log"} : Goto(p, place)
    BY <1>5, <2>2 DEF CallOriginal, Return, At
  <2>4. QED
    BY <1>2, <1>3, <2>3 DEF Elsewhere, Writing
<1>6. CASE CheckArgs(p) \/ CheckOwner(p)
  <2>1. /\ pc[p] \in {"args", "owner"} /\ table' = table /\ sct' = sct
        /\ \E place \in {"user", "oops", "owner", "context"} : Goto(p, place)
    BY <1>6 DEF CheckArgs, CheckOwner, Return, Oops, At
  <2>2. QED
    BY <1>2, <1>3, <2>1 DEF Elsewhere, Writing
<1>7. CASE CheckContext(p)
  <2>1. /\ pc[p] = "context" /\ table' = table /\ sct' = sct
        /\ req[p].cmd \in {INTERCEPT, RELEASE, START, STOP}
    BY <1>7, CmdsAssumption DEF CheckContext, Holding, Oops, TypeInv, RequestsOK
  <2>2. \/ pc'[p] \in {"user", "oops"}
        \/ /\ pc'[p] = CommandPlace(req[p].cmd) /\ req' = req
           /\ ~Refused(req[p].cmd, req[p].sys, req[p].pid)
    BY <1>3, <1>7 DEF CheckContext, Oops, Return
  <2>3. CASE pc'[p] \in {"user", "oops"}
    BY <1>2, <2>1, <2>3 DEF Elsewhere, Writing
  <2>4. CASE /\ pc'[p] = CommandPlace(req[p].cmd) /\ req' = req
             /\ ~Refused(req[p].cmd, req[p].sys, req[p].pid)
    <3>1. /\ pc'[p] \in {"intercept", "release", "start", "stop"}
          /\ pc'[p] = "intercept" => req[p].cmd = INTERCEPT
      BY <2>1, <2>4 DEF CommandPlace, INTERCEPT, RELEASE, START, STOP
    <3>2. pc'[p] = "intercept" => ~table[req[p].sys].intercepted
      BY <2>4, <3>1 DEF Refused
    <3>3. QED
      BY <1>2, <2>1, <2>4, <3>1, <3>2 DEF Elsewhere, Writing
  <2>5. QED
    BY <2>2, <2>3, <2>4
<1>8. CASE Start(p) \/ Stop(p)
  <2>1. /\ pc[p] \in {"start", "stop"} /\ sct' = sct /\ pc'[p] = "user"
        /\ req[p].sys \in Syscall
        /\ req[p].pid # AllPids => req[p].pid \in Proc
    BY <1>1, <1>3, <1>8 DEF Start, Stop, Holding, Return, TypeInv, RequestsOK, Args, Pid
  <2>2. PICK d : /\ table' = [table EXCEPT ![req[p].sys] = d]
                 /\ d.f = table[req[p].sys].f
                 /\ d.intercepted = table[req[p].sys].intercepted
    <3> DEFINE e == table[req[p].sys]
    <3>1. e \in Entry
      BY <1>1, <2>1
    <3>2. CASE req[p].pid = AllPids
      <4>1. PICK d \in {destroy_list(e), StartedAll(e)} :
                table' = [table EXCEPT ![req[p].sys] = d]
        BY <1>8, <3>2 DEF Start, Stop
      <4> HIDE DEF e
      <4>2. d.f = e.f /\ d.intercepted = e.intercepted
        BY <3>1, HelpersKeepBooks
      <4>3. QED
        BY <4>1, <4>2 DEF e
    <3>3. CASE req[p].pid # AllPids
      <4>1. PICK d \in {StoppedOne(e, req[p].pid)} \union StartedOne(e, req[p].pid) :
                table' = [table EXCEPT ![req[p].sys] = d]
        BY <1>8, <3>3 DEF Start, Stop
      <4> HIDE DEF e
      <4>2. d.f = e.f /\ d.intercepted = e.intercepted
        BY <2>1, <3>1, <3>3, HelpersKeepBooks
      <4>3. QED
        BY <4>1, <4>2 DEF e
    <3>4. QED
      BY <3>2, <3>3
  <2>3. \A s \in Syscall : SameBooks(s)
    BY <1>1, <2>1, <2>2 DEF SameBooks
  <2>4. QED
    BY <2>1, <2>3 DEF Elsewhere, Writing
<1>9. CASE ExitGroup(p)
  <2>1. /\ pc[p] = "exit" /\ pc'[p] \in {"oops", "gone"} /\ sct' = sct
        /\ \A s \in Syscall : table'[s] \in {table[s], del_pid(table[s], p)}
    BY <1>3, <1>9 DEF ExitGroup, Oops, Holding
  <2>2. \A s \in Syscall : SameBooks(s)
    BY <1>1, <2>1, HelpersKeepBooks DEF SameBooks
  <2>3. QED
    BY <2>1, <2>2 DEF Elsewhere, Writing
<1>10. QED
  BY <1>4, <1>5, <1>6, <1>7, <1>8, <1>9 DEF Run, Command

\* The two halves of INTERCEPT and RELEASE.
LEMMA WriterSteps ==
    ASSUME TypeInv, NEW p \in Proc
    PROVE  /\ Intercept(p) =>
                /\ pc[p] = "intercept" /\ pc'[p] = "hijack" /\ pidlist = p
                /\ req' = req /\ sct' = sct /\ req[p].sys \in Syscall
                /\ table'[req[p].sys].f = sct[req[p].sys]
                /\ table'[req[p].sys].intercepted
                /\ \A s \in Syscall \ {req[p].sys} : table'[s] = table[s]
           /\ Hijack(p) =>
                /\ pc[p] = "hijack" /\ pc'[p] = "user"
                /\ table' = table /\ pidlist' = pidlist /\ req[p].sys \in Syscall
                /\ sct'[req[p].sys] = "interceptor"
                /\ \A s \in Syscall \ {req[p].sys} : sct'[s] = sct[s]
           /\ Release(p) =>
                /\ pc[p] = "release" /\ pc'[p] = "restore" /\ pidlist = p /\ pidlist' = p
                /\ req' = req /\ sct' = sct /\ req[p].sys \in Syscall
                /\ table'[req[p].sys].f = table[req[p].sys].f
                /\ ~table'[req[p].sys].intercepted
                /\ \A s \in Syscall \ {req[p].sys} : table'[s] = table[s]
           /\ Restore(p) =>
                /\ pc[p] = "restore" /\ pc'[p] = "user"
                /\ table' = table /\ req[p].sys \in Syscall
                /\ sct'[req[p].sys] = table[req[p].sys].f
                /\ \A s \in Syscall \ {req[p].sys} : sct'[s] = sct[s]
<1>1. /\ pc \in [Task -> ProcPlace \union LoaderPlace] /\ p \in Task
      /\ table \in [Syscall -> Entry] /\ sct \in [Syscall -> Handler]
  BY DEF TypeInv, TypeOK, Task
<1>2. ASSUME Intercept(p)
      PROVE  /\ table'[req[p].sys].f = sct[req[p].sys]
             /\ table'[req[p].sys].intercepted
             /\ \A s \in Syscall \ {req[p].sys} : table'[s] = table[s]
             /\ req[p].sys \in Syscall
  <2>1. req[p].sys \in Syscall
    BY <1>2 DEF Intercept, Holding, TypeInv, RequestsOK
  <2>2. table' = [table EXCEPT ![req[p].sys] =
                    [table[req[p].sys] EXCEPT !.intercepted = TRUE, !.f = sct[req[p].sys]]]
    BY <1>1, <1>2 DEF Intercept
  <2>3. table'[req[p].sys] =
            [table[req[p].sys] EXCEPT !.intercepted = TRUE, !.f = sct[req[p].sys]]
    BY <1>1, <2>1, <2>2
  <2>4. table[req[p].sys] \in Entry
    BY <1>1, <2>1
  <2>5. QED
    BY <1>1, <2>1, <2>2, <2>3, <2>4 DEF Entry
<1>3. ASSUME Release(p)
      PROVE  /\ table'[req[p].sys].f = table[req[p].sys].f
             /\ ~table'[req[p].sys].intercepted
             /\ \A s \in Syscall \ {req[p].sys} : table'[s] = table[s]
             /\ req[p].sys \in Syscall
  <2>1. req[p].sys \in Syscall
    BY <1>3 DEF Release, Holding, TypeInv, RequestsOK
  <2>2. table' = [table EXCEPT ![req[p].sys] =
                    [table[req[p].sys] EXCEPT !.intercepted = FALSE, !.monitored = 0]]
    BY <1>1, <1>3 DEF Release
  <2>3. table'[req[p].sys] = [table[req[p].sys] EXCEPT !.intercepted = FALSE, !.monitored = 0]
    BY <1>1, <2>1, <2>2
  <2>4. table[req[p].sys] \in Entry
    BY <1>1, <2>1
  <2>5. QED
    BY <1>1, <2>1, <2>2, <2>3, <2>4 DEF Entry
<1>4. QED
  BY <1>1, <1>2, <1>3 DEF Intercept, Hijack, Release, Restore, Holding, At, Goto, Return,
                          TypeInv, RequestsOK

LEMMA NextRestoreHolds ==
    ASSUME TypeInv, RestoreHolds, [Next]_vars
    PROVE  RestoreHolds'
<1> SUFFICES ASSUME NEW q \in Proc, pc'[q] = "restore"
             PROVE  pidlist' = q /\ ~table'[req'[q].sys].intercepted
  BY DEF RestoreHolds
<1>1. /\ pc \in [Task -> ProcPlace \union LoaderPlace] /\ Proc \subseteq Task
      /\ NoOne \notin Proc /\ Loader \notin Proc
  BY ProcAssumption DEF TypeInv, TypeOK, Task
<1>2. ASSUME NEW p \in Proc,
             \/ Request(p) \/ CallSyscall(p) \/ Exit(p) \/ Run(p) \/ Unmapped(p)
      PROVE  pidlist' = q /\ ~table'[req'[q].sys].intercepted
  <2>1. CASE p = q
    <3>1. Release(p)
      <4>1. CASE Hijack(p) \/ Restore(p) \/ Intercept(p)
        BY <1>2, <2>1, <4>1, WriterSteps
      <4>2. CASE Unmapped(p)
        BY <1>1, <2>1, <4>2 DEF Unmapped, Oops, Goto
      <4>3. CASE ~(\/ Intercept(p) \/ Hijack(p) \/ Release(p) \/ Restore(p) \/ Unmapped(p))
        BY <1>2, <2>1, <4>3, RunsElsewhere DEF Elsewhere, Writing
      <4>4. QED
        BY <4>1, <4>2, <4>3
    <3>2. QED
      BY <2>1, <3>1, WriterSteps
  <2>2. CASE p # q
    <3>1. pc'[q] = pc[q] /\ req'[q] = req[q] /\ req[q].sys \in Syscall
      BY <1>1, <1>2, <2>2, OwnMoves DEF TypeInv, RequestsOK
    <3>2. pidlist = q /\ ~table[req[q].sys].intercepted
      BY <3>1 DEF RestoreHolds
    <3>3. pidlist' = pidlist
      <4>1. CASE Holding(p, "intercept") \/ Holding(p, "log") \/ Holding(p, "start")
                 \/ Holding(p, "stop") \/ Holding(p, "context") \/ Holding(p, "exit")
        BY <2>2, <3>2, <4>1 DEF Holding
      <4>2. CASE Restore(p)
        BY <2>2, <3>2, <4>2 DEF Restore, At, RestoreHolds
      <4>3. CASE Release(p)
        BY <4>3 DEF Release
      <4>4. CASE Hijack(p)
        BY <4>4 DEF Hijack
      <4>5. CASE Request(p) \/ CallSyscall(p) \/ Exit(p) \/ Unmapped(p) \/ CheckArgs(p)
                 \/ CheckOwner(p) \/ Disappear(p)
        BY <4>5 DEF Request, CallSyscall, Exit, Unmapped, CheckArgs, CheckOwner, Disappear,
                    Oops
      <4>6. CASE CallOriginal(p)
        BY <4>6 DEF CallOriginal
      <4>7. CASE Intercept(p) \/ Log(p) \/ Start(p) \/ Stop(p) \/ CheckContext(p)
                 \/ ExitGroup(p)
        BY <4>1, <4>7 DEF Intercept, Log, Start, Stop, CheckContext, ExitGroup
      <4>8. QED
        BY <1>2, <4>2, <4>3, <4>4, <4>5, <4>6, <4>7 DEF Run, Command
    <3>4. ~table'[req[q].sys].intercepted
      <4>1. CASE Intercept(p)
        BY <2>2, <3>2, <4>1, WriterSteps
      <4>2. CASE Release(p) \/ Hijack(p) \/ Restore(p)
        BY <2>2, <3>1, <3>2, <4>2, WriterSteps
      <4>3. CASE Unmapped(p)
        BY <3>2, <4>3 DEF Unmapped, Oops
      <4>4. CASE ~(\/ Intercept(p) \/ Hijack(p) \/ Release(p) \/ Restore(p) \/ Unmapped(p))
        BY <1>2, <3>1, <3>2, <4>4, RunsElsewhere DEF SameBooks
      <4>5. QED
        BY <4>1, <4>2, <4>3, <4>4
    <3>5. QED
      BY <3>1, <3>2, <3>3, <3>4
  <2>3. QED
    BY <2>1, <2>2
<1>3. ASSUME UNCHANGED <<pc, req, table>>, pidlist # NoOne => pidlist' = pidlist
      PROVE  pidlist' = q /\ ~table'[req'[q].sys].intercepted
  BY <1>1, <1>3 DEF RestoreHolds
<1>4. ASSUME Load \/ Unload \/ LoaderStep
      PROVE  pidlist' = q /\ ~table'[req'[q].sys].intercepted
  <2>1. pc'[q] = pc[q] /\ req' = req
    BY <1>1, <1>4 DEF Load, Unload, LoaderStep, InitHijack, InitTable, ExitRestore,
                      ExitClear, Goto
  <2>2. pidlist = q /\ ~table[req[q].sys].intercepted
    BY <2>1 DEF RestoreHolds
  <2>3. table' = table /\ pidlist' = pidlist
    BY <1>1, <1>4, <2>2 DEF Load, Unload, LoaderStep, InitHijack, InitTable, ExitRestore,
                      ExitClear, Holding
  <2>4. QED
    BY <2>1, <2>2, <2>3
<1>5. QED
  BY <1>2, <1>3, <1>4 DEF Next, LockPidlist, LockCalltable, Idle, vars

\* A step that leaves the books of s alone and is nobody's who is about to write them.
LEMMA BooksKept ==
    ASSUME NEW s \in Syscall, BooksAgree(s), SameBooks(s), NEW p \in Proc, Elsewhere(p),
           \A q \in Proc \ {p} : pc'[q] = pc[q] /\ req'[q] = req[q]
    PROVE  BooksAgree(s)'
<1>1. \A q \in Proc : \A place \in {"hijack", "restore"} :
        Serves(q, place, s) <=> Serves(q, place, s)'
  BY DEF Serves, Elsewhere, Writing
<1>2. ASSUME NEW q \in Proc, Serves(q, "intercept", s)'
      PROVE  ~table[s].intercepted
  BY <1>2 DEF Serves, Elsewhere, Writing, BooksAgree
<1>3. QED
  BY <1>1, <1>2 DEF BooksAgree, SameBooks

\* The rest of the books' writers, for the system call they write.
LEMMA WritersAgree ==
    ASSUME TypeInv, RestoreHolds, NEW s \in Syscall, BooksAgree(s), ~Overtakes(s),
           NEW p \in Proc, Intercept(p) \/ Hijack(p) \/ Release(p) \/ Restore(p),
           req[p].sys = s
    PROVE  BooksAgree(s)'
<1>1. \A q \in Proc \ {p} : pc'[q] = pc[q] /\ req'[q] = req[q]
  BY OwnMoves DEF Run, Command, Task
<1>2. sct[s] \in {"original", "interceptor"} /\ table[s] \in Entry
  BY DEF TypeInv, TypeOK, Handler
<1>3. CASE Intercept(p)
  <2>1. /\ Serves(p, "intercept", s) /\ pc'[p] = "hijack" /\ Serves(p, "hijack", s)'
        /\ pidlist = p /\ table'[s].f = sct[s] /\ table'[s].intercepted
    BY <1>3, WriterSteps DEF Serves
  <2>2. ~table[s].intercepted
    BY <2>1 DEF BooksAgree
  <2>3. \A q \in Proc : ~Serves(q, "restore", s)
    BY <2>1 DEF RestoreHolds, Serves
  <2>4. table'[s].f # "interceptor"
    BY <2>1, <2>2, <2>3 DEF BooksAgree
  <2>5. \A q \in Proc : ~Serves(q, "intercept", s)'
    BY <1>1, <2>1 DEF Serves, Overtakes
  <2>6. QED
    BY <2>1, <2>4, <2>5 DEF BooksAgree
<1>4. CASE Hijack(p)
  <2>1. /\ Serves(p, "hijack", s) /\ pc'[p] = "user" /\ table' = table
        /\ sct'[s] = "interceptor"
    BY <1>4, WriterSteps DEF Serves
  <2>2. table[s].intercepted
    BY <2>1 DEF BooksAgree
  <2>3. \A q \in Proc : ~Serves(q, "intercept", s)'
    BY <1>1, <2>1, <2>2 DEF Serves, BooksAgree
  <2>4. QED
    BY <2>1, <2>2, <2>3 DEF BooksAgree
<1>5. CASE Release(p)
  <2>1. /\ Serves(p, "release", s) /\ pc'[p] = "restore" /\ Serves(p, "restore", s)'
        /\ table'[s].f = table[s].f /\ ~table'[s].intercepted
    BY <1>5, WriterSteps DEF Serves
  <2>2. \A q \in Proc : ~Serves(q, "hijack", s)'
    BY <1>1, <2>1 DEF Serves, Overtakes
  <2>3. QED
    BY <2>1, <2>2 DEF BooksAgree
<1>6. CASE Restore(p)
  <2>1. /\ Serves(p, "restore", s) /\ pc'[p] = "user" /\ table' = table
        /\ sct'[s] = table[s].f
    BY <1>6, WriterSteps DEF Serves
  <2>2. ~table[s].intercepted /\ table[s].f # "interceptor"
    BY <2>1 DEF RestoreHolds, Serves, BooksAgree
  <2>3. \A q \in Proc : ~Serves(q, "hijack", s)'
    BY <1>1, <2>1, <2>2 DEF Serves, BooksAgree
  <2>4. QED
    BY <2>1, <2>2, <2>3 DEF BooksAgree
<1>7. QED
  BY <1>3, <1>4, <1>5, <1>6

\* "Save the original system call" (interceptor.c:359), "keep track of all the metadata
\* on what is being intercepted" (353): for any number of processes, the saved handler,
\* the flag and the call table agree until one of the steps in Overtakes.
THEOREM BooksAreSpoiledByOvertakingOnly == Spec => OnlyOvertakingSpoilsBooks
<1>1. Init => RestoreHolds
  BY ProcAssumption DEF Init, RestoreHolds, Task
<1>2. IInv /\ RestoreHolds /\ [Next]_vars => RestoreHolds'
  BY NextRestoreHolds DEF IInv
<1>3. Spec => []RestoreHolds
  BY <1>1, <1>2, Invariance, PTL DEF Spec
<1>4. ASSUME IInv, RestoreHolds, [Next]_vars, NEW s \in Syscall, BooksAgree(s), ~Overtakes(s)
      PROVE  BooksAgree(s)'
  <2>1. /\ TypeInv /\ pc \in [Task -> ProcPlace \union LoaderPlace]
        /\ Loader \in Task /\ Proc \subseteq Task /\ Loader \notin Proc
    BY <1>4, ProcAssumption DEF IInv, TypeInv, TypeOK, Task
  <2>2. ASSUME NEW p \in Proc, Request(p) \/ CallSyscall(p) \/ Exit(p) \/ Run(p)
        PROVE  BooksAgree(s)'
    <3>1. \A q \in Proc \ {p} : pc'[q] = pc[q] /\ req'[q] = req[q]
      BY <2>1, <2>2, OwnMoves
    <3>2. CASE ~(Intercept(p) \/ Hijack(p) \/ Release(p) \/ Restore(p))
      BY <1>4, <2>1, <2>2, <3>1, <3>2, RunsElsewhere, BooksKept
    <3>3. CASE Intercept(p) \/ Hijack(p) \/ Release(p) \/ Restore(p)
      <4>1. CASE req[p].sys = s
        BY <1>4, <2>1, <3>3, <4>1, WritersAgree
      <4>2. CASE req[p].sys # s
        <5>1. SameBooks(s)
          BY <2>1, <3>3, <4>2, WriterSteps DEF SameBooks
        <5>2. req'[p].sys # s \/ pc'[p] = "user"
          BY <2>1, <3>3, <4>2, WriterSteps
        <5>3. \A q \in Proc : \A place \in {"intercept", "hijack", "restore"} :
                Serves(q, place, s) <=> Serves(q, place, s)'
          BY <3>1, <4>2, <5>2 DEF Serves
        <5>4. QED
          BY <1>4, <5>1, <5>3 DEF BooksAgree, SameBooks
      <4>3. QED
        BY <4>1, <4>2
    <3>4. QED
      BY <3>2, <3>3
  <2>3. ASSUME NEW p \in Proc, Unmapped(p)
        PROVE  FALSE
    BY <1>4, <2>3 DEF Unmapped, At, Overtakes
  <2>4. ASSUME InitTable \/ ExitClear
        PROVE  FALSE
    BY <1>4, <2>1, <2>4 DEF InitTable, ExitClear, Holding, Goto, Overtakes, Goes
  <2>5. ASSUME UNCHANGED <<table, sct, req>>, \A p \in Proc : pc'[p] = pc[p]
        PROVE  BooksAgree(s)'
    BY <1>4, <2>5 DEF BooksAgree, Serves
  <2>6. ASSUME Load \/ Unload \/ InitHijack \/ ExitRestore
        PROVE  BooksAgree(s)'
    BY <2>1, <2>5, <2>6 DEF Load, Unload, InitHijack, ExitRestore, Goto
  <2>7. ASSUME \/ \E t \in Task : LockPidlist(t) \/ LockCalltable(t)
               \/ Idle \/ UNCHANGED vars
        PROVE  BooksAgree(s)'
    BY <2>5, <2>7 DEF LockPidlist, LockCalltable, Idle, vars
  <2>8. QED
    BY <1>4, <2>2, <2>3, <2>4, <2>6, <2>7 DEF Next, LoaderStep
<1>5. IInv /\ RestoreHolds /\ [Next]_vars =>
        [\A s \in Syscall : BooksAgree(s) => BooksAgree(s)' \/ Overtakes(s)]_vars
  BY <1>4
<1>6. QED
  BY <1>3, <1>5, Invariance, PTL DEF Spec, OnlyOvertakingSpoilsBooks

-----------------------------------------------------------------------------
\* A lock that dies.  Nobody is in the module, and no call leads into it, before
\* init_function has changed the call table.
Unentered ==
    pc[Loader] \in {"unloaded", "init_hijack"} =>
        /\ \A p \in Proc : pc[p] \in {"user", "dead"}
        /\ \A s \in Syscall : sct[s] = "original"

\* Which lock dies where: calltable_lock only when the code is gone, pidlist_lock also
\* in front of a list that is not initialised, and init_function cannot go on then.
DiedUnready ==
    \A p \in Proc :
        pc[p] = "oops" =>
            /\ calltable = p => pc[Loader] = "removed"
            /\ pidlist = p => \/ pc[Loader] \in {"init_table", "removed"}
                              \/ req[p].sys = NR_syscalls

LEMMA NextUnentered ==
    ASSUME TypeInv, Unentered, [Next]_vars
    PROVE  Unentered'
<1>1. SUFFICES ASSUME pc'[Loader] \in {"unloaded", "init_hijack"}
               PROVE  /\ \A p \in Proc : pc'[p] \in {"user", "dead"}
                      /\ \A s \in Syscall : sct'[s] = "original"
  BY DEF Unentered
<1>2. /\ pc \in [Task -> ProcPlace \union LoaderPlace] /\ Loader \in Task
      /\ Loader \notin Proc /\ Proc \subseteq Task
  BY ProcAssumption DEF TypeInv, TypeOK, Task
<1>3. pc[Loader] \in {"unloaded", "init_hijack"}
  <2>1. CASE Load \/ Unload \/ LoaderStep
    BY <1>1, <1>2, <2>1 DEF Load, Unload, LoaderStep, InitHijack, InitTable, ExitRestore,
                            ExitClear, At, Goto
  <2>2. CASE Proc = {}
    BY <1>1, <2>1, <2>2 DEF Next, LockPidlist, LockCalltable, Idle, vars
  <2>3. QED
    BY <1>1, <2>1, <2>2, WhoMoves
<1>4. /\ \A p \in Proc : pc[p] \in {"user", "dead"}
      /\ \A s \in Syscall : sct[s] = "original"
  BY <1>3 DEF Unentered
<1>5. ASSUME NEW p \in Proc, Request(p) \/ CallSyscall(p) \/ Run(p) \/ Unmapped(p)
      PROVE  FALSE
  <2>1. ~Request(p) /\ ~CallSyscall(p) /\ ~Unmapped(p)
    BY <1>3, <1>4 DEF Request, Entered, CallSyscall, Unmapped, At
  <2>2. ~Run(p)
    BY <1>4 DEF Run, Command, CheckArgs, CheckOwner, CheckContext, Intercept, Hijack, Release,
                Restore, Start, Stop, Log, CallOriginal, ExitGroup, Disappear, At, Holding
  <2>3. QED
    BY <1>5, <2>1, <2>2
<1>6. ASSUME NEW p \in Proc, Exit(p)
      PROVE  /\ \A q \in Proc : pc'[q] \in {"user", "dead"}
             /\ \A s \in Syscall : sct'[s] = "original"
  BY <1>2, <1>3, <1>4, <1>6 DEF Exit, Entered, Goto
<1>7. CASE Load \/ Unload \/ LoaderStep
  BY <1>2, <1>4, <1>7 DEF Load, Unload, LoaderStep, InitHijack, InitTable, ExitRestore,
                          ExitClear, Goto
<1>8. CASE UNCHANGED <<pc, sct>>
  BY <1>4, <1>8
<1>9. QED
  BY <1>5, <1>6, <1>7, <1>8 DEF Next, LockPidlist, LockCalltable, Idle, vars

\* A process dies: where it was, and what it holds.
LEMMA Dies ==
    ASSUME IInv, Unentered, NEW p \in Proc, pc[p] # "oops", pc'[p] = "oops",
           Request(p) \/ CallSyscall(p) \/ Exit(p) \/ Run(p) \/ Unmapped(p)
    PROVE  /\ pidlist = p => req'[p] = req[p]
           /\ calltable = p => pc[Loader] = "removed"
           /\ pidlist = p => \/ pc[Loader] \in {"init_table", "removed"}
                             \/ req[p].sys = NR_syscalls
<1>1. /\ pc \in [Task -> ProcPlace \union LoaderPlace] /\ p \in Task /\ Loader \in Task
      /\ p # Loader /\ p # NoOne
  BY ProcAssumption DEF IInv, TypeInv, TypeOK, Task
<1>2. /\ pidlist = p => pc[p] \in UnderPidlist \/ pc[p] \in {"restore", "log"}
      /\ calltable = p => pc[p] \in UnderCalltable
  BY <1>1 DEF IInv, LocksAreReleased
<1>3. CASE Unmapped(p)
  BY <1>3 DEF Unmapped, Oops, At
<1>4. CASE CallSyscall(p) \/ Exit(p) \/ Request(p)
  <2>1. pc[p] = "user" /\ UNCHANGED <<pidlist, calltable>>
    BY <1>4 DEF CallSyscall, Exit, Request, At
  <2>2. QED
    BY <1>2, <2>1 DEF UnderPidlist, UnderCalltable
<1>5. CASE CheckOwner(p) \/ CallOriginal(p)
  <2>1. pc[p] \in {"owner", "call"} /\ UNCHANGED <<pidlist, calltable>>
    BY <1>5 DEF CheckOwner, CallOriginal, Oops, At
  <2>2. QED
    BY <1>2, <2>1 DEF UnderPidlist, UnderCalltable
<1>6. CASE CheckContext(p)
  <2>1. req[p].sys \in Syscall /\ req[p].cmd \in Cmds /\ pc[p] = "context"
    BY <1>6 DEF CheckContext, Holding, IInv, TypeInv, RequestsOK
  <2>2. CommandPlace(req[p].cmd) # "oops"
    BY <2>1, CmdsAssumption DEF CommandPlace, INTERCEPT, RELEASE, START, STOP
  <2>3. Oops(p) /\ ~ListReady(req[p].sys)
    BY <1>1, <1>6, <2>2 DEF CheckContext, Return, Goto
  <2>4. req[p].sys \notin InitRange => req[p].sys = NR_syscalls
    <3> DEFINE s == req[p].sys
    <3>1. s \in Syscall /\ s \in 1 .. NR_syscalls /\ NR_syscalls \in Nat
      BY <2>1, SyscallAssumption
    <3>2. s \notin InitRange => ~(s < NR_syscalls)
      BY <3>1 DEF InitRange
    <3> HIDE DEF s
    <3>3. s \notin InitRange => s = NR_syscalls
      BY <3>1, <3>2
    <3>4. QED
      BY <3>3 DEF s
  <2>5. ~TableReady => pc[Loader] = "init_table"
    BY <2>1 DEF TableReady, Unentered
  <2>6. QED
    BY <1>2, <2>1, <2>3, <2>4, <2>5 DEF Oops, ListReady, UnderCalltable
<1>7. CASE ExitGroup(p)
  <2>1. pc[p] = "exit"
    BY <1>7 DEF ExitGroup, Holding
  <2>2. Oops(p) /\ ~TableReady
    BY <1>1, <1>7 DEF ExitGroup, Goto
  <2>3. pc[Loader] = "init_table"
    BY <2>1, <2>2 DEF TableReady, Unentered
  <2>4. QED
    BY <1>2, <2>1, <2>2, <2>3 DEF Oops, UnderCalltable
<1>8. ASSUME CheckArgs(p) \/ Intercept(p) \/ Hijack(p) \/ Release(p) \/ Restore(p) \/ Start(p)
             \/ Stop(p) \/ Log(p) \/ Disappear(p)
      PROVE  FALSE
  BY <1>1, <1>8 DEF CheckArgs, Intercept, Hijack, Release, Restore, Start, Stop, Log,
                    Disappear, Return, Goto
<1>9. QED
  BY <1>3, <1>4, <1>5, <1>6, <1>7, <1>8 DEF Run, Command

LEMMA NextDiedUnready ==
    ASSUME IInv, Unentered, DiedUnready, [Next]_vars
    PROVE  DiedUnready'
<1> SUFFICES ASSUME NEW q \in Proc, pc'[q] = "oops"
             PROVE  /\ calltable' = q => pc'[Loader] = "removed"
                    /\ pidlist' = q => \/ pc'[Loader] \in {"init_table", "removed"}
                                       \/ req'[q].sys = NR_syscalls
  BY DEF DiedUnready
<1>1. /\ pc \in [Task -> ProcPlace \union LoaderPlace] /\ Loader \in Task /\ Proc \subseteq Task
      /\ Loader \notin Proc /\ NoOne \notin Proc /\ TypeInv
  BY ProcAssumption DEF IInv, TypeInv, TypeOK, Task
<1>2. CASE pc[q] # "oops"
  <2>1. Request(q) \/ CallSyscall(q) \/ Exit(q) \/ Run(q) \/ Unmapped(q)
    BY <1>1, <1>2, WhoMoves
  <2>2. pc'[Loader] = pc[Loader]
    BY <1>1, <2>1, OwnMoves
  <2>3. pidlist = q => req'[q] = req[q]
    BY <1>2, <2>1, Dies
  <2>4. calltable' = q => calltable = q
    BY <2>1, <1>1 DEF Request, CallSyscall, Exit, Unmapped, Run, Command, CheckArgs, CheckOwner,
             CheckContext, Intercept, Hijack, Release, Restore, Start, Stop, Log,
             CallOriginal, ExitGroup, Disappear, Oops
  <2>5. pidlist' = q => pidlist = q
    BY <2>1, <1>1 DEF Request, CallSyscall, Exit, Unmapped, Run, Command, CheckArgs, CheckOwner,
             CheckContext, Intercept, Hijack, Release, Restore, Start, Stop, Log,
             CallOriginal, ExitGroup, Disappear, Oops
  <2>6. QED
    BY <1>2, <2>1, <2>2, <2>3, <2>4, <2>5, Dies
<1>3. CASE pc[q] = "oops"
  <2>1. /\ calltable = q => pc[Loader] = "removed"
        /\ pidlist = q => \/ pc[Loader] \in {"init_table", "removed"}
                          \/ req[q].sys = NR_syscalls
    BY <1>3 DEF DiedUnready
  <2>2. req'[q] = req[q]
    <3>1. ~(Request(q) \/ CallSyscall(q) \/ Exit(q) \/ Unmapped(q))
      BY <1>3 DEF Request, CallSyscall, Exit, Unmapped, At
    <3>2. ~Run(q)
      BY <1>3 DEF Run, Command, CheckArgs, CheckOwner, CheckContext, Intercept, Hijack, Release,
                Restore, Start, Stop, Log, CallOriginal, ExitGroup, Disappear, At, Holding
    <3>3. QED
      BY <1>1, <3>1, <3>2, WhoMoves
  <2>3. (calltable' = q => calltable = q) /\ (pidlist' = q => pidlist = q)
    <3>1. ASSUME NEW p \in Proc,
                 Request(p) \/ CallSyscall(p) \/ Exit(p) \/ Run(p) \/ Unmapped(p)
          PROVE  (calltable' = q => calltable = q) /\ (pidlist' = q => pidlist = q)
      <4>1. calltable' \in {calltable, NoOne}
        BY <3>1 DEF Request, CallSyscall, Exit, Unmapped, Run, Command, CheckArgs, CheckOwner,
             CheckContext, Intercept, Hijack, Release, Restore, Start, Stop, Log,
             CallOriginal, ExitGroup, Disappear, Oops
      <4>2. pidlist' \in {pidlist, NoOne}
        BY <3>1 DEF Request, CallSyscall, Exit, Unmapped, Run, Command, CheckArgs, CheckOwner,
             CheckContext, Intercept, Hijack, Release, Restore, Start, Stop, Log,
             CallOriginal, ExitGroup, Disappear, Oops
      <4>3. QED
        BY <1>1, <4>1, <4>2
    <3>2. ASSUME NEW t \in Task, LockPidlist(t) \/ LockCalltable(t)
          PROVE  (calltable' = q => calltable = q) /\ (pidlist' = q => pidlist = q)
      BY <1>3, <3>2 DEF LockPidlist, LockCalltable, WantsPidlist, WantsCalltable,
                        UnderPidlist, UnderCalltable
    <3>3. CASE Load \/ Unload \/ LoaderStep
      BY <1>1, <3>3 DEF Load, Unload, LoaderStep, InitHijack, InitTable, ExitRestore, ExitClear
    <3>4. QED
      BY <3>1, <3>2, <3>3 DEF Next, Idle, vars
  <2>4. CASE pc'[Loader] = pc[Loader]
    BY <2>1, <2>2, <2>3, <2>4
  <2>5. CASE Load \/ Unload \/ LoaderStep
    BY <1>1, <2>1, <2>2, <2>3, <2>5
       DEF Load, Unload, LoaderStep, InitHijack, InitTable, ExitRestore, ExitClear, At,
           Holding, Goto
  <2>6. QED
    BY <1>1, <2>4, <2>5, WhoMoves
<1>4. QED
  BY <1>2, <1>3

\* A null pointer or a call of what was never saved may kill one process at any time,
\* but it takes a spinlock with it, and so in the end the machine, only before the
\* lists are initialised, in the last entry of the table, which never is, or once the
\* code is gone.
THEOREM LocksOnlyDieUnready == Spec => []LocksDieOnlyUnready
<1>1. Init => Unentered /\ DiedUnready
  BY ProcAssumption DEF Init, Unentered, DiedUnready, Task
<1>2. IInv /\ Unentered /\ DiedUnready /\ [Next]_vars => (Unentered /\ DiedUnready)'
  BY NextUnentered, NextDiedUnready DEF IInv
<1>3. Unentered /\ DiedUnready => LocksDieOnlyUnready
  BY DEF DiedUnready, LocksDieOnlyUnready
<1>4. QED
  BY <1>1, <1>2, <1>3, Invariance, PTL DEF Spec
=============================================================================
