--------------------------- MODULE TestFullProofs ---------------------------
(***************************************************************************)
(* Proofs about test_full.c: whatever any number of bystanders do, every   *)
(* line of the script gets the result it expects.                          *)
(***************************************************************************)
EXTENDS TestFull, InterceptorProofs, SequenceTheorems

\* What a line asks of my_syscall, and the places that the result it expects lets
\* it come to.
Asked(c) == [cmd |-> c.do, sys |-> c.sys, pid |-> c.pid]

OnTheWay(c, place) ==
    \/ place = "args"
    \/ place = "owner" /\ c.who \notin Root /\ c.do \in {START, STOP}
    \/ place = "context" /\ c.status # "-EPERM" /\ c.pid # last_child
    \/ /\ c.status = "0"
       /\ \/ place = CommandPlace(c.do)
          \/ place = "hijack" /\ c.do = INTERCEPT
          \/ place = "restore" /\ c.do = RELEASE

\* Whoever runs the line is on the way that the line takes.
OnLine ==
    LET p == Now.who
    IN  /\ Now.do \in Cmds =>
              pc[p] \in {"user", "oops"} \/ (OnTheWay(Now, pc[p]) /\ req[p] = Asked(Now))
        /\ Now.do = "monitor" =>
              /\ pc[p] \in {"user", "log", "call", "oops"}
              /\ pc[p] \in {"log", "call"} => req[p].sys = Now.sys
        /\ Now.do = "return" => pc[p] \in {"user", "exit", "gone", "oops"}
        /\ pc[Loader] \in IF Now.do = "insmod"
                          THEN {"unloaded", "init_hijack", "init_table"} ELSE {"loaded"}

\* The others have not started or have gone.
HasGone(p) ==
    \/ p = nonroot /\ line > 17
    \/ p = stopper /\ line > 22
    \/ p = starter /\ line > 25
    \/ p = last_child /\ line > 26

Patient ==
    \A p \in Testers : p # Now.who => pc[p] = IF HasGone(p) THEN "dead" ELSE "user"

\* The rest of the machine: nobody else becomes root, and the owner check leaves a
\* bystander only pids of its own uid.
Machine ==
    /\ pc[init] \in {"user", "log", "call"}
    /\ \A b \in Bystanders :
          /\ pc[b] \notin {"intercept", "hijack", "release", "restore"}
          /\ pc[b] \in {"owner", "context", "start", "stop"} => req[b].cmd \in {START, STOP}
          /\ pc[b] \in {"context", "start", "stop"} =>
                req[b].pid \in Bystanders /\ Owner[req[b].pid] = Owner[b]

\* What the lines so far have left in the table.
Books ==
    LET listed == table[open].my_list
    IN  /\ \A s \in Syscall : table[s].monitored # 2
        /\ line <= 2 => (table[exit].intercepted <=> pc[tester] = "hijack")
        /\ line = 3 => (table[exit].intercepted <=> pc[tester] # "restore")
        /\ line <= 4 => (table[open].intercepted <=> line = 4 /\ pc[tester] = "hijack")
        /\ line >= 5 => (table[open].intercepted <=> pc[tester] # "restore")
        /\ line <= 27 => Watched(table[open])
        /\ listed[nonroot] = 0 \/ line \in 13 .. 15 \/ line > 16
        /\ line \in 13 .. 15 => listed[nonroot] = 1
        /\ line <= 20 => listed[init] = 0
        /\ line \in 21 .. 23 => listed[init] = 1
        /\ line <= 24 => listed[starter] = 0

LineInv == OnLine /\ Patient /\ Machine /\ Books

\* All of that until the module is removed, unless a kmalloc of the script failed.
TestInv ==
    /\ line \in 1 .. 30
    /\ nomem \/ passed
    /\ line <= 28 /\ ~nomem => LineInv


-----------------------------------------------------------------------------
\* The script, line by line.
Joins(r, s, t) ==
    /\ Len(r) = Len(s) + Len(t)
    /\ \A i \in 1 .. Len(s) : r[i] = s[i]
    /\ \A i \in 1 .. Len(t) : r[Len(s) + i] = t[i]

LEMMA Concatenated ==
    ASSUME NEW S, NEW s \in Seq(S), NEW t \in Seq(S)
    PROVE  s \o t \in Seq(S) /\ Joins(s \o t, s, t)
<1>1. /\ s \o t \in Seq(S) /\ Len(s \o t) = Len(s) + Len(t)
      /\ \A i \in 1 .. Len(s) + Len(t) :
            (s \o t)[i] = IF i <= Len(s) THEN s[i] ELSE t[i - Len(s)]
  BY ConcatProperties
<1>2. PICK m \in Nat, n \in Nat : m = Len(s) /\ n = Len(t)
  OBVIOUS
<1>3. /\ \A i \in 1 .. m : i \in 1 .. m + n /\ i <= m
      /\ \A i \in 1 .. n : m + i \in 1 .. m + n /\ ~ (m + i <= m) /\ (m + i) - m = i
  OBVIOUS
<1> DEFINE u == s \o t
<1> HIDE DEF u
<1>4. QED
  BY <1>1, <1>2, <1>3 DEF u, Joins

LEMMA ScriptLines ==
    /\ Len(Script) = 29
    /\ Script[1] = Act(Loader, "insmod", exit)
    /\ Script[2] = do_intercept(tester, exit, "0")
    /\ Script[3] = do_release(tester, exit, "0")
    /\ Script[4] = do_intercept(tester, open, "0")
    /\ Script[5] = do_intercept(tester, open, "-EBUSY")
    /\ Script[6] = do_intercept(nonroot, open, "-EPERM")
    /\ Script[7] = do_release(nonroot, open, "-EPERM")
    /\ Script[8] = do_start(nonroot, open, AllPids, "-EPERM")
    /\ Script[9] = do_stop(nonroot, open, AllPids, "-EPERM")
    /\ Script[10] = do_start(nonroot, open, init, "-EPERM")
    /\ Script[11] = do_stop(nonroot, open, init, "-EPERM")
    /\ Script[12] = do_start(nonroot, open, nonroot, "0")
    /\ Script[13] = do_start(nonroot, open, nonroot, "-EBUSY")
    /\ Script[14] = do_monitor(nonroot, open)
    /\ Script[15] = do_stop(nonroot, open, nonroot, "0")
    /\ Script[16] = do_stop(nonroot, open, nonroot, "-EINVAL")
    /\ Script[17] = exit_group(nonroot)
    /\ Script[18] = do_start(tester, open, AllPids, "0")
    /\ Script[19] = do_stop(tester, open, AllPids, "0")
    /\ Script[20] = do_start(tester, open, init, "0")
    /\ Script[21] = do_stop(stopper, open, init, "-EPERM")
    /\ Script[22] = exit_group(stopper)
    /\ Script[23] = do_stop(tester, open, init, "0")
    /\ Script[24] = do_start(starter, open, starter, "0")
    /\ Script[25] = exit_group(starter)
    /\ Script[26] = exit_group(last_child)
    /\ Script[27] = do_stop(tester, open, last_child, "-EINVAL")
    /\ Script[28] = do_release(tester, open, "0")
    /\ Script[29] = Act(Loader, "rmmod", exit)
<1> DEFINE a == << Act(Loader, "insmod", exit),
                   do_intercept(tester, exit, "0"), do_release(tester, exit, "0") >>
           b == << do_intercept(tester, open, "0"), do_intercept(tester, open, "-EBUSY") >>
           c == do_nonroot(open)
           d == << do_start(tester, open, AllPids, "0"),
                   do_stop(tester, open, AllPids, "0"),
                   do_start(tester, open, init, "0"),
                   do_stop(stopper, open, init, "-EPERM"), exit_group(stopper),
                   do_stop(tester, open, init, "0"),
                   do_start(starter, open, starter, "0"), exit_group(starter),
                   exit_group(last_child),
                   do_stop(tester, open, last_child, "-EINVAL"),
                   do_release(tester, open, "0") >>
           e == << Act(Loader, "rmmod", exit) >>
           Any == UNION {{a[i] : i \in 1 .. 3}, {b[i] : i \in 1 .. 2}, {c[i] : i \in 1 .. 12},
                         {d[i] : i \in 1 .. 11}, {e[1]}}
<1>1. Script = a \o (b \o c \o d) \o e
  BY DEF Script, test_syscall
<1>2. /\ a \in Seq(Any) /\ Len(a) = 3
      /\ b \in Seq(Any) /\ Len(b) = 2
      /\ c \in Seq(Any) /\ Len(c) = 12
      /\ d \in Seq(Any) /\ Len(d) = 11
      /\ e \in Seq(Any) /\ Len(e) = 1
  BY DEF do_nonroot
<1> HIDE DEF a, b, c, d, e, Any
<1>3. PICK bc : bc = b \o c
  OBVIOUS
<1>4. /\ bc \in Seq(Any) /\ Len(bc) = 14
      /\ \A i \in 1 .. 2 : bc[i] = b[i]
      /\ \A i \in 1 .. 12 : bc[2 + i] = c[i]
  <2>1. Len(b) = 2 /\ Len(c) = 12
    BY <1>2
  <2>2. b \in Seq(Any) /\ c \in Seq(Any)
    BY <1>2
  <2>3. bc \in Seq(Any) /\ Joins(bc, b, c)
    BY <1>3, <2>2, Concatenated
  <2>4. bc \in Seq(Any)
    BY <2>3
  <2>5. Joins(bc, b, c)
    BY <2>3
  <2>6. /\ Len(bc) = 14
        /\ \A i \in 1 .. 2 : bc[i] = b[i]
        /\ \A i \in 1 .. 12 : bc[2 + i] = c[i]
    BY <2>1, <2>5 DEF Joins
  <2>7. QED
    BY <2>4, <2>6
<1>5. PICK bcd : bcd = bc \o d
  OBVIOUS
<1>6. /\ bcd \in Seq(Any) /\ Len(bcd) = 25
      /\ \A i \in 1 .. 14 : bcd[i] = bc[i]
      /\ \A i \in 1 .. 11 : bcd[14 + i] = d[i]
  <2>1. Len(bc) = 14 /\ Len(d) = 11
    BY <1>2, <1>3, <1>4
  <2>2. bc \in Seq(Any) /\ d \in Seq(Any)
    BY <1>2, <1>3, <1>4
  <2>3. bcd \in Seq(Any) /\ Joins(bcd, bc, d)
    BY <1>5, <2>2, Concatenated
  <2>4. bcd \in Seq(Any)
    BY <2>3
  <2>5. Joins(bcd, bc, d)
    BY <2>3
  <2>6. /\ Len(bcd) = 25
        /\ \A i \in 1 .. 14 : bcd[i] = bc[i]
        /\ \A i \in 1 .. 11 : bcd[14 + i] = d[i]
    BY <2>1, <2>5 DEF Joins
  <2>7. QED
    BY <2>4, <2>6
<1>7. PICK ad : ad = a \o bcd
  OBVIOUS
<1>8. /\ ad \in Seq(Any) /\ Len(ad) = 28
      /\ \A i \in 1 .. 3 : ad[i] = a[i]
      /\ \A i \in 1 .. 25 : ad[3 + i] = bcd[i]
  <2>1. Len(a) = 3 /\ Len(bcd) = 25
    BY <1>2, <1>5, <1>6
  <2>2. a \in Seq(Any) /\ bcd \in Seq(Any)
    BY <1>2, <1>5, <1>6
  <2>3. ad \in Seq(Any) /\ Joins(ad, a, bcd)
    BY <1>7, <2>2, Concatenated
  <2>4. ad \in Seq(Any)
    BY <2>3
  <2>5. Joins(ad, a, bcd)
    BY <2>3
  <2>6. /\ Len(ad) = 28
        /\ \A i \in 1 .. 3 : ad[i] = a[i]
        /\ \A i \in 1 .. 25 : ad[3 + i] = bcd[i]
    BY <2>1, <2>5 DEF Joins
  <2>7. QED
    BY <2>4, <2>6
<1>9. Script = ad \o e
  BY <1>1, <1>3, <1>5, <1>7
<1>10. /\ Len(Script) = 29
       /\ \A i \in 1 .. 28 : Script[i] = ad[i]
       /\ \A i \in 1 .. 1 : Script[28 + i] = e[i]
  <2>1. Len(ad) = 28 /\ Len(e) = 1
    BY <1>2, <1>8
  <2>2. ad \in Seq(Any) /\ e \in Seq(Any)
    BY <1>2, <1>8
  <2>3. Joins(Script, ad, e)
    BY <1>9, <2>2, Concatenated
  <2>4. QED
    BY <2>1, <2>3 DEF Joins
<1> HIDE DEF Script
\* Only places and lines from here on.
<1>11. /\ \A i \in 1 .. 2 : bc[i] = b[i]
       /\ \A i \in 1 .. 12 : bc[2 + i] = c[i]
       /\ \A i \in 1 .. 14 : bcd[i] = bc[i]
       /\ \A i \in 1 .. 11 : bcd[14 + i] = d[i]
       /\ \A i \in 1 .. 3 : ad[i] = a[i]
       /\ \A i \in 1 .. 25 : ad[3 + i] = bcd[i]
       /\ \A i \in 1 .. 28 : Script[i] = ad[i]
  BY <1>4, <1>6, <1>8, <1>10
<1>12. Len(Script) = 29 /\ Script[29] = e[1]
  BY <1>10
<1>13. \A i \in 1 .. 3 : Script[i] = a[i]
  BY <1>11
<1>14. \A i \in 1 .. 25 : Script[3 + i] = bcd[i]
  BY <1>11
<1>15. Script[4] = b[1] /\ Script[5] = b[2]
  BY <1>11, <1>14
<1>16. \A i \in 1 .. 12 : Script[5 + i] = c[i]
  <2> SUFFICES ASSUME NEW i \in 1 .. 12
               PROVE  Script[5 + i] = c[i]
    OBVIOUS
  <2>1. 2 + i \in 1 .. 14 /\ 2 + i \in 1 .. 25 /\ 3 + (2 + i) = 5 + i
    OBVIOUS
  <2>2. QED
    BY <1>11, <1>14, <2>1
<1>17. \A i \in 1 .. 11 : Script[17 + i] = d[i]
  <2> SUFFICES ASSUME NEW i \in 1 .. 11
               PROVE  Script[17 + i] = d[i]
    OBVIOUS
  <2>1. 14 + i \in 1 .. 25 /\ 3 + (14 + i) = 17 + i
    OBVIOUS
  <2>2. QED
    BY <1>11, <1>14, <2>1
<1>18. /\ Script[6] = c[1] /\ Script[7] = c[2] /\ Script[8] = c[3] /\ Script[9] = c[4]
       /\ Script[10] = c[5] /\ Script[11] = c[6] /\ Script[12] = c[7] /\ Script[13] = c[8]
       /\ Script[14] = c[9] /\ Script[15] = c[10] /\ Script[16] = c[11] /\ Script[17] = c[12]
  BY <1>16
<1>19. /\ Script[18] = d[1] /\ Script[19] = d[2] /\ Script[20] = d[3] /\ Script[21] = d[4]
       /\ Script[22] = d[5] /\ Script[23] = d[6] /\ Script[24] = d[7] /\ Script[25] = d[8]
       /\ Script[26] = d[9] /\ Script[27] = d[10] /\ Script[28] = d[11]
  BY <1>17
<1>20. QED
  BY <1>12, <1>13, <1>15, <1>18, <1>19 DEF a, b, c, d, e, do_nonroot

\* The columns of the script.
LEMMA WhoColumn ==
    /\ Script[1].who = Loader /\ Script[29].who = Loader
    /\ \A k \in (2 .. 5) \union (18 .. 20) \union {23, 27, 28} : Script[k].who = tester
    /\ \A k \in 6 .. 17 : Script[k].who = nonroot
    /\ \A k \in {21, 22} : Script[k].who = stopper
    /\ \A k \in {24, 25} : Script[k].who = starter
    /\ Script[26].who = last_child
  BY ScriptLines DEF Act, Issue, do_intercept, do_release, do_start, do_stop, do_monitor,
                     exit_group

LEMMA DoColumn ==
    /\ Script[1].do = "insmod" /\ Script[14].do = "monitor" /\ Script[29].do = "rmmod"
    /\ \A k \in {17, 22, 25, 26} : Script[k].do = "return"
    /\ \A k \in {2, 4, 5, 6} : Script[k].do = INTERCEPT
    /\ \A k \in {3, 7, 28} : Script[k].do = RELEASE
    /\ \A k \in {8, 10, 12, 13, 18, 20, 24} : Script[k].do = START
    /\ \A k \in {9, 11, 15, 16, 19, 21, 23, 27} : Script[k].do = STOP
  BY ScriptLines DEF Act, Issue, do_intercept, do_release, do_start, do_stop, do_monitor,
                     exit_group

LEMMA SysColumn ==
    /\ \A k \in {1, 2, 3, 17, 22, 25, 26, 29} : Script[k].sys = exit
    /\ \A k \in (4 .. 16) \union (18 .. 21) \union {23, 24, 27, 28} : Script[k].sys = open
  BY ScriptLines DEF Act, Issue, do_intercept, do_release, do_start, do_stop, do_monitor,
                     exit_group

LEMMA PidColumn ==
    /\ \A k \in (2 .. 5) \union {28} : Script[k].pid = tester
    /\ \A k \in {6, 7, 12, 13, 15, 16} : Script[k].pid = nonroot
    /\ \A k \in {10, 11, 20, 21, 23} : Script[k].pid = init
    /\ \A k \in {8, 9, 18, 19} : Script[k].pid = AllPids
    /\ Script[24].pid = starter /\ Script[27].pid = last_child
  BY ScriptLines DEF Act, Issue, do_intercept, do_release, do_start, do_stop, do_monitor,
                     exit_group

LEMMA StatusColumn ==
    /\ \A k \in (6 .. 11) \union {21} : Script[k].status = "-EPERM"
    /\ \A k \in {5, 13} : Script[k].status = "-EBUSY"
    /\ \A k \in {16, 27} : Script[k].status = "-EINVAL"
    /\ \A k \in (2 .. 4) \union {12, 15, 18, 19, 20, 23, 24, 28} : Script[k].status = "0"
  BY ScriptLines DEF Act, Issue, do_intercept, do_release, do_start, do_stop, do_monitor,
                     exit_group

-----------------------------------------------------------------------------
\* Who is who.
LEMMA Roles ==
    /\ {tester, init, nonroot, stopper, starter, last_child} \subseteq Proc
    /\ Bystanders \subseteq Proc /\ Loader \notin Proc /\ AllPids \notin Proc
    /\ nonroot # stopper /\ nonroot # starter /\ stopper # starter
    /\ \A g \in Guests : g \notin Root /\ g # tester /\ g # init /\ g # last_child
    /\ tester # last_child /\ init # tester /\ init # last_child
    /\ {tester, init, last_child} \subseteq Root
    /\ \A b \in Bystanders : /\ b \notin Root /\ b \notin Testers
                             /\ b # init /\ b # tester /\ b # nonroot /\ b # starter
    /\ \A b \in Bystanders, p \in Proc : Owner[p] = Owner[b] => p \in Bystanders
    /\ \A g \in Guests : Owner[init] # Owner[g]
  BY UsersAssumption, NamesAssumption, ProcAssumption DEF Testers, Guests

\* An entry that at most the pid q has come into or gone from.
Gently(e, d, q) ==
    /\ d.intercepted = e.intercepted /\ d.monitored # 2
    /\ Watched(e) => Watched(d)
    /\ \A x \in Proc : x # q => d.my_list[x] = e.my_list[x]

\* An entry with another list in which monitoring may have stopped.
Relisted(e, d, l) ==
    d.intercepted = e.intercepted /\ d.monitored \in {0, e.monitored} /\ d.my_list = l

LEMMA UnmonitoredRelists ==
    ASSUME NEW e \in Entry, NEW l \in [Proc -> Int], NEW n \in Int
    PROVE  Relisted(e, Unmonitored([e EXCEPT !.my_list = l, !.listcount = n]), l)
<1> DEFINE u == [e EXCEPT !.my_list = l, !.listcount = n]
<1>1. u \in Entry
  BY EntryWithList, Zenon
<1>2. u.intercepted = e.intercepted /\ u.monitored = e.monitored /\ u.my_list = l
  BY DEF Entry
<1> HIDE DEF u
<1>3. /\ Unmonitored(u).intercepted = u.intercepted /\ Unmonitored(u).my_list = u.my_list
      /\ Unmonitored(u).monitored \in {0, u.monitored}
  BY <1>1 DEF Unmonitored, Entry
<1>4. Relisted(e, Unmonitored(u), l)
  BY <1>2, <1>3 DEF Relisted
<1>5. QED
  BY <1>4 DEF u

LEMMA ListHelpersFlags ==
    ASSUME NEW e \in Entry, NEW q \in Proc
    PROVE  /\ /\ add_pid_sysc(e, q).intercepted = e.intercepted
              /\ add_pid_sysc(e, q).monitored = e.monitored
              /\ add_pid_sysc(e, q).my_list = [e.my_list EXCEPT ![q] = e.my_list[q] + 1]
           /\ Relisted(e, del_pid_sysc(e, q), [e.my_list EXCEPT ![q] = e.my_list[q] - 1])
           /\ \/ del_pid(e, q) = e
              \/ Relisted(e, del_pid(e, q), [e.my_list EXCEPT ![q] = 0])
<1>1. add_pid_sysc(e, q) = [e EXCEPT !.my_list = [e.my_list EXCEPT ![q] = e.my_list[q] + 1],
                                     !.listcount = e.listcount + 1]
  BY DEF add_pid_sysc
<1>3. /\ e.my_list \in [Proc -> Int] /\ e.listcount \in Int /\ e.my_list[q] \in Int
      /\ e.listcount - 1 \in Int /\ e.listcount - e.my_list[q] \in Int
      /\ [e.my_list EXCEPT ![q] = e.my_list[q] - 1] \in [Proc -> Int]
      /\ [e.my_list EXCEPT ![q] = 0] \in [Proc -> Int]
  BY DEF Entry
<1>4. del_pid_sysc(e, q) = Unmonitored([e EXCEPT
            !.my_list = [e.my_list EXCEPT ![q] = e.my_list[q] - 1],
            !.listcount = e.listcount - 1])
  BY DEF del_pid_sysc
<1>5. del_pid(e, q) = e \/ del_pid(e, q) = Unmonitored([e EXCEPT
            !.my_list = [e.my_list EXCEPT ![q] = 0],
            !.listcount = e.listcount - e.my_list[q]])
  BY DEF del_pid
<1>6. /\ add_pid_sysc(e, q).intercepted = e.intercepted
      /\ add_pid_sysc(e, q).monitored = e.monitored
      /\ add_pid_sysc(e, q).my_list = [e.my_list EXCEPT ![q] = e.my_list[q] + 1]
  BY <1>1 DEF Entry
<1>7. Relisted(e, del_pid_sysc(e, q), [e.my_list EXCEPT ![q] = e.my_list[q] - 1])
  BY <1>3, <1>4, UnmonitoredRelists, Zenon
<1>8. \/ del_pid(e, q) = e
      \/ Relisted(e, del_pid(e, q), [e.my_list EXCEPT ![q] = 0])
  BY <1>3, <1>5, UnmonitoredRelists, Zenon
<1>9. QED
  BY <1>6, <1>7, <1>8

\* START, STOP and exit for one pid, with what they do to its place in the list.
LEMMA OnePidGently ==
    ASSUME NEW e \in Entry, Counted(e), e.monitored # 2, NEW q \in Proc
    PROVE  /\ Gently(e, e, q) /\ Gently(e, del_pid(e, q), q)
           /\ Gently(e, StoppedOne(e, q), q)
           /\ e.my_list[q] > 0 => StoppedOne(e, q).my_list[q] = e.my_list[q] - 1
           /\ \A d \in StartedOne(e, q) :
                 /\ Gently(e, d, q)
                 /\ d.my_list[q] \in {e.my_list[q], e.my_list[q] + 1}
<1> DEFINE one == [e EXCEPT !.monitored = 1]
<1>1. /\ one \in Entry /\ one.my_list = e.my_list /\ one.monitored = 1
      /\ one.intercepted = e.intercepted
      /\ e.my_list \in [Proc -> Int]
  BY DEF Entry
<1>2. StoppedOne(e, q) = IF e.my_list[q] > 0 THEN del_pid_sysc(one, q) ELSE one
  BY DEF StoppedOne
<1>3. StartedOne(e, q) = {add_pid_sysc(one, q), one}
  BY DEF StartedOne
<1> HIDE DEF one
<1>4. /\ \A x \in Proc : x # q => /\ [e.my_list EXCEPT ![q] = 0][x] = e.my_list[x]
                                  /\ [e.my_list EXCEPT ![q] = e.my_list[q] - 1][x] = e.my_list[x]
                                  /\ [e.my_list EXCEPT ![q] = e.my_list[q] + 1][x] = e.my_list[x]
      /\ [e.my_list EXCEPT ![q] = e.my_list[q] - 1][q] = e.my_list[q] - 1
      /\ [e.my_list EXCEPT ![q] = e.my_list[q] + 1][q] = e.my_list[q] + 1
  BY <1>1
<1>5. Gently(e, e, q) /\ Gently(e, del_pid(e, q), q)
  <2>1. Gently(e, e, q)
    BY DEF Gently
  <2>2. CASE del_pid(e, q) = e
    BY <2>1, <2>2
  <2>3. CASE Relisted(e, del_pid(e, q), [e.my_list EXCEPT ![q] = 0])
    <3>1. Watched(e) => Watched(del_pid(e, q))
      BY DelPidLists
    <3>2. QED
      BY <1>4, <2>3, <3>1 DEF Gently, Relisted
  <2>4. QED
    BY <2>1, <2>2, <2>3, ListHelpersFlags
<1>6. /\ Gently(e, StoppedOne(e, q), q)
      /\ e.my_list[q] > 0 => StoppedOne(e, q).my_list[q] = e.my_list[q] - 1
  <2>1. Watched(StoppedOne(e, q))
    BY StartStopLists
  <2>2. CASE e.my_list[q] > 0
    <3>1. Relisted(one, del_pid_sysc(one, q), [one.my_list EXCEPT ![q] = one.my_list[q] - 1])
      BY <1>1, ListHelpersFlags
    <3>2. Relisted(one, StoppedOne(e, q), [e.my_list EXCEPT ![q] = e.my_list[q] - 1])
      BY <1>1, <1>2, <2>2, <3>1
    <3>3. QED
      BY <1>1, <1>4, <2>1, <3>2 DEF Gently, Relisted
  <2>3. CASE ~ (e.my_list[q] > 0)
    BY <1>1, <1>2, <2>1, <2>3 DEF Gently
  <2>4. QED
    BY <2>2, <2>3
<1>7. ASSUME NEW d \in StartedOne(e, q)
      PROVE  Gently(e, d, q) /\ d.my_list[q] \in {e.my_list[q], e.my_list[q] + 1}
  <2>1. Watched(e) => Watched(d)
    BY StartStopLists
  <2>2. CASE d = one
    BY <1>1, <2>1, <2>2 DEF Gently
  <2>3. CASE d = add_pid_sysc(one, q)
    <3>1. /\ d.intercepted = one.intercepted /\ d.monitored = one.monitored
          /\ d.my_list = [one.my_list EXCEPT ![q] = one.my_list[q] + 1]
      BY <1>1, <2>3, ListHelpersFlags
    <3>2. QED
      BY <1>1, <1>4, <2>1, <3>1 DEF Gently
  <2>4. QED
    BY <1>3, <2>2, <2>3
<1>8. QED
  BY <1>5, <1>6, <1>7

LEMMA RunGently ==
    ASSUME TypeInv, Lists, \A s \in Syscall : table[s].monitored # 2,
           NEW p \in Proc, Run(p), pc[p] \notin {"intercept", "release"},
           NEW q \in Proc, pc[p] \in {"start", "stop"} => req[p].pid = q,
           pc[p] = "exit" => q = p
    PROVE  /\ \A s \in Syscall : Gently(table[s], table'[s], q)
           /\ pc[p] = "start" =>
                 table'[req[p].sys].my_list[q] \in {table[req[p].sys].my_list[q],
                                                    table[req[p].sys].my_list[q] + 1}
           /\ pc[p] = "stop" /\ table[req[p].sys].my_list[q] > 0 =>
                 table'[req[p].sys].my_list[q] = table[req[p].sys].my_list[q] - 1
<1> DEFINE r == req[p].sys
<1>1. /\ table \in [Syscall -> Entry]
      /\ \A s \in Syscall : table[s] \in Entry /\ Counted(table[s])
      /\ pc[p] \in {"start", "stop"} => r \in Syscall
      /\ q # AllPids
  BY ProcAssumption DEF TypeInv, TypeOK, Lists, RequestsOK
<1>2. \A s \in Syscall : Gently(table[s], table[s], q)
  BY <1>1, OnePidGently
<1>3. CASE Start(p)
  <2>1. PICK d \in StartedOne(table[r], q) : table' = [table EXCEPT ![r] = d]
    BY <1>1, <1>3 DEF Start, Holding
  <2>2. pc[p] = "start" /\ r \in Syscall
    BY <1>1, <1>3 DEF Start, Holding
  <2>3. table'[r] = d /\ \A s \in Syscall : s # r => table'[s] = table[s]
    BY <1>1, <2>1, <2>2
  <2>4. Gently(table[r], d, q) /\ d.my_list[q] \in {table[r].my_list[q], table[r].my_list[q] + 1}
    BY <1>1, <2>1, <2>2, OnePidGently
  <2>5. QED
    BY <1>2, <2>2, <2>3, <2>4
<1>4. CASE Stop(p)
  <2>1. table' = [table EXCEPT ![r] = StoppedOne(table[r], q)]
    BY <1>1, <1>4 DEF Stop, Holding
  <2>2. pc[p] = "stop" /\ r \in Syscall
    BY <1>1, <1>4 DEF Stop, Holding
  <2>3. /\ table'[r] = StoppedOne(table[r], q)
        /\ \A s \in Syscall : s # r => table'[s] = table[s]
    BY <1>1, <2>1, <2>2
  <2>4. /\ Gently(table[r], StoppedOne(table[r], q), q)
        /\ table[r].my_list[q] > 0 =>
               StoppedOne(table[r], q).my_list[q] = table[r].my_list[q] - 1
    BY <1>1, <2>2, OnePidGently
  <2>5. QED
    BY <1>2, <2>2, <2>3, <2>4
<1>5. CASE ExitGroup(p)
  <2>1. pc[p] = "exit" /\ \A s \in Syscall : table'[s] \in {table[s], del_pid(table[s], q)}
    BY <1>5 DEF ExitGroup, Holding, Oops
  <2>2. QED
    BY <1>1, <1>2, <2>1, OnePidGently
<1>6. CASE \/ CheckArgs(p) \/ CheckOwner(p) \/ CheckContext(p) \/ Hijack(p) \/ Restore(p)
           \/ Log(p) \/ CallOriginal(p) \/ Disappear(p)
  <2>1. UNCHANGED table /\ pc[p] \notin {"start", "stop"}
    BY <1>6 DEF CheckArgs, CheckOwner, CheckContext, Hijack, Restore, Log, CallOriginal,
                Disappear, Oops, At, Holding
  <2>2. QED
    BY <1>2, <2>1
<1>7. CASE Intercept(p) \/ Release(p)
  BY <1>7 DEF Intercept, Release, Holding
<1>8. QED
  BY <1>3, <1>4, <1>5, <1>6, <1>7 DEF Run, Command

-----------------------------------------------------------------------------
\* The places a process can come to from where it is.
Follows(p) ==
    CASE pc[p] = "user"    -> {"args", "log", "exit", "dead", "oops"}
      [] pc[p] = "args"    -> {"user", "owner", "context"}
      [] pc[p] = "owner"   -> {"user", "context", "oops"}
      [] pc[p] = "context" -> {"user", CommandPlace(req[p].cmd), "oops"}
      [] pc[p] = "intercept" -> {"hijack"}
      [] pc[p] = "release" -> {"restore"}
      [] pc[p] \in {"hijack", "restore", "start", "stop"} -> {"user"}
      [] pc[p] = "log"     -> {"call"}
      [] pc[p] = "call"    -> {"user", "log", "oops"}
      [] pc[p] = "exit"    -> {"gone", "oops"}
      [] pc[p] = "gone"    -> {"dead"}
      [] OTHER -> {}

LEMMA RunFollows ==
    ASSUME TypeInv, NEW p \in Proc, Run(p)
    PROVE  /\ pc[p] \notin {"user", "dead", "oops"} /\ pc'[p] \in Follows(p)
           /\ pc'[p] \notin {"user", "dead", "gone", "oops"} => UNCHANGED req
<1>1. pc \in [Task -> ProcPlace \union LoaderPlace] /\ p \in Task
  BY DEF TypeInv, TypeOK, Task
<1>2. CASE CheckArgs(p) \/ CheckOwner(p) \/ CheckContext(p)
  BY <1>1, <1>2 DEF CheckArgs, CheckOwner, CheckContext, At, Holding, Return, Oops, Goto,
                    Follows
<1>3. CASE Intercept(p) \/ Hijack(p) \/ Release(p) \/ Restore(p) \/ Start(p) \/ Stop(p)
  BY <1>1, <1>3 DEF Intercept, Hijack, Release, Restore, Start, Stop, At, Holding, Return,
                    Goto, Follows
<1>4. CASE Log(p) \/ ExitGroup(p) \/ Disappear(p)
  BY <1>1, <1>4 DEF Log, ExitGroup, Disappear, At, Holding, Oops, Goto, Follows
<1>5. CASE CallOriginal(p)
  <2>1. req[p].sys \in Syscall
    BY <1>5 DEF CallOriginal, At, TypeInv, RequestsOK
  <2>2. table[req[p].sys].f \in {"original", "interceptor", "none"}
    BY <2>1 DEF TypeInv, TypeOK, Entry, Handler
  <2>3. QED
    BY <1>1, <1>5, <2>2 DEF CallOriginal, At, Return, Goto, Follows
<1>6. QED
  BY <1>2, <1>3, <1>4, <1>5 DEF Run, Command

-----------------------------------------------------------------------------
\* What the others do while a line runs.
LEMMA Runner ==
    ASSUME line \in 1 .. 28
    PROVE  /\ Now.who \in Testers \union {Loader}
           /\ Now.who = Loader <=> line = 1
           /\ Now.do = "insmod" <=> line = 1
           /\ Now.do = "monitor" <=> line = 14
           /\ Now.do = "return" <=> line \in {17, 22, 25, 26}
           /\ Now.do \in Cmds <=> line \notin {1, 14, 17, 22, 25, 26}
<1>1. Cmds = {INTERCEPT, RELEASE, START, STOP}
  BY TestAssumption
<1>2. /\ line = 1 => Now.who = Loader
      /\ line # 1 => Now.who \in {tester, nonroot, stopper, starter, last_child}
  BY WhoColumn DEF Now
<1>3. /\ line = 1 => Now.do = "insmod"
      /\ line = 14 => Now.do = "monitor"
      /\ line \in {17, 22, 25, 26} => Now.do = "return"
      /\ line \notin {1, 14, 17, 22, 25, 26} => Now.do \in {INTERCEPT, RELEASE, START, STOP}
  BY DoColumn DEF Now
<1>4. QED
  BY <1>1, <1>2, <1>3, Roles DEF Testers, Guests, INTERCEPT, RELEASE, START, STOP

LEMMA BooksStay ==
    ASSUME Books, NEW q \in Proc \ {nonroot, init, starter},
           \A s \in Syscall : Gently(table[s], table'[s], q),
           UNCHANGED line,
           \/ pc'[tester] = pc[tester]
           \/ {pc[tester], pc'[tester]} \cap {"hijack", "restore"} = {}
    PROVE  Books'
<1>1. exit \in Syscall /\ open \in Syscall
  BY TestAssumption
<1>2. /\ table'[open].my_list[nonroot] = table[open].my_list[nonroot]
      /\ table'[open].my_list[init] = table[open].my_list[init]
      /\ table'[open].my_list[starter] = table[open].my_list[starter]
      /\ Watched(table[open]) => Watched(table'[open])
      /\ table'[open].intercepted = table[open].intercepted
      /\ table'[exit].intercepted = table[exit].intercepted
      /\ \A s \in Syscall : table'[s].monitored # 2
  BY <1>1, Roles DEF Gently
<1>3. /\ pc'[tester] = "hijack" <=> pc[tester] = "hijack"
      /\ pc'[tester] = "restore" <=> pc[tester] = "restore"
  OBVIOUS
<1>4. QED
  BY <1>2, <1>3 DEF Books

LEMMA BystanderStep ==
    ASSUME IInv, Lists, Machine, NEW b \in Bystanders, pc[Loader] # "removed",
           Request(b) \/ CallSyscall(b) \/ Exit(b) \/ Run(b) \/ Unmapped(b)
    PROVE  /\ pc'[b] \notin {"intercept", "hijack", "release", "restore"}
           /\ pc'[b] \in {"owner", "context", "start", "stop"} => req'[b].cmd \in {START, STOP}
           /\ pc'[b] \in {"context", "start", "stop"} =>
                 req'[b].pid \in Bystanders /\ Owner[req'[b].pid] = Owner[b]
<1>1. /\ TypeInv /\ b \in Proc /\ b \notin Root
      /\ pc \in [Task -> ProcPlace \union LoaderPlace] /\ b \in Task
      /\ Cmds = {INTERCEPT, RELEASE, START, STOP}
  BY Roles, TestAssumption DEF IInv, TypeInv, TypeOK, Task
<1>2. CASE Request(b) \/ CallSyscall(b) \/ Exit(b) \/ Unmapped(b)
  BY <1>1, <1>2 DEF Request, CallSyscall, Exit, Unmapped, Oops, Goto, At
<1>3. CASE CheckArgs(b)
  BY <1>1, <1>3 DEF CheckArgs, At, Return, Goto, TypeInv, RequestsOK
<1>4. CASE CheckOwner(b)
  <2>1. /\ pc[b] = "owner"
        /\ pc'[b] \in {"user", "oops"} \/ /\ pc'[b] = "context" /\ UNCHANGED req
                                          /\ req[b].pid \in Proc
                                          /\ Owner[req[b].pid] = Owner[b]
    BY <1>1, <1>4 DEF CheckOwner, At, Return, Goto, Oops, Alive
  <2>2. QED
    BY <1>1, <2>1, Roles DEF Machine
<1>5. CASE CheckContext(b)
  <2>1. /\ pc[b] = "context"
        /\ pc'[b] \in {"user", "oops"} \/ /\ pc'[b] = CommandPlace(req[b].cmd)
                                          /\ UNCHANGED req
    BY <1>1, <1>5 DEF CheckContext, Holding, Return, Goto, Oops
  <2>2. req[b].cmd \in {START, STOP}
    BY <2>1 DEF Machine
  <2>3. CommandPlace(req[b].cmd) \in {"start", "stop"}
    BY <2>2 DEF CommandPlace, INTERCEPT, RELEASE, START, STOP
  <2>4. QED
    BY <2>1, <2>2, <2>3 DEF Machine
<1>6. CASE /\ Run(b) /\ ~ CheckArgs(b) /\ ~ CheckOwner(b) /\ ~ CheckContext(b)
  <2>1. pc[b] \notin {"args", "owner", "context"}
    BY <1>6 DEF Run, Command, Intercept, Hijack, Release, Restore, Start, Stop, Log,
                CallOriginal, ExitGroup, Disappear, At, Holding
  <2>2. pc'[b] \in Follows(b) /\ pc[b] # "user"
    BY <1>1, <1>6, RunFollows
  <2>3. pc'[b] \in {"user", "call", "log", "oops", "gone", "dead"}
    BY <2>1, <2>2 DEF Follows, Machine
  <2>4. QED
    BY <2>3
<1>7. QED
  BY <1>2, <1>3, <1>4, <1>5, <1>6

LEMMA BystanderTable ==
    ASSUME IInv, Lists, Machine, \A s \in Syscall : table[s].monitored # 2,
           NEW b \in Bystanders,
           Request(b) \/ CallSyscall(b) \/ Exit(b) \/ Run(b) \/ Unmapped(b)
    PROVE  \E q \in Bystanders : \A s \in Syscall : Gently(table[s], table'[s], q)
<1>1. TypeInv /\ b \in Proc
  BY Roles DEF IInv
<1>2. CASE Run(b)
  <2> DEFINE q == IF pc[b] \in {"start", "stop"} THEN req[b].pid ELSE b
  <2>1. q \in Bystanders /\ q \in Proc
    BY Roles DEF Machine
  <2>2. /\ pc[b] \notin {"intercept", "release"}
        /\ pc[b] \in {"start", "stop"} => req[b].pid = q
        /\ pc[b] = "exit" => q = b
    BY DEF Machine
  <2> HIDE DEF q
  <2>3. \A s \in Syscall : Gently(table[s], table'[s], q)
    BY <1>1, <1>2, <2>1, <2>2, RunGently
  <2>4. QED
    BY <2>1, <2>3
<1>3. CASE Request(b) \/ CallSyscall(b) \/ Exit(b) \/ Unmapped(b)
  <2>1. UNCHANGED table
    BY <1>3 DEF Request, CallSyscall, Exit, Unmapped, Oops
  <2>2. QED
    BY <2>1 DEF Gently
<1>4. QED
  BY <1>2, <1>3

LEMMA MeanwhileStep ==
    ASSUME IInv, Lists, line \in 1 .. 28, OnLine, Patient, Machine, Books, Meanwhile
    PROVE  OnLine' /\ Patient' /\ Machine' /\ Books'
<1>1. /\ TypeInv /\ line' = line /\ Now' = Now
      /\ \A s \in Syscall : table[s].monitored # 2
      /\ Now.do \in Cmds \union {"monitor", "return"} => Now.who \in Testers
      /\ pc[Loader] # "removed"
  <2>1. TypeInv /\ line' = line /\ \A s \in Syscall : table[s].monitored # 2
    BY DEF IInv, Meanwhile, Books
  <2>2. Now' = Now
    BY <2>1 DEF Now
  <2>3. /\ Now.do \in Cmds \union {"monitor", "return"} => Now.who \in Testers
    BY Runner
  <2>4. pc[Loader] # "removed"
    BY DEF OnLine
  <2>5. QED
    BY <2>1, <2>2, <2>3, <2>4
<1>2. PICK p \in {init} \union Bystanders :
         \/ CallSyscall(p) \/ Run(p) \/ Unmapped(p)
         \/ p \in Bystanders /\ (Request(p) \/ Exit(p))
  BY DEF Meanwhile
<1>3. /\ p \in Proc /\ Loader \in Task /\ Loader # p
      /\ \A q \in Testers : q \in Task /\ q \in Proc /\ q # p
  BY Roles DEF Task, Testers, Guests
<1>4. /\ \A t \in Task \ {p} : pc'[t] = pc[t]
      /\ \A q \in Proc \ {p} : req'[q] = req[q]
  BY <1>1, <1>2, <1>3, OwnMoves
<1>5. OnLine' /\ Patient'
  <2>1. pc'[Loader] = pc[Loader] /\ \A q \in Testers : pc'[q] = pc[q] /\ req'[q] = req[q]
    BY <1>3, <1>4
  <2>2. OnLine'
    BY <1>1, <2>1 DEF OnLine
  <2>3. Patient'
    BY <1>1, <2>1 DEF Patient, HasGone
  <2>4. QED
    BY <2>2, <2>3
<1>6. Machine' /\ Books'
  <2>1. tester \in Testers
    BY DEF Testers
  <2>2. CASE p = init
    <3>1. UNCHANGED table /\ pc'[init] \in {"user", "log", "call"}
      <4>1. CASE CallSyscall(p) \/ Unmapped(p)
        BY <1>1, <1>3, <2>2, <4>1 DEF CallSyscall, Unmapped, At, Goto, TypeInv, TypeOK, Task
      <4>2. CASE Run(p)
        <5>1. Log(p) \/ CallOriginal(p)
          BY <2>2, <4>2 DEF Machine, Run, Command, CheckArgs, CheckOwner, CheckContext,
                Intercept, Hijack, Release, Restore, Start, Stop, ExitGroup, Disappear, At,
                Holding
        <5>2. pc'[p] \in Follows(p)
          BY <1>1, <1>3, <4>2, RunFollows
        <5>3. CASE CallOriginal(p)
          <6>1. req[p].sys \in Syscall /\ table[req[p].sys].f # "none" /\ pc[p] = "call"
            BY <1>3, <5>3 DEF CallOriginal, At, IInv, TypeInv, RequestsOK, Saved
          <6>2. table[req[p].sys].f \in {"original", "interceptor", "none"}
            BY <1>1, <6>1 DEF TypeInv, TypeOK, Entry, Handler
          <6>3. QED
            BY <1>1, <1>3, <2>2, <5>3, <6>1, <6>2
               DEF CallOriginal, Return, Goto, TypeInv, TypeOK, Task
        <5>4. CASE Log(p)
          BY <2>2, <5>2, <5>4 DEF Log, Holding, Follows
        <5>5. QED
          BY <5>1, <5>3, <5>4
      <4>3. CASE p \in Bystanders
        BY <2>2, <4>3, Roles
      <4>4. QED
        BY <1>2, <4>1, <4>2, <4>3
    <3>2. \A b \in Bystanders : pc'[b] = pc[b] /\ req'[b] = req[b]
      BY <1>4, <2>2, Roles DEF Task
    <3>3. Machine'
      BY <3>1, <3>2 DEF Machine
    <3>4. Books'
      BY <1>1, <1>3, <1>4, <2>1, <3>1 DEF Books, Watched
    <3>5. QED
      BY <3>3, <3>4
  <2>3. CASE p \in Bystanders
    <3>1. Request(p) \/ CallSyscall(p) \/ Exit(p) \/ Run(p) \/ Unmapped(p)
      BY <1>2
    <3>2. Machine'
      <4>1. pc'[init] = pc[init]
        BY <1>4, <2>3, Roles DEF Task
      <4>2. \A b \in Bystanders : b # p => pc'[b] = pc[b] /\ req'[b] = req[b]
        BY <1>4, Roles DEF Task
      <4>3. /\ pc'[p] \notin {"intercept", "hijack", "release", "restore"}
            /\ pc'[p] \in {"owner", "context", "start", "stop"} => req'[p].cmd \in {START, STOP}
            /\ pc'[p] \in {"context", "start", "stop"} =>
                  req'[p].pid \in Bystanders /\ Owner[req'[p].pid] = Owner[p]
        BY <1>1, <2>3, <3>1, BystanderStep
      <4>4. QED
        BY <4>1, <4>2, <4>3 DEF Machine
    <3>3. Books'
      <4>1. PICK q \in Bystanders : \A s \in Syscall : Gently(table[s], table'[s], q)
        BY <1>1, <2>3, <3>1, BystanderTable
      <4>2. q \in Proc \ {nonroot, init, starter}
        BY Roles
      <4>3. pc'[tester] = pc[tester]
        BY <1>3, <1>4, <2>1
      <4>4. QED
        BY <1>1, <4>1, <4>2, <4>3, BooksStay
    <3>4. QED
      BY <3>2, <3>3
  <2>4. QED
    BY <2>2, <2>3
<1>7. QED
  BY <1>5, <1>6

-----------------------------------------------------------------------------
\* A line makes its call.
LEMMA BooksUntouched ==
    ASSUME Books, UNCHANGED <<table, line>>,
           \/ pc'[tester] = pc[tester]
           \/ {pc[tester], pc'[tester]} \cap {"hijack", "restore"} = {}
    PROVE  Books'
<1>1. \A s \in Syscall : Gently(table[s], table'[s], tester)
  BY DEF Gently, Books
<1>2. tester \in Proc \ {nonroot, init, starter}
  BY Roles DEF Guests
<1>3. QED
  BY <1>1, <1>2, BooksStay

\* Others, who have no part in what a step changes.
LEMMA OthersStay ==
    ASSUME Machine, NEW p \in Testers \union {Loader},
           \A t \in Task \ {p} : pc'[t] = pc[t],
           \A q \in Proc \ {p} : req'[q] = req[q]
    PROVE  Machine'
<1>1. /\ init \in Proc \ {p} /\ init \in Task \ {p}
      /\ \A b \in Bystanders : b \in Proc \ {p} /\ b \in Task \ {p}
  BY Roles DEF Testers, Guests, Task
<1>2. QED
  BY <1>1 DEF Machine

LEMMA BeginStep ==
    ASSUME TypeInv, line \in 1 .. 28, OnLine, Patient, Machine, Books, Begin
    PROVE  OnLine' /\ Patient' /\ Machine' /\ Books'
<1> DEFINE p == Now.who
<1>1. /\ line' = line /\ Now' = Now /\ p \in Testers \union {Loader}
      /\ p = Loader <=> line = 1
      /\ Testers \subseteq Proc /\ Loader \in Task /\ Loader \notin Proc
      /\ \A q \in Testers : q \in Task /\ q # Loader
  BY Runner, Roles DEF Begin, Now, Testers, Guests, Task
<1>2. pc \in [Task -> ProcPlace \union LoaderPlace] /\ req \in [Proc -> Args]
  BY DEF TypeInv, TypeOK
<1>3. /\ UNCHANGED table /\ pc[p] \notin {"hijack", "restore"}
      /\ pc'[p] \notin {"hijack", "restore"}
      /\ \A t \in Task \ {p} : pc'[t] = pc[t]
      /\ \A q \in Proc \ {p} : req'[q] = req[q]
      /\ OnLine'
  <2>1. CASE Now.do = "insmod"
    <3>1. Load /\ p = Loader
      BY <1>1, <2>1, Runner, TestAssumption DEF Begin, INTERCEPT, RELEASE, START, STOP
    <3>2. /\ UNCHANGED <<table, req>> /\ pc[p] = "unloaded" /\ pc'[p] = "init_hijack"
          /\ \A t \in Task \ {p} : pc'[t] = pc[t]
      BY <1>1, <1>2, <3>1 DEF Load, At, Goto
    <3>3. Now.do \notin Cmds
      BY <2>1, TestAssumption DEF INTERCEPT, RELEASE, START, STOP
    <3>4. OnLine'
      BY <1>1, <2>1, <3>1, <3>2, <3>3 DEF OnLine
    <3>5. QED
      BY <3>2, <3>4
  <2>2. CASE Now.do \in Cmds
    <3>1. /\ Request(p) /\ p \in Proc
          /\ req'[p] = Asked(Now)
          /\ Now.do \notin {"insmod", "monitor", "return"}
      BY <1>1, <2>2, Runner, TestAssumption DEF Begin, Asked, INTERCEPT, RELEASE, START, STOP
    <3>2. /\ UNCHANGED table /\ pc[p] = "user" /\ pc'[p] = "args"
          /\ \A t \in Task \ {p} : pc'[t] = pc[t]
      BY <1>1, <1>2, <3>1 DEF Request, At, Goto
    <3>3. \A q \in Proc \ {p} : req'[q] = req[q]
      BY <1>2, <3>1 DEF Request
    <3>4. OnLine'
      BY <1>1, <2>2, <3>1, <3>2 DEF OnLine, OnTheWay
    <3>5. QED
      BY <3>2, <3>3, <3>4
  <2>3. CASE Now.do = "monitor"
    <3>1. /\ CallSyscall(p) /\ p \in Proc
          /\ req'[p].sys = Now.sys
          /\ Now.do \notin {"insmod", "return"} \union Cmds
      BY <1>1, <2>3, Runner, TestAssumption DEF Begin, INTERCEPT, RELEASE, START, STOP
    <3>2. /\ UNCHANGED table /\ pc[p] = "user" /\ pc'[p] \in {"log", "oops"}
          /\ \A t \in Task \ {p} : pc'[t] = pc[t]
      BY <1>1, <1>2, <3>1 DEF CallSyscall, At, Goto
    <3>3. \A q \in Proc \ {p} : req'[q] = req[q]
      BY <1>2, <3>1 DEF CallSyscall
    <3>4. OnLine'
      BY <1>1, <2>3, <3>1, <3>2 DEF OnLine
    <3>5. QED
      BY <3>2, <3>3, <3>4
  <2>4. CASE Now.do = "return"
    <3>1. /\ Exit(p) /\ p \in Proc
          /\ Now.do \notin {"insmod", "monitor"} \union Cmds
      BY <1>1, <2>4, Runner, TestAssumption DEF Begin, INTERCEPT, RELEASE, START, STOP
    <3>2. /\ UNCHANGED <<table, req>> /\ pc[p] = "user" /\ pc'[p] = "exit"
          /\ \A t \in Task \ {p} : pc'[t] = pc[t]
      BY <1>1, <1>2, <3>1 DEF Exit, At, Goto, Entered, OnLine
    <3>3. OnLine'
      BY <1>1, <2>4, <3>1, <3>2 DEF OnLine
    <3>4. QED
      BY <3>2, <3>3
  <2>5. QED
    BY <2>1, <2>2, <2>3, <2>4, Runner
<1>4. Patient'
  BY <1>1, <1>3 DEF Patient, HasGone
<1>5. Machine'
  BY <1>1, <1>3, OthersStay
<1>6. Books'
  <2>1. tester \in Testers
    BY DEF Testers
  <2>2. \/ pc'[tester] = pc[tester]
        \/ {pc[tester], pc'[tester]} \cap {"hijack", "restore"} = {}
    BY <1>1, <1>3, <2>1
  <2>3. QED
    BY <1>1, <1>3, <2>2, BooksUntouched
<1>7. QED
  BY <1>3, <1>4, <1>5, <1>6

\* The tests are one more way to use the module.
LEMMA TestStepIsStep ==
    ASSUME line \in 1 .. 30, [TestNext]_testVars
    PROVE  [Next]_vars
<1>1. CASE Begin
  <2>1. line \in 1 .. 29 /\ (line = 29 => Now.do = "rmmod")
    BY <1>1, ScriptLines, DoColumn DEF Begin, Running, Now
  <2>2. CASE line = 29
    BY <1>1, <2>1, <2>2, TestAssumption DEF Begin, Next, INTERCEPT, RELEASE, START, STOP
  <2>3. CASE line # 29
    <3>1. /\ line \in 1 .. 28 /\ Now.do \in Cmds \union {"monitor", "return", "insmod"}
          /\ Now.do = "insmod" \/ Now.who \in Proc
      BY <2>1, <2>3, Runner, Roles DEF Testers, Guests
    <3>2. \/ Load
          \/ /\ Now.who \in Proc
             /\ Request(Now.who) \/ CallSyscall(Now.who) \/ Exit(Now.who)
      BY <1>1, <3>1, TestAssumption DEF Begin, INTERCEPT, RELEASE, START, STOP
    <3>3. QED
      BY <3>2 DEF Next
  <2>4. QED
    BY <2>2, <2>3
<1>2. CASE Continue
  <2>1. line \in 1 .. 29 /\ Now.who \in Proc \union {Loader}
    <3>1. line \in 1 .. 29 /\ (line = 29 => Now.who = Loader)
      BY <1>2, ScriptLines, WhoColumn DEF Continue, Running, Now
    <3>2. line # 29 => Now.who \in Proc \union {Loader}
      BY <3>1, Runner, Roles DEF Testers, Guests
    <3>3. QED
      BY <3>1, <3>2
  <2>2. QED
    BY <1>2, <2>1 DEF Continue, Next
<1>3. CASE Lock
  BY <1>3 DEF Lock, Next
<1>4. CASE Meanwhile
  BY <1>4, Roles DEF Meanwhile, Next
<1>5. CASE UNCHANGED testVars
  BY <1>5 DEF testVars
<1>6. QED
  BY <1>1, <1>2, <1>3, <1>4, <1>5 DEF TestNext

-----------------------------------------------------------------------------
\* A line goes on or comes to its end.
LEMMA LineGoesOn ==
    ASSUME line \in 1 .. 28, LineInv, UNCHANGED line,
           \A t \in Task \ {Now.who} : pc'[t] = pc[t],
           \A q \in Proc \ {Now.who} : req'[q] = req[q],
           OnLine', Books'
    PROVE  LineInv'
<1>1. Now' = Now /\ Now.who \in Testers \union {Loader} /\ Testers \subseteq Task
  BY Runner, Roles DEF Now, Testers, Guests, Task
<1>2. Patient'
  BY <1>1 DEF LineInv, Patient, HasGone
<1>3. Machine'
  BY <1>1, OthersStay DEF LineInv
<1>4. QED
  BY <1>2, <1>3 DEF LineInv

LEMMA NextLine ==
    ASSUME line \in 1 .. 27, OnLine, Patient, line' = line + 1,
           \A t \in Task \ {Now.who} : pc'[t] = pc[t],
           pc'[Now.who] = IF line = 1 THEN "loaded"
                          ELSE IF line \in {17, 22, 25, 26} THEN "dead" ELSE "user"
    PROVE  OnLine' /\ Patient'
<1> DEFINE p == Now.who
           w == Script[line + 1].who
<1>1. /\ Now'.who = w /\ line + 1 \in 2 .. 28
      /\ Now' = Script[line + 1] /\ Now = Script[line]
  BY DEF Now
<1>2. /\ line = 1 => p = Loader
      /\ line \in (2 .. 5) \union (18 .. 20) \union {23, 27} => p = tester
      /\ line \in 6 .. 17 => p = nonroot
      /\ line \in {21, 22} => p = stopper
      /\ line \in {24, 25} => p = starter
      /\ line = 26 => p = last_child
  BY WhoColumn, <1>1
<1>3. /\ line + 1 \in (2 .. 5) \union (18 .. 20) \union {23, 27, 28} => w = tester
      /\ line + 1 \in 6 .. 17 => w = nonroot
      /\ line + 1 \in {21, 22} => w = stopper
      /\ line + 1 \in {24, 25} => w = starter
      /\ line + 1 = 26 => w = last_child
  BY WhoColumn
<1>4. /\ \A q \in Testers : q \in Task /\ q # Loader
      /\ Loader \in Task /\ w \in Testers
      /\ \A q \in Testers : q \in {tester, nonroot, stopper, starter, last_child}
  BY <1>3, Roles DEF Testers, Guests, Task
<1> HIDE DEF p, w
<1>5. /\ tester \notin {nonroot, stopper, starter, last_child}
      /\ nonroot \notin {stopper, starter, last_child}
      /\ stopper \notin {starter, last_child} /\ starter # last_child
  BY Roles DEF Guests
<1>6. \A q \in Testers :
         pc'[q] = IF q = p THEN IF line = 1 THEN "loaded"
                                ELSE IF line \in {17, 22, 25, 26} THEN "dead" ELSE "user"
                  ELSE IF HasGone(q) THEN "dead" ELSE "user"
  BY <1>4 DEF Patient, p
<1>7. pc'[w] = "user"
  BY <1>2, <1>3, <1>4, <1>5, <1>6 DEF HasGone
<1>8. pc'[Loader] = "loaded"
  <2>1. CASE line = 1
    BY <1>2, <2>1 DEF p
  <2>2. CASE line # 1
    BY <1>4, <2>2, Runner DEF OnLine
  <2>3. QED
    BY <2>1, <2>2
<1>9. OnLine'
  <2>1. Now'.do # "insmod"
    BY <1>1, DoColumn DEF INTERCEPT, RELEASE, START, STOP
  <2>2. QED
    BY <1>1, <1>7, <1>8, <2>1 DEF OnLine, w
<1>10. ASSUME NEW q \in Testers, q # w
       PROVE  pc'[q] = IF HasGone(q)' THEN "dead" ELSE "user"
  BY <1>2, <1>3, <1>4, <1>5, <1>6, <1>10 DEF HasGone
<1>11. Patient'
  BY <1>1, <1>10 DEF Patient, w
<1>12. QED
  BY <1>9, <1>11

-----------------------------------------------------------------------------
\* A command of the script: it goes on as its line expects, or returns what its line
\* expects, or a kmalloc failed.
Outcome ==
    LET p == Now.who
    IN  \/ /\ pc'[p] = "oops" \/ (OnTheWay(Now, pc'[p]) /\ UNCHANGED req)
           /\ UNCHANGED line => Books'
        \/ /\ pc'[p] = "user" /\ Result(p) = Now.status
           /\ line' = line + 1 /\ line' <= 28 => Books'
        \/ pc'[p] = "user" /\ Result(p) = "-ENOMEM" /\ Now.do = START

LEMMA RunnerMoves ==
    ASSUME TypeInv, line \in 1 .. 28, Continue
    PROVE  /\ \A t \in Task \ {Now.who} : pc'[t] = pc[t]
           /\ \A q \in Proc \ {Now.who} : req'[q] = req[q]
<1>1. CASE Now.who # Loader
  <2>1. Now.who \in Proc /\ Run(Now.who)
    BY <1>1, Runner, Roles DEF Continue, Testers, Guests
  <2>2. QED
    BY <2>1, OwnMoves
<1>2. CASE Now.who = Loader
  <2>1. UNCHANGED req /\ \E place : Goto(Loader, place)
    BY <1>2 DEF Continue, LoaderStep, InitHijack, InitTable, ExitRestore, ExitClear
  <2>2. QED
    BY <1>2, <2>1 DEF Goto, TypeInv, TypeOK
<1>3. QED
  BY <1>1, <1>2

LEMMA OutcomeTestInv ==
    ASSUME TypeInv, line \in 1 .. 28, LineInv, ~ nomem, passed, Now.do \in Cmds,
           Continue, Outcome
    PROVE  TestInv'
<1> DEFINE p == Now.who
<1>1. /\ line # 1 /\ line \notin {14, 17, 22, 25, 26}
      /\ Now.do \notin {"insmod", "monitor", "return"}
      /\ Now.do \in {INTERCEPT, RELEASE, START, STOP}
      /\ p \in Testers /\ p \in Proc
  BY Runner, Roles, TestAssumption DEF Testers, Guests
<1>2. /\ \A t \in Task \ {p} : pc'[t] = pc[t]
      /\ \A q \in Proc \ {p} : req'[q] = req[q]
  BY RunnerMoves
<1>3. /\ line' = IF Ended(p) THEN line + 1 ELSE line
      /\ nomem' = (nomem \/ (Ended(p) /\ Now.do = START /\ Result(p) = "-ENOMEM"))
      /\ passed' = (passed /\ LinePasses)
  BY DEF Continue
<1>4. LinePasses <=> (pc'[p] = "user" => Result(p) = Now.status)
  BY <1>1 DEF LinePasses
<1>5. CASE /\ pc'[p] = "oops" \/ (OnTheWay(Now, pc'[p]) /\ UNCHANGED req)
           /\ UNCHANGED line => Books'
  <2>1. pc'[p] \notin {"user", "dead", "loaded", "removed"}
    BY <1>1, <1>5 DEF OnTheWay, CommandPlace, INTERCEPT, RELEASE, START, STOP
  <2>2. UNCHANGED line /\ passed' /\ Books' /\ Now' = Now
    BY <1>3, <1>4, <1>5, <2>1 DEF Ended, Now
  <2>3. OnLine'
    <3>1. pc'[Loader] = pc[Loader] /\ pc[Loader] = "loaded"
      BY <1>1, <1>2, Roles DEF LineInv, OnLine, Task
    <3>2. pc[p] \notin {"user", "oops"}
      <4>1. Run(p)
        BY <1>1, Roles DEF Continue
      <4>2. QED
        BY <1>1, <4>1, RunFollows
    <3>3. req[p] = Asked(Now)
      BY <3>2 DEF LineInv, OnLine
    <3>4. QED
      BY <1>1, <1>5, <2>1, <2>2, <3>1, <3>3 DEF OnLine
  <2>4. LineInv'
    BY <1>2, <2>2, <2>3, LineGoesOn
  <2>5. QED
    BY <2>2, <2>4 DEF TestInv
<1>6. CASE /\ pc'[p] = "user" /\ Result(p) = Now.status
           /\ line' = line + 1 /\ line' <= 28 => Books'
  <2>1. Ended(p) /\ line' = line + 1 /\ line' \in 1 .. 30
    BY <1>3, <1>6 DEF Ended
  <2>4. LinePasses
    BY <1>4, <1>6
  <2>5. passed'
    BY <1>3, <2>4
  <2>2. ASSUME line' <= 28
        PROVE  LineInv'
    <3>1. OnLine' /\ Patient'
      BY <1>1, <1>2, <1>6, <2>1, <2>2, NextLine DEF LineInv
    <3>2. Machine'
      BY <1>1, <1>2, OthersStay DEF LineInv
    <3>3. QED
      BY <1>6, <2>1, <2>2, <3>1, <3>2 DEF LineInv
  <2>3. QED
    BY <2>1, <2>2, <2>5 DEF TestInv
<1>7. CASE pc'[p] = "user" /\ Result(p) = "-ENOMEM" /\ Now.do = START
  <2>1. Ended(p)
    BY <1>7 DEF Ended
  <2>2. line' = line + 1 /\ nomem'
    BY <1>3, <1>7, <2>1
  <2>3. QED
    BY <2>2 DEF TestInv
<1>8. QED
  BY <1>5, <1>6, <1>7 DEF Outcome

\* Which action is the next one at a place.
LEMMA RunAt ==
    ASSUME NEW p, Run(p)
    PROVE  /\ pc[p] = "args" => CheckArgs(p)
           /\ pc[p] = "owner" => CheckOwner(p)
           /\ pc[p] = "context" => CheckContext(p)
           /\ pc[p] = "intercept" => Intercept(p)
           /\ pc[p] = "hijack" => Hijack(p)
           /\ pc[p] = "release" => Release(p)
           /\ pc[p] = "restore" => Restore(p)
           /\ pc[p] = "start" => Start(p)
           /\ pc[p] = "stop" => Stop(p)
           /\ pc[p] = "log" => Log(p)
           /\ pc[p] = "call" => CallOriginal(p)
           /\ pc[p] = "exit" => ExitGroup(p)
           /\ pc[p] = "gone" => Disappear(p)
           /\ pc[p] \in {"args", "owner", "context", "intercept", "hijack", "release",
                         "restore", "start", "stop", "log", "call", "exit", "gone"}
  BY DEF Run, Command, CheckArgs, CheckOwner, CheckContext, Intercept, Hijack, Release,
         Restore, Start, Stop, Log, CallOriginal, ExitGroup, Disappear, At, Holding

-----------------------------------------------------------------------------
\* The commands of the script, place by place.
CommandLines == (2 .. 13) \union {15, 16} \union (18 .. 21) \union {23, 24, 27, 28}

LEMMA CommandLine ==
    ASSUME TypeInv, line \in 1 .. 28, LineInv, Now.do \in Cmds, Continue
    PROVE  /\ line \in CommandLines /\ Now.who \in Proc /\ Run(Now.who)
           /\ req[Now.who] = Asked(Now) /\ OnTheWay(Now, pc[Now.who])
<1>1. line \in CommandLines
  BY Runner DEF CommandLines
<1>2. Now.who \in Proc /\ Now.who # Loader
  BY <1>1, Runner, Roles DEF CommandLines, Testers, Guests
<1>3. Run(Now.who)
  BY <1>2 DEF Continue
<1>4. pc[Now.who] \notin {"user", "oops"}
  BY <1>2, <1>3, RunFollows
<1>5. QED
  BY <1>1, <1>2, <1>3, <1>4 DEF LineInv, OnLine

\* A line that changes nothing in the table leaves what the next one finds.
LEMMA BooksSkip ==
    ASSUME Books, UNCHANGED table, line' = line + 1,
           line \in (5 .. 11) \union {13, 14, 16, 21, 27},
           {pc[tester], pc'[tester]} \cap {"hijack", "restore"} = {}
    PROVE  Books'
<1>1. \A s \in Syscall : table'[s].monitored # 2
  BY DEF Books
<1>2. /\ line \in 1 .. 28 /\ line' >= 5 /\ line' > 2 /\ line' # 3 /\ line' > 4
      /\ line >= 5 /\ ~ (line <= 2) /\ line # 3 /\ ~ (line <= 4)
      /\ line' \in (6 .. 12) \union {14, 15, 17, 22, 28}
  OBVIOUS
<1>3. /\ pc[tester] # "hijack" /\ pc[tester] # "restore"
      /\ pc'[tester] # "hijack" /\ pc'[tester] # "restore"
  OBVIOUS
<1>4. /\ table[open].intercepted /\ Watched(table[open]) = Watched(table'[open])
      /\ line' <= 28 /\ table' = table
  BY <1>2, <1>3 DEF Books
<1>5. /\ line' \in {6, 7, 8, 9, 10, 11, 12, 17, 22, 28, 14, 15}
      /\ line <= 27 => Watched(table[open])
  BY <1>2 DEF Books
<1>6. /\ table[open].my_list[nonroot] = 0 \/ line' \in 13 .. 15 \/ line' > 16
      /\ line' \in 13 .. 15 => table[open].my_list[nonroot] = 1
      /\ line' <= 20 => table[open].my_list[init] = 0
      /\ line' \in 21 .. 23 => table[open].my_list[init] = 1
      /\ line' <= 24 => table[open].my_list[starter] = 0
  BY <1>2 DEF Books
<1>7. QED
  BY <1>1, <1>2, <1>3, <1>4, <1>5, <1>6 DEF Books

LEMMA TesterAside ==
    ASSUME TypeInv, line \in 1 .. 28, LineInv, Continue, Now.who # tester
    PROVE  pc[tester] = "user" /\ pc'[tester] = "user"
<1>1. pc[tester] = "user"
  BY Roles DEF LineInv, Patient, HasGone, Testers, Guests
<1>2. QED
  BY <1>1, RunnerMoves, Roles DEF Task

LEMMA ArgsStep ==
    ASSUME TypeInv, line \in 1 .. 28, LineInv, Now.do \in Cmds, Continue,
           pc[Now.who] = "args"
    PROVE  Outcome
<1> DEFINE p == Now.who
<1>1. /\ line \in CommandLines /\ p \in Proc /\ CheckArgs(p) /\ req[p] = Asked(Now)
      /\ pc \in [Task -> ProcPlace \union LoaderPlace] /\ p \in Task
  BY CommandLine, RunAt DEF TypeInv, TypeOK, Task
<1>2. /\ line \in (2 .. 5) \union (18 .. 20) \union {23, 27, 28} => p = tester
      /\ line \in 6 .. 16 => p = nonroot
      /\ line = 21 => p = stopper
      /\ line = 24 => p = starter
  BY WhoColumn DEF Now
<1>3. /\ Now.pid = AllPids \/ Alive(Now.pid) <=> line # 27
      /\ Alive(AllPids) = FALSE
  <2>1. Alive(p) /\ Alive(init)
    BY <1>1, Roles DEF Alive, LineInv, Machine
  <2>2. line = 27 => ~ Alive(last_child)
    BY <1>2, Roles DEF LineInv, Patient, HasGone, Alive, Testers, Guests
  <2>3. /\ line \in (2 .. 5) \union {28} => Now.pid = tester
        /\ line \in {6, 7, 12, 13, 15, 16} => Now.pid = nonroot
        /\ line \in {10, 11, 20, 21, 23} => Now.pid = init
        /\ line \in {8, 9, 18, 19} => Now.pid = AllPids
        /\ line = 24 => Now.pid = starter
        /\ line = 27 => Now.pid = last_child
    BY PidColumn DEF Now
  <2>4. last_child # AllPids /\ ~ Alive(AllPids)
    BY Roles DEF Alive
  <2>5. QED
    BY <1>1, <1>2, <2>1, <2>2, <2>3, <2>4 DEF CommandLines
<1>4. Now.do \in {INTERCEPT, RELEASE} /\ p \notin Root <=> line \in {6, 7}
  <2>1. line \in (2 .. 5) \union (18 .. 20) \union {23, 27, 28} <=> p \in Root
    BY <1>1, <1>2, Roles DEF CommandLines, Guests
  <2>2. Now.do \in {INTERCEPT, RELEASE} <=> line \in (2 .. 7) \union {28}
    BY <1>1, DoColumn DEF Now, CommandLines, INTERCEPT, RELEASE, START, STOP
  <2>3. QED
    BY <1>1, <2>1, <2>2 DEF CommandLines
<1>5. /\ req[p].cmd = Now.do /\ req[p].pid = Now.pid
  BY <1>1 DEF Asked
<1>6. CASE line \in {6, 7, 27}
  <2>1. pc'[p] = "user" /\ UNCHANGED table
    BY <1>1, <1>3, <1>4, <1>5, <1>6 DEF CheckArgs, Return, Goto
  <2>2. Result(p) = IF line = 27 THEN "-EINVAL" ELSE "-EPERM"
    BY <1>1, <1>3, <1>5, <1>6 DEF CheckArgs, At, Result
  <2>3. Now.status = IF line = 27 THEN "-EINVAL" ELSE "-EPERM"
    BY <1>6, StatusColumn DEF Now
  <2>4. {pc[tester], pc'[tester]} \cap {"hijack", "restore"} = {}
    BY <2>1, TesterAside
  <2>5. line' = line + 1 => Books'
    BY <1>6, <2>1, <2>4, BooksSkip DEF LineInv
  <2>6. QED
    BY <2>1, <2>2, <2>3, <2>5 DEF Outcome
<1>7. CASE line \notin {6, 7, 27}
  <2>1. /\ pc'[p] = IF p \in Root THEN "context" ELSE "owner"
        /\ UNCHANGED <<req, table>>
    BY <1>1, <1>3, <1>4, <1>5, <1>7 DEF CheckArgs, Goto
  <2>2. OnTheWay(Now, pc'[p])
    <3>1. CASE p \in Root
      <4>1. line \in (2 .. 5) \union (18 .. 20) \union {23, 28}
        BY <1>1, <1>2, <1>7, <3>1, Roles DEF CommandLines, Guests
      <4>2. Now.status # "-EPERM"
        BY <4>1, StatusColumn DEF Now
      <4>3. Now.pid # last_child
        BY <4>1, PidColumn, Roles DEF Now
      <4>4. QED
        BY <2>1, <3>1, <4>2, <4>3 DEF OnTheWay
    <3>2. CASE p \notin Root
      BY <1>1, <1>4, <1>7, <2>1, <3>2, TestAssumption DEF OnTheWay
    <3>3. QED
      BY <3>1, <3>2
  <2>3. {pc[tester], pc'[tester]} \cap {"hijack", "restore"} = {}
    BY <2>1, TesterAside
  <2>4. UNCHANGED line => Books'
    BY <2>1, <2>3, BooksUntouched DEF LineInv
  <2>5. QED
    BY <2>1, <2>2, <2>4 DEF Outcome
<1>8. QED
  BY <1>6, <1>7

LEMMA OwnerStep ==
    ASSUME TypeInv, line \in 1 .. 28, LineInv, Now.do \in Cmds, Continue,
           pc[Now.who] = "owner"
    PROVE  Outcome
<1> DEFINE p == Now.who
<1>1. /\ line \in CommandLines /\ p \in Proc /\ CheckOwner(p) /\ req[p] = Asked(Now)
      /\ pc \in [Task -> ProcPlace \union LoaderPlace] /\ p \in Task
      /\ p \notin Root /\ Now.do \in {START, STOP}
  <2>1. /\ line \in CommandLines /\ p \in Proc /\ CheckOwner(p) /\ req[p] = Asked(Now)
        /\ pc \in [Task -> ProcPlace \union LoaderPlace] /\ p \in Task
        /\ OnTheWay(Now, "owner")
    BY CommandLine, RunAt DEF TypeInv, TypeOK, Task
  <2>2. CommandPlace(Now.do) # "owner"
    BY CmdsAssumption DEF CommandPlace, INTERCEPT, RELEASE, START, STOP
  <2>3. QED
    BY <2>1, <2>2 DEF OnTheWay
<1>2. line \in (8 .. 13) \union {15, 16, 21, 24}
  <2>1. /\ line \in (2 .. 5) \union (18 .. 20) \union {23, 27, 28} => p = tester
        /\ line \in {6, 7} => Now.do \in {INTERCEPT, RELEASE}
    BY WhoColumn, DoColumn DEF Now
  <2>2. QED
    BY <1>1, <2>1, Roles DEF CommandLines, INTERCEPT, RELEASE, START, STOP
<1>3. /\ p \in Guests /\ p # tester
      /\ line \in {8, 9} => Now.pid = AllPids
      /\ line \in {10, 11, 21} => Now.pid = init
      /\ line \in {12, 13, 15, 16, 24} => Now.pid = p
      /\ line \in (8 .. 11) \union {21} => Now.status = "-EPERM"
      /\ line \in {12, 13, 15, 16, 24} => Now.status # "-EPERM"
  <2>1. /\ line \in 8 .. 16 => p = nonroot
        /\ line = 21 => p = stopper
        /\ line = 24 => p = starter
    BY WhoColumn DEF Now
  <2>2. p \in Guests /\ p # tester
    BY <1>2, <2>1, Roles DEF Guests
  <2>3. /\ line \in {8, 9} => Now.pid = AllPids
        /\ line \in {10, 11, 21} => Now.pid = init
        /\ line \in {12, 13, 15, 16, 24} => Now.pid = p
    BY <2>1, PidColumn DEF Now
  <2>4. /\ line \in (8 .. 11) \union {21} => Now.status = "-EPERM"
        /\ line \in {12, 13, 15, 16, 24} => Now.status # "-EPERM"
    BY StatusColumn DEF Now
  <2>5. QED
    BY <2>2, <2>3, <2>4
<1>4. req[p].pid = Now.pid /\ UNCHANGED table
  BY <1>1 DEF Asked, CheckOwner, Oops
<1>5. pc[tester] = "user" /\ pc'[tester] = "user"
  BY <1>3, TesterAside
<1>6. UNCHANGED line => Books'
  BY <1>4, <1>5, BooksUntouched DEF LineInv
<1>7. CASE line \in (8 .. 11) \union {21}
  <2>1. /\ Now.pid = AllPids \/ Owner[Now.pid] # Owner[p]
        /\ Now.status = "-EPERM"
    BY <1>3, <1>7, Roles
  <2>2. pc'[p] \in {"user", "oops"}
    BY <1>1, <1>4, <2>1, Roles DEF CheckOwner, Return, Goto, Oops, Alive
  <2>3. Result(p) = "-EPERM"
    BY <1>1 DEF CheckOwner, At, Result
  <2>4. line' = line + 1 => Books'
    BY <1>4, <1>5, <1>7, BooksSkip DEF LineInv
  <2>5. QED
    BY <1>6, <2>1, <2>2, <2>3, <2>4 DEF Outcome
<1>8. CASE line \in {12, 13, 15, 16, 24}
  <2>1. Now.pid = p /\ p # AllPids /\ p # last_child /\ Now.status # "-EPERM"
    BY <1>1, <1>3, <1>8, Roles
  <2>2. pc'[p] = "oops" \/ (pc'[p] = "context" /\ UNCHANGED req)
    BY <1>1, <1>4, <2>1 DEF CheckOwner, Goto, Oops
  <2>3. pc'[p] = "oops" \/ (OnTheWay(Now, pc'[p]) /\ UNCHANGED req)
    BY <2>1, <2>2 DEF OnTheWay
  <2>4. QED
    BY <1>6, <2>3 DEF Outcome
<1>9. QED
  BY <1>2, <1>7, <1>8

\* The check of the context finds what the lines before have left.
LEMMA ContextIsExpected ==
    ASSUME TypeInv, StopAllUnlisted = TRUE, line \in CommandLines, line \in 1 .. 28, LineInv,
           pc[Now.who] = "context", OnTheWay(Now, "context")
    PROVE  Refused(Now.do, Now.sys, Now.pid) <=> Now.status # "0"
<1> DEFINE listed == table[open].my_list
<1>1. /\ pc[tester] \notin {"hijack", "restore"}
      /\ line \in {2, 3, 4, 5, 12, 13, 15, 16, 18, 19, 20, 23, 24, 28}
  <2>1. line \notin (6 .. 11) \union {21, 27}
    BY StatusColumn, PidColumn DEF Now, OnTheWay
  <2>2. Now.who = tester \/ pc[tester] = "user"
    BY Roles DEF LineInv, Patient, HasGone, Testers, Guests
  <2>3. QED
    BY <2>1, <2>2 DEF CommandLines
<1>2. Books
  BY DEF LineInv
<1>3. CASE line \in {2, 4, 5}
  <2>1. Now.do = INTERCEPT /\ Now.sys = IF line = 2 THEN exit ELSE open
    BY <1>3, DoColumn, SysColumn DEF Now
  <2>2. Now.status # "0" <=> line = 5
    BY <1>3, StatusColumn DEF Now
  <2>3. /\ line = 2 => ~ table[exit].intercepted
        /\ line = 4 => ~ table[open].intercepted
        /\ line = 5 => table[open].intercepted
    BY <1>1, <1>2 DEF Books
  <2>4. Refused(Now.do, Now.sys, Now.pid) <=> table[Now.sys].intercepted
    BY <2>1 DEF Refused, INTERCEPT, RELEASE, START, STOP
  <2>5. QED
    BY <1>3, <2>1, <2>2, <2>3, <2>4
<1>4. CASE line \in {3, 28}
  <2>1. Now.do = RELEASE /\ Now.sys = IF line = 3 THEN exit ELSE open
    BY <1>4, DoColumn, SysColumn DEF Now
  <2>2. Now.status = "0"
    BY <1>4, StatusColumn DEF Now
  <2>3. /\ line = 3 => table[exit].intercepted
        /\ line = 28 => table[open].intercepted
    BY <1>1, <1>2 DEF Books
  <2>4. Refused(Now.do, Now.sys, Now.pid) <=> ~ table[Now.sys].intercepted
    BY <2>1 DEF Refused, INTERCEPT, RELEASE, START, STOP
  <2>5. QED
    BY <1>4, <2>1, <2>2, <2>3, <2>4
<1>5. CASE line \in {12, 13, 18, 20, 24}
  <2>1. Now.do = START /\ Now.sys = open
    BY <1>5, DoColumn, SysColumn DEF Now
  <2>2. Now.status # "0" <=> line = 13
    BY <1>5, StatusColumn DEF Now
  <2>3. /\ line \in {12, 13} => Now.pid = nonroot
        /\ line = 18 => Now.pid = AllPids
        /\ line = 20 => Now.pid = init
        /\ line = 24 => Now.pid = starter
    BY PidColumn DEF Now
  <2>4. /\ line = 12 => listed[nonroot] = 0
        /\ line = 13 => listed[nonroot] = 1
        /\ line = 20 => listed[init] = 0
        /\ line = 24 => listed[starter] = 0
    BY <1>2 DEF Books
  <2>5. Refused(Now.do, Now.sys, Now.pid) <=> Now.pid \in Proc /\ listed[Now.pid] > 0
    BY <2>1 DEF Refused, check_pid_monitored, INTERCEPT, RELEASE, START, STOP
  <2>6. QED
    BY <1>5, <2>2, <2>3, <2>4, <2>5, Roles
<1>6. CASE line \in {15, 16, 19, 23}
  <2>1. Now.do = STOP /\ Now.sys = open
    BY <1>6, DoColumn, SysColumn DEF Now
  <2>2. Now.status # "0" <=> line = 16
    BY <1>6, StatusColumn DEF Now
  <2>3. /\ line \in {15, 16} => Now.pid = nonroot
        /\ line = 19 => Now.pid = AllPids
        /\ line = 23 => Now.pid = init
    BY PidColumn DEF Now
  <2>4. /\ line = 15 => listed[nonroot] = 1
        /\ line = 16 => listed[nonroot] = 0
        /\ line = 23 => listed[init] = 1
        /\ table[open].intercepted
    BY <1>1, <1>2, <1>6 DEF Books
  <2>5. Refused(Now.do, Now.sys, Now.pid) <=>
           Now.pid # AllPids /\ ~ (Now.pid \in Proc /\ listed[Now.pid] > 0)
    BY <2>1, <2>4
       DEF Refused, StopUnlisted, check_pid_monitored, INTERCEPT, RELEASE, START, STOP
  <2>6. QED
    BY <1>6, <2>2, <2>3, <2>4, <2>5, Roles
<1>7. QED
  BY <1>1, <1>3, <1>4, <1>5, <1>6

LEMMA ContextStep ==
    ASSUME TypeInv, StopAllUnlisted = TRUE, line \in 1 .. 28, LineInv, Now.do \in Cmds,
           Continue, pc[Now.who] = "context"
    PROVE  Outcome
<1> DEFINE p == Now.who
<1>1. /\ line \in CommandLines /\ p \in Proc /\ CheckContext(p) /\ req[p] = Asked(Now)
      /\ pc \in [Task -> ProcPlace \union LoaderPlace] /\ p \in Task
      /\ OnTheWay(Now, "context")
  BY CommandLine, RunAt DEF TypeInv, TypeOK, Task
<1>2. /\ req[p].cmd = Now.do /\ req[p].sys = Now.sys /\ req[p].pid = Now.pid
      /\ UNCHANGED table
  BY <1>1 DEF Asked, CheckContext, Oops
<1>3. Refused(Now.do, Now.sys, Now.pid) <=> Now.status # "0"
  BY <1>1, ContextIsExpected
<1>4. \/ pc'[p] = "oops"
      \/ Now.status # "0" /\ pc'[p] = "user"
      \/ Now.status = "0" /\ pc'[p] = CommandPlace(Now.do) /\ UNCHANGED req
  BY <1>1, <1>2, <1>3 DEF CheckContext, Return, Goto, Oops
<1>5. {pc[tester], pc'[tester]} \cap {"hijack", "restore"} = {}
  <2>1. pc'[p] \notin {"hijack", "restore"}
    BY <1>4, CmdsAssumption DEF CommandPlace, INTERCEPT, RELEASE, START, STOP
  <2>2. QED
    BY <2>1, TesterAside
<1>6. UNCHANGED line => Books'
  BY <1>2, <1>5, BooksUntouched DEF LineInv
<1>7. CASE Now.status # "0" /\ pc'[p] = "user"
  <2>1. line \in {5, 13, 16}
    <3>1. line \notin (2 .. 4) \union {12, 15, 18, 19, 20, 23, 24, 28}
      BY <1>7, StatusColumn DEF Now
    <3>2. line \notin (6 .. 11) \union {21, 27}
      BY <1>1, StatusColumn, PidColumn DEF Now, OnTheWay
    <3>3. QED
      BY <1>1, <3>1, <3>2 DEF CommandLines
  <2>2. Now.status = IF Now.do \in {RELEASE, STOP} THEN "-EINVAL" ELSE "-EBUSY"
    BY <2>1, StatusColumn, DoColumn DEF Now, INTERCEPT, RELEASE, START, STOP
  <2>3. Result(p) = Now.status
    BY <1>2, <2>2 DEF Result
  <2>4. line' = line + 1 => Books'
    BY <1>2, <1>5, <2>1, BooksSkip DEF LineInv
  <2>5. QED
    BY <1>7, <2>3, <2>4 DEF Outcome
<1>8. CASE Now.status = "0" /\ pc'[p] = CommandPlace(Now.do) /\ UNCHANGED req
  BY <1>6, <1>8 DEF Outcome, OnTheWay
<1>9. CASE pc'[p] = "oops"
  BY <1>6, <1>9 DEF Outcome
<1>10. QED
  BY <1>4, <1>7, <1>8, <1>9

\* The lines that come to each place beyond the checks.
LEMMA LinesAt ==
    ASSUME line \in CommandLines, Now.do \in Cmds
    PROVE  /\ OnTheWay(Now, "intercept") \/ OnTheWay(Now, "hijack") => line \in {2, 4}
           /\ OnTheWay(Now, "release") \/ OnTheWay(Now, "restore") => line \in {3, 28}
           /\ OnTheWay(Now, "start") => line \in {12, 18, 20, 24}
           /\ OnTheWay(Now, "stop") => line \in {15, 19, 23}
<1>1. Now.do \in {INTERCEPT, RELEASE, START, STOP}
  BY CmdsAssumption
<1>2. \A place \in {"intercept", "hijack", "release", "restore", "start", "stop"} :
         OnTheWay(Now, place) => /\ Now.status = "0"
                                 /\ place \in {"intercept", "hijack"} <=> Now.do = INTERCEPT
                                 /\ place \in {"release", "restore"} <=> Now.do = RELEASE
                                 /\ place = "start" <=> Now.do = START
                                 /\ place = "stop" <=> Now.do = STOP
  BY <1>1 DEF OnTheWay, CommandPlace, INTERCEPT, RELEASE, START, STOP
<1>3. Now.status = "0" => line \in (2 .. 4) \union {12, 15, 18, 19, 20, 23, 24, 28}
  BY StatusColumn DEF Now, CommandLines
<1>4. /\ line \in {2, 4} => Now.do = INTERCEPT
      /\ line \in {3, 28} => Now.do = RELEASE
      /\ line \in {12, 18, 20, 24} => Now.do = START
      /\ line \in {15, 19, 23} => Now.do = STOP
  BY DoColumn DEF Now
<1>5. QED
  BY <1>2, <1>3, <1>4 DEF INTERCEPT, RELEASE, START, STOP

\* INTERCEPT and RELEASE in the table: only flags change, and only of one entry.
LEMMA FlagStep ==
    ASSUME TypeInv, line \in 1 .. 28, LineInv, Now.do \in Cmds, Continue,
           pc[Now.who] \in {"intercept", "hijack", "release", "restore"}
    PROVE  /\ Now.who = tester /\ req[tester] = Asked(Now)
           /\ line \in IF pc[tester] \in {"intercept", "hijack"} THEN {2, 4} ELSE {3, 28}
           /\ Now.sys = IF line \in {2, 3} THEN exit ELSE open
           /\ pc'[tester] = CASE pc[tester] = "intercept" -> "hijack"
                              [] pc[tester] = "release" -> "restore"
                              [] OTHER -> "user"
           /\ pc[tester] \in {"intercept", "release"} => UNCHANGED req
           /\ \A s \in Syscall :
                 /\ table'[s].my_list = table[s].my_list
                 /\ table'[s].monitored # 2
                 /\ s # Now.sys \/ pc[tester] \in {"hijack", "restore"} =>
                       table'[s] = table[s]
                 /\ pc[tester] = "intercept" => table'[s].monitored = table[s].monitored
           /\ pc[tester] = "intercept" => table'[Now.sys].intercepted
           /\ pc[tester] = "release" => ~ table'[Now.sys].intercepted
<1> DEFINE p == Now.who
           FlagsOnly ==
              \A s \in Syscall :
                 /\ table'[s].my_list = table[s].my_list
                 /\ table'[s].monitored # 2
                 /\ s # Now.sys \/ pc[p] \in {"hijack", "restore"} => table'[s] = table[s]
                 /\ pc[p] = "intercept" => table'[s].monitored = table[s].monitored
<1>1. /\ line \in CommandLines /\ p \in Proc /\ Run(p) /\ req[p] = Asked(Now)
      /\ OnTheWay(Now, pc[p])
      /\ pc \in [Task -> ProcPlace \union LoaderPlace] /\ p \in Task
      /\ table \in [Syscall -> Entry]
  BY CommandLine DEF TypeInv, TypeOK, Task
<1>2. line \in IF pc[p] \in {"intercept", "hijack"} THEN {2, 4} ELSE {3, 28}
  BY <1>1, LinesAt
<1>3. p = tester /\ Now.sys = IF line \in {2, 3} THEN exit ELSE open
  BY <1>2, WhoColumn, SysColumn DEF Now
<1>4. req[p].sys = Now.sys /\ Now.sys \in Syscall
  BY <1>1, <1>3, TestAssumption DEF Asked
<1>5. /\ pc[p] = "intercept" => Intercept(p)
      /\ pc[p] = "hijack" => Hijack(p)
      /\ pc[p] = "release" => Release(p)
      /\ pc[p] = "restore" => Restore(p)
  BY <1>1, RunAt
<1>6. /\ pc'[p] = CASE pc[p] = "intercept" -> "hijack"
                    [] pc[p] = "release" -> "restore"
                    [] OTHER -> "user"
      /\ pc[p] \in {"intercept", "release"} => UNCHANGED req
  BY <1>1, <1>5 DEF Intercept, Hijack, Release, Restore, Return, Goto
<1>7. \A s \in Syscall : table[s].monitored # 2
  BY DEF LineInv, Books
<1>8. ASSUME pc[p] = "intercept"
      PROVE  FlagsOnly /\ table'[Now.sys].intercepted
  <2> DEFINE d == [table[Now.sys] EXCEPT !.intercepted = TRUE, !.f = sct[Now.sys]]
  <2>1. Intercept(p)
    BY <1>5, <1>8
  <2>2. table' = [table EXCEPT ![Now.sys] = d]
    BY <1>4, <2>1 DEF Intercept
  <2>3. table'[Now.sys] = d /\ \A s \in Syscall : s # Now.sys => table'[s] = table[s]
    BY <1>1, <1>4, <2>2
  <2>4. /\ d.my_list = table[Now.sys].my_list /\ d.monitored = table[Now.sys].monitored
        /\ d.intercepted = TRUE
    BY <1>1, <1>4 DEF Entry
  <2> HIDE DEF d
  <2>5. FlagsOnly
    BY <1>4, <1>7, <1>8, <2>3, <2>4
  <2>6. QED
    BY <1>8, <2>3, <2>4, <2>5
<1>9. ASSUME pc[p] = "release"
      PROVE  FlagsOnly /\ ~ table'[Now.sys].intercepted
  <2> DEFINE d == [table[Now.sys] EXCEPT !.intercepted = FALSE, !.monitored = 0]
  <2>1. Release(p)
    BY <1>5, <1>9
  <2>2. table' = [table EXCEPT ![Now.sys] = d]
    BY <1>4, <2>1 DEF Release
  <2>3. table'[Now.sys] = d /\ \A s \in Syscall : s # Now.sys => table'[s] = table[s]
    BY <1>1, <1>4, <2>2
  <2>4. /\ d.my_list = table[Now.sys].my_list /\ d.monitored = 0
        /\ d.intercepted = FALSE
    BY <1>1, <1>4 DEF Entry
  <2> HIDE DEF d
  <2>5. FlagsOnly
    BY <1>4, <1>7, <1>9, <2>3, <2>4
  <2>6. QED
    BY <1>9, <2>3, <2>4, <2>5
<1>10. ASSUME pc[p] \in {"hijack", "restore"}
       PROVE  FlagsOnly
  <2>1. UNCHANGED table
    BY <1>5, <1>10 DEF Hijack, Restore
  <2>2. QED
    BY <1>7, <1>10, <2>1
<1>11. /\ FlagsOnly
       /\ pc[p] = "intercept" => table'[Now.sys].intercepted
       /\ pc[p] = "release" => ~ table'[Now.sys].intercepted
  BY <1>8, <1>9, <1>10
<1>12. QED
  BY <1>1, <1>2, <1>3, <1>6, <1>11

LEMMA FlagOutcome ==
    ASSUME TypeInv, line \in 1 .. 28, LineInv, Now.do \in Cmds, Continue,
           pc[Now.who] \in {"intercept", "hijack", "release", "restore"}
    PROVE  Outcome
<1>1. /\ Now.who = tester
      /\ line \in IF pc[tester] \in {"intercept", "hijack"} THEN {2, 4} ELSE {3, 28}
      /\ Now.sys = IF line \in {2, 3} THEN exit ELSE open
      /\ pc'[tester] = CASE pc[tester] = "intercept" -> "hijack"
                         [] pc[tester] = "release" -> "restore"
                         [] OTHER -> "user"
      /\ pc[tester] \in {"intercept", "release"} => UNCHANGED req
  BY FlagStep
<1>2. exit \in Syscall /\ open \in Syscall /\ exit # open
  BY TestAssumption
<1>3. /\ \A s \in Syscall : table'[s].monitored # 2
      /\ table'[open].my_list = table[open].my_list
      /\ line \in {3, 28} \/ table'[open].monitored = table[open].monitored
      /\ line = 3 => table'[open] = table[open]
      /\ line \in {2, 3} => table'[open].intercepted = table[open].intercepted
      /\ pc[tester] \in {"hijack", "restore"} =>
            /\ table'[open].intercepted = table[open].intercepted
            /\ table'[exit].intercepted = table[exit].intercepted
  BY <1>1, <1>2, FlagStep
<1>4. ASSUME line < 28
      PROVE  Watched(table'[open])
  <2>1. Watched(table[open]) /\ \A s \in Syscall : table[s].monitored # 2
    BY <1>1, <1>4 DEF LineInv, Books
  <2>2. QED
    BY <1>1, <1>3, <1>4, <2>1 DEF Watched
<1>5. /\ pc[tester] = "intercept" /\ line = 2 => table'[exit].intercepted
      /\ pc[tester] = "intercept" /\ line = 4 => table'[open].intercepted
      /\ pc[tester] = "release" /\ line = 3 => ~ table'[exit].intercepted
      /\ pc[tester] = "release" /\ line = 28 => ~ table'[open].intercepted
  BY <1>1, FlagStep
<1>6. /\ table[open].intercepted <=> (line = 4 /\ pc[tester] = "hijack")
                                     \/ (line = 28 /\ pc[tester] # "restore")
      /\ line = 2 => (table[exit].intercepted <=> pc[tester] = "hijack")
      /\ line = 3 => (table[exit].intercepted <=> pc[tester] # "restore")
      /\ table[open].my_list[nonroot] = 0 \/ line = 28
      /\ line < 28 => table[open].my_list[init] = 0 /\ table[open].my_list[starter] = 0
  BY <1>1 DEF LineInv, Books
<1>7. CASE pc[tester] = "intercept"
  <2>1. UNCHANGED line => Books'
    BY <1>1, <1>3, <1>4, <1>5, <1>6, <1>7 DEF Books
  <2>2. Now.do = INTERCEPT /\ Now.status = "0"
    BY <1>1, <1>7, DoColumn, StatusColumn DEF Now
  <2>3. QED
    BY <1>1, <1>7, <2>1, <2>2 DEF Outcome, OnTheWay
<1>8. CASE pc[tester] = "release"
  <2>1. UNCHANGED line => Books'
    BY <1>1, <1>3, <1>4, <1>5, <1>6, <1>8 DEF Books
  <2>2. Now.do = RELEASE /\ Now.status = "0"
    BY <1>1, <1>8, DoColumn, StatusColumn DEF Now
  <2>3. QED
    BY <1>1, <1>8, <2>1, <2>2 DEF Outcome, OnTheWay
<1>9. CASE pc[tester] \in {"hijack", "restore"}
  <2>1. line' = line + 1 /\ line' <= 28 => Books'
    BY <1>1, <1>3, <1>4, <1>6, <1>9 DEF Books
  <2>2. Now.status = "0"
    BY <1>1, StatusColumn DEF Now
  <2>3. Result(tester) = "0"
    BY <1>9 DEF Result
  <2>4. QED
    BY <1>1, <1>9, <2>1, <2>2, <2>3 DEF Outcome
<1>10. QED
  BY <1>1, <1>7, <1>8, <1>9, FlagStep

\* A line that is over: what has to hold of the list for the next one.
LEMMA BooksOn ==
    ASSUME Books, line \in 5 .. 27, line' = line + 1,
           {pc[tester], pc'[tester]} \cap {"hijack", "restore"} = {},
           \A s \in Syscall : table'[s].monitored # 2,
           table'[open].intercepted = table[open].intercepted,
           Watched(table[open]) => Watched(table'[open]),
           LET listed == table'[open].my_list
           IN  /\ line \notin 12 .. 14 => listed[nonroot] = 0 \/ line >= 16
               /\ line \in 12 .. 14 => listed[nonroot] = 1
               /\ line <= 19 => listed[init] = 0
               /\ line \in 20 .. 22 => listed[init] = 1
               /\ line <= 23 => listed[starter] = 0
    PROVE  Books'
<1>1. /\ pc[tester] # "hijack" /\ pc[tester] # "restore"
      /\ pc'[tester] # "hijack" /\ pc'[tester] # "restore"
  OBVIOUS
<1>2. table[open].intercepted /\ Watched(table[open])
  BY <1>1 DEF Books
<1>3. /\ line' \in 6 .. 28 /\ ~ (line' <= 2) /\ line' # 3 /\ ~ (line' <= 4) /\ line' >= 5
      /\ line' \in 13 .. 15 <=> line \in 12 .. 14
      /\ line' > 16 <=> line >= 16
      /\ line' <= 20 <=> line <= 19
      /\ line' \in 21 .. 23 <=> line \in 20 .. 22
      /\ line' <= 24 <=> line <= 23
  OBVIOUS
<1>4. /\ table'[open].my_list[nonroot] = 0 \/ line' \in 13 .. 15 \/ line' > 16
      /\ line' \in 13 .. 15 => table'[open].my_list[nonroot] = 1
      /\ line' <= 20 => table'[open].my_list[init] = 0
      /\ line' \in 21 .. 23 => table'[open].my_list[init] = 1
      /\ line' <= 24 => table'[open].my_list[starter] = 0
  BY <1>3
<1>5. table'[open].intercepted /\ Watched(table'[open])
  BY <1>2
<1>6. QED
  BY <1>1, <1>3, <1>4, <1>5 DEF Books

\* START and STOP for all pids empty the list; monitoring does not start.
LEMMA AllPidsEmpty ==
    ASSUME NEW e \in Entry, NEW d \in {StartedAll(e), destroy_list(e)}
    PROVE  /\ d.intercepted = e.intercepted /\ d.monitored # 2 /\ Watched(d)
           /\ \A q \in Proc : d.my_list[q] = 0
<1>1. /\ d.intercepted = e.intercepted /\ d.monitored = 0
      /\ d.my_list = EmptyList
  BY DEF StartedAll, destroy_list, Entry
<1>2. QED
  BY <1>1, EmptiedWatched DEF EmptyList

LEMMA ListOutcome ==
    ASSUME TypeInv, Lists, line \in 1 .. 28, LineInv, Now.do \in Cmds, Continue,
           pc[Now.who] \in {"start", "stop"}
    PROVE  Outcome
<1> DEFINE p == Now.who
           q == Now.pid
           l == table[open].my_list
<1>1. /\ line \in CommandLines /\ p \in Proc /\ Run(p) /\ req[p] = Asked(Now)
      /\ OnTheWay(Now, pc[p]) /\ open \in Syscall
      /\ pc \in [Task -> ProcPlace \union LoaderPlace] /\ p \in Task
      /\ table \in [Syscall -> Entry]
      /\ \A s \in Syscall : table[s] \in Entry
      /\ \A s \in Syscall : table[s].monitored # 2
  BY CommandLine, TestAssumption DEF TypeInv, TypeOK, Task, LineInv, Books
<1>2. /\ line \in IF pc[p] = "start" THEN {12, 18, 20, 24} ELSE {15, 19, 23}
      /\ line \in 5 .. 27
  BY <1>1, LinesAt
<1>3. /\ Now.sys = open /\ Now.status = "0"
      /\ line \in {12, 15} => p = nonroot /\ q = nonroot
      /\ line \in {18, 19} => p = tester /\ q = AllPids
      /\ line \in {20, 23} => p = tester /\ q = init
      /\ line = 24 => p = starter /\ q = starter
      /\ Now.do = IF pc[p] = "start" THEN START ELSE STOP
  BY <1>2, WhoColumn, SysColumn, PidColumn, StatusColumn, DoColumn DEF Now
<1>4. req[p].sys = open /\ req[p].pid = q
  BY <1>1, <1>3 DEF Asked
<1>5. pc'[p] = "user"
  BY <1>1, RunAt DEF Start, Stop, Return, Goto
<1>6. {pc[tester], pc'[tester]} \cap {"hijack", "restore"} = {}
  BY <1>5, TesterAside
<1>7. l \in [Proc -> Int] /\ \A x \in Proc : l[x] \in Int
  BY <1>1 DEF Entry
<1>8. CASE line \in {18, 19}
  <2>1. PICK d \in {StartedAll(table[open]), destroy_list(table[open])} :
           table' = [table EXCEPT ![open] = d]
    <3>1. pc[p] = "start" => Start(p)
      BY <1>1, RunAt
    <3>2. pc[p] = "stop" => Stop(p)
      BY <1>1, RunAt
    <3>3. CASE pc[p] = "start"
      BY <1>3, <1>4, <1>8, <3>1, <3>3 DEF Start
    <3>4. CASE pc[p] = "stop"
      BY <1>1, <1>3, <1>4, <1>8, <3>2, <3>4 DEF Stop
    <3>5. QED
      BY <3>3, <3>4
  <2>2. table'[open] = d /\ \A s \in Syscall : s # open => table'[s] = table[s]
    BY <1>1, <2>1
  <2>3. /\ d.intercepted = table[open].intercepted /\ d.monitored # 2 /\ Watched(d)
        /\ \A x \in Proc : d.my_list[x] = 0
    BY <1>1, AllPidsEmpty
  <2>4. line' = line + 1 => Books'
    <3>1. d.my_list[nonroot] = 0 /\ d.my_list[init] = 0 /\ d.my_list[starter] = 0
      BY <2>3, Roles
    <3>2. \A s \in Syscall : table'[s].monitored # 2
      BY <1>1, <2>2, <2>3
    <3>3. QED
      BY <1>2, <1>6, <1>8, <2>2, <2>3, <3>1, <3>2, BooksOn DEF LineInv
  <2>5. Result(p) = "0"
    BY <1>3, <1>4, <1>8 DEF Result
  <2>6. QED
    BY <1>3, <1>5, <2>4, <2>5 DEF Outcome
<1>9. CASE line \notin {18, 19}
  <2>1. q \in Proc /\ q # AllPids /\ line \in {12, 15, 20, 23, 24}
    BY <1>2, <1>3, <1>9, Roles
  <2>2. /\ \A s \in Syscall : Gently(table[s], table'[s], q)
        /\ pc[p] = "start" => table'[open].my_list[q] \in {l[q], l[q] + 1}
        /\ pc[p] = "stop" /\ l[q] > 0 => table'[open].my_list[q] = l[q] - 1
    BY <1>1, <1>4, <2>1, RunGently
  <2>3. /\ \A s \in Syscall : table'[s].monitored # 2
        /\ table'[open].intercepted = table[open].intercepted
        /\ Watched(table[open]) => Watched(table'[open])
        /\ \A x \in Proc : x # q => table'[open].my_list[x] = l[x]
    BY <1>1, <2>2 DEF Gently
  <2>4. /\ line = 12 => l[nonroot] = 0
        /\ line = 15 => l[nonroot] = 1
        /\ line <= 20 => l[init] = 0
        /\ line = 23 => l[init] = 1
        /\ line <= 24 => l[starter] = 0
    BY DEF LineInv, Books
  <2>5. CASE pc[p] = "start" /\ table'[open].my_list[q] = l[q]
    <3>1. Result(p) = "-ENOMEM"
      <4>1. ~ (table'[open].my_list[q] > l[q])
        BY <1>7, <2>1, <2>5
      <4>2. QED
        BY <1>1, <1>4, <2>1, <2>5, <4>1 DEF Result
    <3>2. QED
      BY <1>3, <1>5, <2>5, <3>1 DEF Outcome
  <2>6. CASE pc[p] = "start" /\ table'[open].my_list[q] = l[q] + 1
    <3>1. Result(p) = "0"
      <4>1. table'[open].my_list[q] > l[q]
        BY <1>7, <2>1, <2>6
      <4>2. QED
        BY <1>1, <1>4, <2>1, <2>6, <4>1 DEF Result
    <3>2. line \in {12, 20, 24}
      BY <1>2, <1>9, <2>6
    <3>3. LET m == table'[open].my_list
          IN  /\ line = 12 => m[nonroot] = 1
              /\ line = 20 => m[init] = 1
              /\ line <= 19 => m[init] = 0
              /\ line <= 23 => m[starter] = 0
      BY <1>3, <2>3, <2>4, <2>6, <3>2, Roles DEF Guests
    <3>4. line' = line + 1 => Books'
      BY <1>2, <1>6, <2>3, <3>2, <3>3, BooksOn DEF LineInv
    <3>5. QED
      BY <1>3, <1>5, <3>1, <3>4 DEF Outcome
  <2>7. CASE pc[p] = "stop"
    <3>1. line \in {15, 23} /\ q \in {nonroot, init} /\ l[q] = 1
      BY <1>2, <1>3, <1>9, <2>4, <2>7
    <3>2. Result(p) = "0"
      <4>1. check_pid_monitored(req[p].sys, req[p].pid)
        BY <1>4, <2>1, <3>1 DEF check_pid_monitored
      <4>2. QED
        BY <1>4, <2>1, <2>7, <4>1 DEF Result
    <3>3. table'[open].my_list[q] = 0
      BY <2>2, <2>7, <3>1
    <3>4. LET m == table'[open].my_list
          IN  /\ line = 15 => m[nonroot] = 0
              /\ line <= 19 => m[init] = 0
              /\ line <= 23 => m[starter] = 0
      BY <1>3, <2>3, <2>4, <3>1, <3>3, Roles DEF Guests
    <3>5. line' = line + 1 => Books'
      BY <1>2, <1>6, <2>3, <3>1, <3>4, BooksOn DEF LineInv
    <3>6. QED
      BY <1>3, <1>5, <3>2, <3>5 DEF Outcome
  <2>8. QED
    BY <2>2, <2>5, <2>6, <2>7
<1>10. QED
  BY <1>8, <1>9

-----------------------------------------------------------------------------
\* The other lines: the intercepted call of the guest, the exits and insmod.
LEMMA MonitorStep ==
    ASSUME TypeInv, line = 14, LineInv, passed, Continue
    PROVE  TestInv'
<1> DEFINE p == Now.who
<1>1. /\ p = nonroot /\ p \in Proc /\ p \in Task /\ Now.do = "monitor" /\ Now.sys = open
      /\ Now.do \notin Cmds \union {"insmod", "return"} /\ line \in 1 .. 28
      /\ p # Loader /\ tester # p
      /\ pc \in [Task -> ProcPlace \union LoaderPlace]
  BY Runner, WhoColumn, SysColumn, Roles, TestAssumption
     DEF Now, Guests, Task, TypeInv, TypeOK, INTERCEPT, RELEASE, START, STOP
<1>2. Run(p) /\ pc[p] \in {"log", "call"} /\ req[p].sys = open
  <2>1. Run(p)
    BY <1>1 DEF Continue
  <2>2. pc[p] \notin {"user", "oops"}
    BY <1>1, <2>1, RunFollows
  <2>3. QED
    BY <1>1, <2>1, <2>2 DEF LineInv, OnLine
<1>3. /\ UNCHANGED table /\ pc'[p] \in {"user", "log", "call", "oops"}
      /\ pc'[p] \in {"log", "call"} => UNCHANGED req
  <2>1. (pc[p] = "log" => Log(p)) /\ (pc[p] = "call" => CallOriginal(p))
    BY <1>2, RunAt
  <2>2. UNCHANGED table
    BY <1>2, <2>1 DEF Log, CallOriginal
  <2>3. pc'[p] \in Follows(p) /\ (pc'[p] \notin {"user", "dead", "gone", "oops"} => UNCHANGED req)
    BY <1>1, <1>2, RunFollows
  <2>4. pc'[p] \in {"user", "log", "call", "oops"}
    BY <1>2, <2>3 DEF Follows
  <2>5. QED
    BY <2>2, <2>3, <2>4
<1>4. LinePasses
  <2>1. /\ table[open].my_list[nonroot] = 1 /\ Watched(table[open])
        /\ table[open].monitored # 2 /\ table[open] \in Entry
    BY TestAssumption DEF LineInv, Books, TypeInv, TypeOK
  <2>2. table[open].monitored = 1
    BY <1>1, <2>1 DEF Watched, Entry
  <2>3. Logged(p)
    BY <1>1, <1>2, <2>1, <2>2 DEF Logged
  <2>4. QED
    BY <1>1, <2>3 DEF LinePasses
<1>5. /\ \A t \in Task \ {p} : pc'[t] = pc[t]
      /\ \A x \in Proc \ {p} : req'[x] = req[x]
      /\ pc'[Loader] = "loaded" /\ pc[tester] = "user" /\ pc'[tester] = "user"
  <2>1. Loader \in Task \ {p} /\ pc[Loader] = "loaded"
    BY <1>1 DEF LineInv, OnLine, Task
  <2>2. QED
    BY <1>1, <2>1, RunnerMoves, TesterAside
<1>6. passed' /\ line' = IF Ended(p) THEN line + 1 ELSE line
  <2>1. passed' = (passed /\ LinePasses) /\ line' = IF Ended(p) THEN line + 1 ELSE line
    BY DEF Continue
  <2>2. QED
    BY <1>4, <2>1
<1>7. CASE pc'[p] = "user"
  <2>1. line' = line + 1
    BY <1>6, <1>7 DEF Ended
  <2>2. OnLine' /\ Patient'
    BY <1>5, <1>7, <2>1, NextLine DEF LineInv
  <2>3. Machine'
    BY <1>1, <1>5, OthersStay DEF LineInv, Testers, Guests
  <2>4. Books'
    BY <1>3, <1>5, <2>1, BooksSkip DEF LineInv
  <2>5. QED
    BY <1>6, <2>1, <2>2, <2>3, <2>4 DEF LineInv, TestInv
<1>8. CASE pc'[p] # "user"
  <2>1. UNCHANGED line /\ Now' = Now
    BY <1>3, <1>6, <1>8 DEF Ended, Now
  <2>2. OnLine'
    BY <1>1, <1>2, <1>3, <1>5, <1>8, <2>1 DEF OnLine
  <2>3. Books'
    BY <1>3, <1>5, <2>1, BooksUntouched DEF LineInv
  <2>4. LineInv'
    BY <1>1, <1>5, <2>1, <2>2, <2>3, LineGoesOn
  <2>5. QED
    BY <1>6, <2>1, <2>4 DEF TestInv
<1>9. QED
  BY <1>7, <1>8

LEMMA ReturnStep ==
    ASSUME TypeInv, Lists, line \in {17, 22, 25, 26}, LineInv, passed, Continue
    PROVE  TestInv'
<1> DEFINE p == Now.who
<1>1. /\ line = 17 => p = nonroot
      /\ line = 22 => p = stopper
      /\ line = 25 => p = starter
      /\ line = 26 => p = last_child
      /\ Now.do = "return" /\ line \in 1 .. 28
  BY Runner, WhoColumn DEF Now
<1>2. /\ p \in Proc /\ p \in Task /\ p \in Testers /\ p # Loader /\ p # tester
      /\ Now.do \notin Cmds \union {"insmod", "monitor"}
      /\ pc \in [Task -> ProcPlace \union LoaderPlace]
  BY <1>1, Roles, TestAssumption
     DEF Testers, Guests, Task, TypeInv, TypeOK, INTERCEPT, RELEASE, START, STOP
<1>3. Run(p) /\ pc[p] \in {"exit", "gone"}
  <2>1. Run(p)
    BY <1>2 DEF Continue
  <2>2. pc[p] \notin {"user", "oops"}
    BY <1>2, <2>1, RunFollows
  <2>3. QED
    BY <1>1, <2>1, <2>2 DEF LineInv, OnLine
<1>4. /\ \A t \in Task \ {p} : pc'[t] = pc[t]
      /\ \A x \in Proc \ {p} : req'[x] = req[x]
      /\ pc'[Loader] = "loaded" /\ pc[tester] = "user" /\ pc'[tester] = "user"
  <2>1. Loader \in Task \ {p} /\ pc[Loader] = "loaded"
    BY <1>2 DEF LineInv, OnLine, Task
  <2>2. QED
    BY <1>1, <1>2, <2>1, RunnerMoves, TesterAside
<1>5. passed' /\ line' = IF Ended(p) THEN line + 1 ELSE line
  <2>1. LinePasses
    BY <1>1, <1>2 DEF LinePasses
  <2>2. passed' = (passed /\ LinePasses) /\ line' = IF Ended(p) THEN line + 1 ELSE line
    BY DEF Continue
  <2>3. QED
    BY <2>1, <2>2
<1>6. open \in Syscall /\ Books
  BY TestAssumption DEF LineInv
<1>7. CASE pc[p] = "exit"
  <2>1. pc'[p] \in {"gone", "oops"}
    BY <1>2, <1>3, <1>7, RunFollows DEF Follows
  <2>2. UNCHANGED line /\ Now' = Now
    BY <1>5, <2>1 DEF Ended, Now
  <2>3. OnLine'
    BY <1>1, <1>2, <1>4, <2>1, <2>2 DEF OnLine
  <2>4. \A s \in Syscall : Gently(table[s], table'[s], p)
    BY <1>2, <1>3, <1>6, <1>7, RunGently DEF Books
  <2>5. /\ table'[open].intercepted = table[open].intercepted
        /\ Watched(table[open]) => Watched(table'[open])
        /\ \A s \in Syscall : table'[s].monitored # 2
        /\ \A x \in Proc : x # p => table'[open].my_list[x] = table[open].my_list[x]
    BY <1>6, <2>4 DEF Gently
  <2>6. /\ line = 17 => table'[open].my_list[init] = table[open].my_list[init]
        /\ line = 22 => table'[open].my_list[init] = table[open].my_list[init]
        /\ line \in {17, 22} =>
              table'[open].my_list[starter] = table[open].my_list[starter]
    BY <1>1, <2>5, Roles DEF Guests
  <2>7. Books'
    BY <1>1, <1>4, <1>6, <2>2, <2>5, <2>6 DEF Books
  <2>8. LineInv'
    BY <1>1, <1>4, <2>2, <2>3, <2>7, LineGoesOn
  <2>9. QED
    BY <1>1, <1>5, <2>2, <2>8 DEF TestInv
<1>8. CASE pc[p] = "gone"
  <2>1. Disappear(p)
    BY <1>3, <1>8, RunAt
  <2>2. pc'[p] = "dead" /\ UNCHANGED table
    BY <1>2, <2>1 DEF Disappear, Goto
  <2>3. line' = line + 1
    BY <1>5, <2>2 DEF Ended
  <2>4. OnLine' /\ Patient'
    BY <1>1, <1>4, <2>2, <2>3, NextLine DEF LineInv
  <2>5. Machine'
    BY <1>2, <1>4, OthersStay DEF LineInv
  <2>6. Books'
    <3>1. LET m == table'[open].my_list
          IN  /\ line <= 19 => m[init] = 0
              /\ line \in 20 .. 22 => m[init] = 1
              /\ line <= 23 => m[starter] = 0
      BY <1>6, <2>2 DEF Books
    <3>2. \A s \in Syscall : table'[s].monitored # 2
      BY <1>6, <2>2 DEF Books
    <3>3. QED
      BY <1>1, <1>4, <1>6, <2>2, <2>3, <3>1, <3>2, BooksOn
  <2>7. QED
    BY <1>1, <1>5, <2>3, <2>4, <2>5, <2>6 DEF LineInv, TestInv
<1>9. QED
  BY <1>3, <1>7, <1>8

LEMMA InsmodStep ==
    ASSUME TypeInv, line = 1, LineInv, passed, Continue
    PROVE  TestInv'
<1>1. /\ Now.who = Loader /\ Now.do = "insmod" /\ line \in 1 .. 28
      /\ Now.do \notin Cmds \union {"return", "monitor"}
      /\ pc \in [Task -> ProcPlace \union LoaderPlace] /\ Loader \in Task
      /\ tester \in Task /\ tester # Loader
  BY Runner, Roles, TestAssumption
     DEF Task, TypeInv, TypeOK, INTERCEPT, RELEASE, START, STOP
<1>2. LoaderStep /\ pc[Loader] \in {"unloaded", "init_hijack", "init_table"}
  BY <1>1 DEF Continue, LineInv, OnLine
<1>3. /\ \A t \in Task \ {Loader} : pc'[t] = pc[t]
      /\ \A x \in Proc \ {Loader} : req'[x] = req[x]
      /\ pc'[tester] = pc[tester] /\ pc[tester] = "user"
  <2>1. tester \in Task \ {Loader} /\ pc[tester] = "user"
    BY <1>1 DEF LineInv, Patient, HasGone, Testers
  <2>2. QED
    BY <1>1, <2>1, RunnerMoves, Roles DEF Guests
<1>4. passed' /\ line' = IF Ended(Loader) THEN line + 1 ELSE line
  <2>1. LinePasses
    BY <1>1 DEF LinePasses
  <2>2. /\ passed' = (passed /\ LinePasses)
        /\ line' = IF Ended(Loader) THEN line + 1 ELSE line
    BY <1>1 DEF Continue
  <2>3. QED
    BY <2>1, <2>2
<1>5. CASE InitHijack
  <2>1. pc'[Loader] = "init_table" /\ UNCHANGED table
    BY <1>1, <1>5 DEF InitHijack, Goto
  <2>2. UNCHANGED line /\ Now' = Now
    BY <1>4, <2>1 DEF Ended, Now
  <2>3. OnLine'
    BY <1>1, <2>1, <2>2 DEF OnLine
  <2>4. Books'
    BY <1>3, <2>1, <2>2, BooksUntouched DEF LineInv
  <2>5. LineInv'
    BY <1>1, <1>3, <2>2, <2>3, <2>4, LineGoesOn
  <2>6. QED
    BY <1>1, <1>4, <2>2, <2>5 DEF TestInv
<1>6. CASE InitTable
  <2>1. pc'[Loader] = "loaded"
    BY <1>1, <1>6 DEF InitTable, Goto
  <2>2. line' = line + 1
    BY <1>4, <2>1 DEF Ended
  <2>3. OnLine' /\ Patient'
    BY <1>1, <1>3, <2>1, <2>2, NextLine DEF LineInv
  <2>4. Machine'
    BY <1>1, <1>3, OthersStay DEF LineInv
  <2>5. Books'
    <3>1. exit \in Syscall /\ open \in Syscall
      BY TestAssumption
    <3>2. \A s \in Syscall : table'[s] \in {table[s], InitialEntry(table[s])}
      BY <1>6 DEF InitTable
    <3>3. /\ \A s \in Syscall : table[s] \in Entry /\ table[s].monitored # 2
          /\ ~ table[exit].intercepted /\ ~ table[open].intercepted
          /\ table[open].my_list[nonroot] = 0 /\ table[open].my_list[init] = 0
          /\ table[open].my_list[starter] = 0 /\ Watched(table[open])
      BY <1>3 DEF LineInv, Books, TypeInv, TypeOK
    <3>4. \A s \in Syscall :
             /\ InitialEntry(table[s]).monitored = 0
             /\ InitialEntry(table[s]).intercepted = FALSE
             /\ InitialEntry(table[s]).my_list = EmptyList
      BY <3>3 DEF InitialEntry, Entry
    <3>5. EmptyList[nonroot] = 0 /\ EmptyList[init] = 0 /\ EmptyList[starter] = 0
      BY Roles DEF EmptyList
    <3>6. /\ \A s \in Syscall : table'[s].monitored # 2
          /\ ~ table'[exit].intercepted /\ ~ table'[open].intercepted
          /\ table'[open].my_list[nonroot] = 0 /\ table'[open].my_list[init] = 0
          /\ table'[open].my_list[starter] = 0
      BY <3>1, <3>2, <3>3, <3>4, <3>5
    <3>7. Watched(table'[open])
      BY <3>1, <3>2, <3>3, EmptiedWatched
    <3>8. QED
      BY <1>3, <2>2, <3>6, <3>7 DEF Books
  <2>6. QED
    BY <1>1, <1>4, <2>2, <2>3, <2>4, <2>5 DEF LineInv, TestInv
<1>7. CASE ExitRestore \/ ExitClear
  BY <1>2, <1>7 DEF ExitRestore, ExitClear, At, Holding
<1>8. QED
  BY <1>2, <1>5, <1>6, <1>7 DEF LoaderStep

-----------------------------------------------------------------------------
LEMMA ContinueStep ==
    ASSUME StopAllUnlisted = TRUE, IInv, Lists, TestInv, Continue
    PROVE  TestInv'
<1>1. TypeInv /\ line \in 1 .. 29
  BY ScriptLines DEF IInv, TestInv, Continue, Running
<1>2. /\ line' = IF Ended(Now.who) THEN line + 1 ELSE line
      /\ passed' = (passed /\ LinePasses)
      /\ nomem' = (nomem \/ (Ended(Now.who) /\ Now.do = START
                                /\ Result(Now.who) = "-ENOMEM"))
  BY DEF Continue
<1>3. line' \in 1 .. 30
  BY <1>1, <1>2
<1>4. CASE nomem
  BY <1>2, <1>3, <1>4 DEF TestInv
<1>5. CASE ~ nomem /\ line = 29
  <2>1. Now.do = "rmmod" /\ line' >= 29 /\ passed
    BY <1>2, <1>5, DoColumn DEF Now, TestInv
  <2>2. LinePasses
    BY <2>1, TestAssumption DEF LinePasses, INTERCEPT, RELEASE, START, STOP
  <2>3. passed'
    BY <1>2, <2>1, <2>2
  <2>4. QED
    BY <1>3, <2>1, <2>3 DEF TestInv
<1>6. CASE ~ nomem /\ line # 29
  <2>1. line \in 1 .. 28 /\ passed /\ LineInv
    BY <1>1, <1>6 DEF TestInv
  <2>2. CASE Now.do \in Cmds
    <3>1. pc[Now.who] \in {"args", "owner", "context", "intercept", "hijack", "release",
                           "restore", "start", "stop"}
      <4>1. OnTheWay(Now, pc[Now.who])
        BY <1>1, <2>1, <2>2, CommandLine
      <4>2. QED
        BY <2>2, <4>1, CmdsAssumption
           DEF OnTheWay, CommandPlace, INTERCEPT, RELEASE, START, STOP
    <3>2. Outcome
      BY <1>1, <2>1, <2>2, <3>1, ArgsStep, OwnerStep, ContextStep, FlagOutcome, ListOutcome
    <3>3. QED
      BY <1>1, <1>6, <2>1, <2>2, <3>2, OutcomeTestInv
  <2>3. CASE line = 14
    BY <1>1, <2>1, <2>3, MonitorStep
  <2>4. CASE line \in {17, 22, 25, 26}
    BY <1>1, <2>1, <2>4, ReturnStep
  <2>5. CASE line = 1
    BY <1>1, <2>1, <2>5, InsmodStep
  <2>6. QED
    BY <2>1, <2>2, <2>3, <2>4, <2>5, Runner
<1>7. QED
  BY <1>4, <1>5, <1>6

LEMMA TestNextInv ==
    ASSUME StopAllUnlisted = TRUE, IInv, Lists, TestInv, [TestNext]_testVars
    PROVE  TestInv'
<1>1. CASE Continue
  BY <1>1, ContinueStep
<1>2. CASE Begin
  <2>1. UNCHANGED <<line, passed, nomem>>
    BY <1>2 DEF Begin
  <2>2. CASE line <= 28 /\ ~ nomem
    <3>1. line \in 1 .. 28 /\ LineInv /\ TypeInv
      BY <2>2 DEF TestInv, IInv
    <3>2. LineInv'
      BY <1>2, <3>1, BeginStep DEF LineInv
    <3>3. QED
      BY <2>1, <3>2 DEF TestInv
  <2>3. QED
    BY <2>1, <2>2 DEF TestInv
<1>3. CASE Meanwhile
  <2>1. UNCHANGED <<line, passed, nomem>>
    BY <1>3 DEF Meanwhile
  <2>2. CASE line <= 28 /\ ~ nomem
    <3>1. line \in 1 .. 28 /\ LineInv
      BY <2>2 DEF TestInv
    <3>2. LineInv'
      BY <1>3, <3>1, MeanwhileStep DEF LineInv
    <3>3. QED
      BY <2>1, <3>2 DEF TestInv
  <2>3. QED
    BY <2>1, <2>2 DEF TestInv
<1>4. CASE Lock \/ UNCHANGED testVars
  <2>1. UNCHANGED <<table, pc, req, line, passed, nomem>>
    BY <1>4 DEF Lock, LockPidlist, LockCalltable, testVars, vars
  <2>2. LineInv => LineInv'
    BY <2>1 DEF LineInv, OnLine, Patient, Machine, Books, HasGone, Now, OnTheWay, Watched
  <2>3. QED
    BY <2>1, <2>2 DEF TestInv
<1>5. QED
  BY <1>1, <1>2, <1>3, <1>4 DEF TestNext

LEMMA TestInitInv == TestInit => TestInv
<1> SUFFICES ASSUME TestInit
             PROVE  TestInv
  OBVIOUS
<1>1. /\ line = 1 /\ passed = TRUE /\ nomem = FALSE
      /\ pc[Loader] = "unloaded" /\ \A p \in Proc : pc[p] = "user"
      /\ \A s \in Syscall : table[s] = ZeroEntry
  BY TestAssumption, Roles DEF TestInit, Init, Task
<1>2. Now.do = "insmod" /\ Now.do \notin Cmds \union {"monitor", "return"}
  BY <1>1, DoColumn, TestAssumption DEF Now, INTERCEPT, RELEASE, START, STOP
<1>3. OnLine
  BY <1>1, <1>2 DEF OnLine
<1>4. Patient
  BY <1>1, Roles DEF Patient, HasGone, Testers, Guests
<1>5. Machine
  BY <1>1, Roles DEF Machine
<1>6. Books
  <2>1. /\ table[exit] = ZeroEntry /\ table[open] = ZeroEntry
        /\ pc[tester] = "user"
    BY <1>1, TestAssumption, Roles
  <2>2. /\ ZeroEntry.monitored = 0 /\ ZeroEntry.intercepted = FALSE
        /\ \A q \in Proc : ZeroEntry.my_list[q] = 0
    BY DEF ZeroEntry, EmptyList
  <2>3. Watched(ZeroEntry)
    BY <2>2 DEF Watched
  <2>4. QED
    BY <1>1, <2>1, <2>2, <2>3, Roles DEF Books
<1>7. QED
  BY <1>1, <1>3, <1>4, <1>5, <1>6 DEF TestInv, LineInv

\* The tests are users of the module, and their script has an end.
LEMMA TestsUseTheModule == TestSpec => Spec /\ [](line \in 1 .. 30)
<1>1. TestInit => Init /\ line \in 1 .. 30
  BY DEF TestInit
<1>2. line \in 1 .. 30 /\ [TestNext]_testVars => (line \in 1 .. 30)'
  <2> SUFFICES ASSUME line \in 1 .. 30, [TestNext]_testVars
               PROVE  line' \in 1 .. 30
    OBVIOUS
  <2>1. CASE Continue
    BY <2>1, ScriptLines DEF Continue, Running
  <2>2. CASE ~ Continue
    BY <2>2 DEF TestNext, Begin, Lock, Meanwhile, testVars
  <2>3. QED
    BY <2>1, <2>2
<1>3. line \in 1 .. 30 /\ [TestNext]_testVars => [Next]_vars
  BY TestStepIsStep
<1>4. QED
  BY <1>1, <1>2, <1>3, PTL DEF TestSpec, Spec

\* No line of test_full.c prints "failed" (test_full.c:44), however many processes of
\* other users issue commands, make calls and exit at the same time, unless a kmalloc
\* of the script's own START fails: the owner check keeps them away from the pids of
\* the tests, so that they cannot change what the next line looks for.
THEOREM TestsAlwaysPass ==
    ASSUME StopAllUnlisted = TRUE
    PROVE  TestSpec => []TestsPass
<1>1. IInv /\ Lists /\ TestInv /\ [TestNext]_testVars => TestInv'
  BY TestNextInv
<1>2. TestInv => TestsPass
  BY DEF TestInv, TestsPass
<1>3. QED
  BY <1>1, <1>2, TestInitInv, TestsUseTheModule, ListsInvariance, PTL DEF TestSpec

-----------------------------------------------------------------------------
\* START in the tests is for all pids, for init or for the process itself, and the
\* owner check leaves a bystander that is alone with its uid no pid but its own.
InitLives == pc[init] \in {"user", "log", "call", "oops"}

AsksStart(p) ==
    \/ pc[p] = "start"
    \/ (pc[p] = "context" /\ req[p].cmd = START)
    \/ (pc[p] \in {"args", "owner"} /\ req[p].cmd = START /\ p \notin Bystanders)

StartPids == \A p \in Proc : AsksStart(p) => req[p].pid \in {AllPids, init, p}

StartInv == InitLives /\ StartPids

LEMMA WhoMovesInTests ==
    ASSUME TypeInv, line \in 1 .. 30, [TestNext]_testVars, NEW p \in Proc
    PROVE  \/ pc'[p] = pc[p] /\ req'[p] = req[p]
           \/ /\ p = Now.who /\ p \in Testers /\ line \in 1 .. 28
              /\ Begin \/ Run(p)
           \/ /\ p \in {init} \union Bystanders
              /\ \/ CallSyscall(p) \/ Run(p) \/ Unmapped(p)
                 \/ p \in Bystanders /\ (Request(p) \/ Exit(p))
<1>1. p \in Task /\ p # Loader
  BY Roles DEF Task
<1>2. CASE (Begin \/ Continue) /\ line \in 1 .. 28 /\ Now.who # Loader
  <2> DEFINE w == Now.who
  <2>1. w \in Testers /\ w \in Proc
    BY <1>2, Runner, Roles DEF Testers, Guests
  <2>2. Begin => Request(w) \/ CallSyscall(w) \/ Exit(w)
    <3>1. Now.do \in Cmds \union {"monitor", "return"}
      BY <1>2, Runner
    <3>2. QED
      BY <3>1, TestAssumption DEF Begin, INTERCEPT, RELEASE, START, STOP
  <2>3. Continue => Run(w)
    BY <1>2 DEF Continue
  <2>4. p # w => pc'[p] = pc[p] /\ req'[p] = req[p]
    BY <1>1, <1>2, <2>1, <2>2, <2>3, OwnMoves
  <2>5. QED
    BY <1>2, <2>1, <2>3, <2>4
<1>3. CASE (Begin \/ Continue) /\ ~ (line \in 1 .. 28 /\ Now.who # Loader)
  <2>1. Now.who = Loader /\ Now.do \in {"insmod", "rmmod"}
    <3>1. line \in 1 .. 29
      <4>1. line <= Len(Script)
        BY <1>3 DEF Begin, Continue, Running
      <4>2. Len(Script) = 29
        BY ScriptLines
      <4>3. QED
        BY <4>1, <4>2
    <3>2. line \in {1, 29}
      BY <1>3, <3>1, Runner
    <3>3. QED
      BY <3>2, WhoColumn, DoColumn DEF Now
  <2>2. Load \/ Unload \/ LoaderStep
    BY <1>3, <2>1, TestAssumption DEF Begin, Continue, INTERCEPT, RELEASE, START, STOP
  <2>3. UNCHANGED req /\ \E place : Goto(Loader, place)
    BY <2>2 DEF Load, Unload, LoaderStep, InitHijack, InitTable, ExitRestore, ExitClear
  <2>4. QED
    BY <1>1, <2>3 DEF Goto, TypeInv, TypeOK
<1>4. CASE Meanwhile
  <2>1. PICK q \in {init} \union Bystanders :
           \/ CallSyscall(q) \/ Run(q) \/ Unmapped(q)
           \/ q \in Bystanders /\ (Request(q) \/ Exit(q))
    BY <1>4 DEF Meanwhile
  <2>2. q \in Proc
    BY Roles
  <2>3. p # q => pc'[p] = pc[p] /\ req'[p] = req[p]
    BY <1>1, <2>1, <2>2, OwnMoves
  <2>4. QED
    BY <2>1, <2>3
<1>5. CASE Lock \/ UNCHANGED testVars
  BY <1>5 DEF Lock, LockPidlist, LockCalltable, testVars, vars
<1>6. QED
  BY <1>2, <1>3, <1>4, <1>5 DEF TestNext

LEMMA NextInitLives ==
    ASSUME TypeInv, line \in 1 .. 30, InitLives, [TestNext]_testVars
    PROVE  InitLives'
<1>1. /\ init \in Proc /\ init \in Task /\ init # Loader
      /\ init \notin Testers /\ init \notin Bystanders
      /\ pc \in [Task -> ProcPlace \union LoaderPlace]
  BY Roles DEF Task, TypeInv, TypeOK, Testers, Guests
<1>2. CASE pc'[init] = pc[init]
  BY <1>2 DEF InitLives
<1>3. CASE Run(init)
  <2>1. pc'[init] \in Follows(init) /\ pc[init] \in {"log", "call"}
    BY <1>1, <1>3, RunFollows DEF InitLives
  <2>2. QED
    BY <2>1 DEF InitLives, Follows
<1>4. CASE CallSyscall(init) \/ Unmapped(init)
  BY <1>1, <1>4 DEF CallSyscall, Unmapped, Oops, Goto, InitLives
<1>5. QED
  BY <1>1, <1>2, <1>3, <1>4, WhoMovesInTests

LEMMA NextStartPids ==
    ASSUME \A b, c \in Bystanders : Owner[b] = Owner[c] => b = c,
           TypeInv, line \in 1 .. 30, InitLives, StartPids, [TestNext]_testVars
    PROVE  StartPids'
<1> SUFFICES ASSUME NEW p \in Proc, AsksStart(p)'
             PROVE  req'[p].pid \in {AllPids, init, p}
  BY DEF StartPids
<1>1. /\ p \in Task /\ p # Loader
      /\ pc \in [Task -> ProcPlace \union LoaderPlace] /\ req \in [Proc -> Args]
      /\ pc'[p] \in {"args", "owner", "context", "start"}
      /\ p \in Bystanders => pc'[p] \in {"context", "start"}
  BY Roles DEF Task, TypeInv, TypeOK, AsksStart
<1>2. CASE pc'[p] = pc[p] /\ req'[p] = req[p]
  BY <1>2 DEF StartPids, AsksStart
<1>3. CASE p = Now.who /\ p \in Testers /\ line \in 1 .. 28 /\ Begin
  <2>1. p \notin Bystanders
    BY <1>3, Roles
  <2>2. CASE Now.do \in Cmds
    <3>1. req'[p] = Asked(Now) /\ Request(p)
      <4>1. Now.do \notin {"insmod", "rmmod", "monitor", "return"}
        BY <2>2, TestAssumption DEF INTERCEPT, RELEASE, START, STOP
      <4>2. QED
        BY <1>3, <2>2, <4>1 DEF Begin, Asked
    <3>2. pc'[p] = "args"
      BY <1>1, <3>1 DEF Request, Goto
    <3>3. Now.do = START
      BY <3>1, <3>2 DEF AsksStart, Asked
    <3>4. line \in {8, 10, 12, 13, 18, 20, 24}
      <4>1. line \notin {2, 3, 4, 5, 6, 7, 28, 1, 14, 17, 22, 25, 26,
                         9, 11, 15, 16, 19, 21, 23, 27}
        BY <3>3, DoColumn DEF Now, INTERCEPT, RELEASE, START, STOP
      <4>2. QED
        BY <1>3, <4>1
    <3>5. Now.pid \in {AllPids, init, p}
      BY <1>3, <3>4, PidColumn, WhoColumn DEF Now
    <3>6. QED
      BY <3>1, <3>5 DEF Asked
  <2>3. CASE Now.do \notin Cmds
    <3>1. CallSyscall(p) \/ Exit(p)
      <4>1. Now.do \in {"monitor", "return"} /\ p # Loader
        BY <1>3, <2>3, Runner, Roles DEF Testers, Guests
      <4>2. QED
        BY <1>3, <2>3, <4>1 DEF Begin
    <3>2. QED
      BY <1>1, <3>1 DEF CallSyscall, Exit, Goto
  <2>4. QED
    BY <2>2, <2>3
<1>4. CASE Run(p)
  <2>1. pc'[p] \in Follows(p) /\ UNCHANGED req
    BY <1>1, <1>4, RunFollows
  <2>2. CASE pc'[p] = "start"
    <3>1. [Next]_vars
      BY TestStepIsStep
    <3>2. pc[p] = "start" \/ (pc[p] = "context" /\ req[p].cmd = START)
      BY <1>1, <2>2, <3>1, ComesToStart
    <3>3. QED
      BY <2>1, <3>2 DEF StartPids, AsksStart
  <2>3. CASE pc'[p] \in {"owner", "context"}
    <3>1. pc[p] \in {"args", "owner"} /\ req'[p].cmd = START
      <4>1. pc[p] # "context"
        <5>1. pc[p] = "context" =>
                 CheckContext(p) /\ req[p].cmd \in {INTERCEPT, RELEASE, START, STOP}
          BY <1>4, RunAt, CmdsAssumption DEF TypeInv, RequestsOK
        <5>2. req[p].cmd \in {INTERCEPT, RELEASE, START, STOP} =>
                 CommandPlace(req[p].cmd) \in {"intercept", "release", "start", "stop"}
          BY DEF CommandPlace, INTERCEPT, RELEASE, START, STOP
        <5>3. QED
          BY <2>1, <2>3, <5>1, <5>2 DEF Follows
      <4>2. QED
        BY <1>1, <2>1, <2>3, <4>1 DEF Follows, AsksStart
    <3>2. CASE p \notin Bystanders
      BY <2>1, <3>1, <3>2 DEF StartPids, AsksStart
    <3>3. CASE p \in Bystanders
      <4>1. pc'[p] = "context" /\ p \notin Root
        BY <1>1, <2>3, <3>3, Roles
      <4>2. CheckOwner(p)
        <5>1. pc[p] = "args" => CheckArgs(p)
          BY <1>4, RunAt
        <5>2. pc[p] # "args"
          BY <1>1, <4>1, <5>1 DEF CheckArgs, Return, Goto
        <5>3. QED
          BY <1>4, <3>1, <5>2, RunAt
      <4>3. req[p].pid \in Proc /\ Owner[req[p].pid] = Owner[p]
        BY <1>1, <4>1, <4>2 DEF CheckOwner, Return, Goto, Oops, Alive
      <4>4. req[p].pid = p
        BY <3>3, <4>3, Roles
      <4>5. QED
        BY <2>1, <4>4
    <3>4. QED
      BY <3>2, <3>3
  <2>4. CASE pc'[p] = "args"
    <3>1. pc[p] = "context" => req[p].cmd \in {INTERCEPT, RELEASE, START, STOP}
      BY CmdsAssumption DEF TypeInv, RequestsOK
    <3>2. req[p].cmd \in {INTERCEPT, RELEASE, START, STOP} =>
             CommandPlace(req[p].cmd) \in {"intercept", "release", "start", "stop"}
      BY DEF CommandPlace, INTERCEPT, RELEASE, START, STOP
    <3>3. pc[p] # "user"
      BY <1>1, <1>4, RunFollows
    <3>4. QED
      BY <2>1, <2>4, <3>1, <3>2, <3>3 DEF Follows
  <2>5. QED
    BY <1>1, <2>2, <2>3, <2>4
<1>5. CASE p \in {init} \union Bystanders /\ (CallSyscall(p) \/ Unmapped(p))
  BY <1>1, <1>5 DEF CallSyscall, Unmapped, Oops, Goto
<1>6. CASE p \in Bystanders /\ (Request(p) \/ Exit(p))
  BY <1>1, <1>6 DEF Request, Exit, Goto
<1>7. QED
  BY <1>2, <1>3, <1>4, <1>5, <1>6, WhoMovesInTests

\* While the tests run among bystanders of different users, a process that has exited
\* is in no list (my_exit_group, interceptor.c:236): no START of theirs, and none that
\* the owner check leaves to the bystanders, can come after the exit of its pid.
THEOREM TestsLeaveNoPids ==
    ASSUME \A b, c \in Bystanders : Owner[b] = Owner[c] => b = c
    PROVE  TestSpec => []DeadAreNotListed
<1>1. TestInit => StartInv
  <2> SUFFICES ASSUME TestInit
               PROVE  StartInv
    OBVIOUS
  <2>1. \A p \in Proc : pc[p] = "user"
    BY Roles DEF TestInit, Init, Task
  <2>2. QED
    BY <2>1, Roles DEF StartInv, InitLives, StartPids, AsksStart
<1>2. IInv /\ line \in 1 .. 30 /\ StartInv /\ [TestNext]_testVars => StartInv'
  BY NextInitLives, NextStartPids DEF IInv, StartInv
<1>3. StartInv => NoLateStart
  BY DEF StartInv, InitLives, StartPids, AsksStart, NoLateStart
<1>4. QED
  BY <1>1, <1>2, <1>3, TestsUseTheModule, Invariance, OnlyLateStartsListTheDead, PTL
     DEF TestSpec

=============================================================================
