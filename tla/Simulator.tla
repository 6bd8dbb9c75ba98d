----------------------------- MODULE Simulator ------------------------------
(***************************************************************************)
(* The whole simulator: main picks one of the five policies of its table   *)
(* algs by name and calls its three functions for the rest of the run.     *)
(* The state of the other four keeps the values it had before any of their *)
(* functions ran.                                                          *)
(***************************************************************************)
EXTENDS PagingFifo, PagingClock, PagingLru, PagingOpt

CONSTANT algs   \* the names of the policies that are tried

ASSUME AlgsAssumption == algs \subseteq {"rand", "lru", "fifo", "clock", "opt"}

VARIABLE alg    \* the policy main was asked for

fifoState  == <<ind>>
clockState == <<clock, referenced, before>>
lruState   == <<top, bottom, lastuse>>
optState   == <<trace, head>>
simVars    == <<vars, alg, fifoState, clockState, lruState, optState>>

\* Only opt_init does more than set its variables to 0 or NULL.
SimInit ==
    /\ alg \in algs
    /\ FifoInit /\ ClockInit /\ LruInit
    /\ IF alg = "opt" THEN OptInit ELSE trace = << >> /\ head = << >>

SimNext ==
    /\ UNCHANGED alg
    /\ \/ /\ alg = "rand"
          /\ Next
          /\ UNCHANGED <<fifoState, clockState, lruState, optState>>
       \/ /\ alg = "fifo"
          /\ FifoNext
          /\ UNCHANGED <<clockState, lruState, optState>>
       \/ /\ alg = "clock"
          /\ ClockNext
          /\ UNCHANGED <<fifoState, lruState, optState>>
       \/ /\ alg = "lru"
          /\ LruNext
          /\ UNCHANGED <<fifoState, clockState, optState>>
       \/ /\ alg = "opt"
          /\ OptNext
          /\ UNCHANGED <<fifoState, clockState, lruState>>

\* evict_fcn is an ordinary call: it runs without waiting for anything.
SimSpec == SimInit /\ [][SimNext]_simVars /\ WF_simVars(pc = "evict" /\ SimNext)
-----------------------------------------------------------------------------
\* The types of every policy's state hold whichever policy runs.
SimTypeOK ==
    /\ alg \in algs
    /\ FifoTypeOK /\ ClockTypeOK /\ LruTypeOK /\ OptTypeOK

\* The pages in the frames, starting from the one the index of fifo.c points at;
\* before the memory is full the index is 0 and the lowest frames are in use.
InLoadOrder ==
    [i \in 1 .. IF alg = "fifo" THEN Cardinality(Frame \ FreeFrames) ELSE 0 |->
        coremap[(ind + i - 1) % MemSize]]

Queue == INSTANCE FifoQueue WITH queue <- InLoadOrder, Capacity <- MemSize

\* fifo.c implements first-in first-out: over any trace, the page an eviction
\* removes is the one that was loaded longest ago.
EvictsOldest == Queue!Spec

\* The search for a victim ends under every policy, the unbounded loop of
\* clock_evict (clock.c:27) included: an eviction that starts is over some day.
SearchEnds == pc = "evict" ~> pc # "evict"

\* clock.c: with two frames or more the first frame keeps the page it was first
\* given, since the hand is 0 only in the first sweep, when every frame has been
\* referenced.
FirstFrameIsPinned ==
    [][alg = "clock" /\ MemSize > 1 /\ coremap[0] # NoPage
          => coremap'[0] = coremap[0]]_simVars

\* lru.c:29, "the accurate LRU algorithm", with the order reversed: bottom is the
\* newest node, so over any trace the victim is the page referenced last, and
\* lru_evict never returns its uninitialized local ind (lru.c:36).
VictimIsMostRecent == alg = "lru" => TakesMostRecent

\* opt.c: its list is used up by the first reference, so at every eviction no
\* page seems to be referenced again and the first frame is taken; in a memory
\* of two frames or more, all pages but one stay for ever.
OnlyFirstFrameChanges ==
    [][\A f \in Frame \ {0} : alg = "opt" /\ coremap[f] # NoPage
          => coremap'[f] = coremap[f]]_simVars
=============================================================================
