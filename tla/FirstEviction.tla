--------------------------- MODULE FirstEviction ----------------------------
(***************************************************************************)
(* The victim each policy chooses at the first eviction of one trace.      *)
(*                                                                         *)
(* Until evict_fcn is called for the first time the memory is the same     *)
(* under every policy, so one replay of the trace can carry the state of   *)
(* clock.c, lru.c and opt.c together and ask all three for their victim.   *)
(* The replay stops there.                                                 *)
(***************************************************************************)
EXTENDS PagingClock, PagingLru, PagingOpt

firstVars == <<vars, clock, referenced, before, top, bottom, lastuse, trace, head>>

FirstInit == ClockInit /\ LruInit /\ OptInit

\* A reference that needs no eviction, followed by the ref_fcn of each policy.
Served ==
    /\ trace # << >>
    /\ \E t \in AccessType : Hit(trace[1], t) \/ MissFree(trace[1], t)
    /\ trace' = Tail(trace)
    /\ ReferenceServed(trace[1])
    /\ LruRef(<<top, bottom>>, pgtbl'[trace[1]].frame)
    /\ head' = Dropped(head)
    /\ UNCHANGED <<clock, before>>

\* The first reference that does need one.
Missed ==
    /\ trace # << >>
    /\ \E t \in AccessType : MissFull(trace[1], t)
    /\ trace' = Tail(trace)
    /\ before' = referenced
    /\ UNCHANGED <<clock, referenced, top, bottom, lastuse, head>>

\* clock_evict is the only search of several steps.
Searched ==
    /\ ClockPass \/ ClockWrap
    /\ UNCHANGED <<top, bottom, lastuse, trace, head>>

Decided == pc = "evict" /\ ClockFound

Ended ==
    /\ \/ trace = << >> /\ EndOfTrace
       \/ Stopped
       \/ Decided /\ UNCHANGED vars
    /\ UNCHANGED <<clock, referenced, before, top, bottom, lastuse, trace, head>>

FirstNext == Served \/ Missed \/ Searched \/ Ended

FirstSpec == FirstInit /\ [][FirstNext]_firstVars
-----------------------------------------------------------------------------
\* lru.c:29, "the accurate LRU algorithm": no page was last used before the victim.
LruIsAccurate == \A f \in Frame : lastuse[LruVictim] <= lastuse[f]

\* clock.c:24, "sweep through pages in circular order": from frame 0, where the hand
\* starts, to the first page that was not referenced, or all the way round.
Unreferenced == {f \in Frame : coremap[f] \notin before}
ClockIsCircular == clock = IF Unreferenced = {} THEN 0 ELSE Min(Unreferenced)

\* opt.c:20, "the page that will be referenced the furthest in the future, or not at
\* all", of all that opt_evict may return.
Ahead(p) == IF NextUse(p, trace) = -1 THEN MaxRefs ELSE NextUse(p, trace)
OptIsFurthest ==
    \E v \in Victims : \A f \in Frame : Ahead(coremap[f]) <= Ahead(coremap[v])

\* The comments of the three policies, in their weakest form: on every trace at least
\* one of them chooses its first victim as described.  A trace that violates this
\* refutes all three at once.
OnePolicyIsAsDescribed == Decided => LruIsAccurate \/ ClockIsCircular \/ OptIsFurthest
=============================================================================
