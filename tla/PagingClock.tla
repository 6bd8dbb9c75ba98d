---------------------------- MODULE PagingClock -----------------------------
(***************************************************************************)
(* The simulator with the clock policy (clock.c).  clock_evict is a loop   *)
(* with no bound in the code; here every turn of it is a step, so that     *)
(* whether it ends is a property.                                          *)
(***************************************************************************)
EXTENDS Paging

VARIABLES
    clock,      \* the clock hand
    referenced, \* the pages whose entry has PG_REF set
    before      \* auxiliary: referenced when the running clock_evict began

clockVars == <<vars, clock, referenced, before>>

\* clock_init; the flags of every page table entry start at 0.
ClockInit == Init /\ clock = 0 /\ referenced = {} /\ before = {}

\* find_physpage and clock_ref set PG_REF on the page served; the flags of a
\* page that is loaded are overwritten first.
ReferenceServed(p) == referenced' = referenced \union {p}

\* Mutations of WrappedHand: the hand starts at the first frame; it is incremented
\* twice.
WrappedHandFirst == 0
WrappedHandTwice == 2

\* The end of the table is reached: the hand is set to 0 and then incremented.
WrappedHand == 1

\* Mutation of Cleared: PG_REF of the page under the hand is kept.
NotCleared == referenced

\* What PG_REF is left set on once the hand has passed a page.
Cleared == referenced \ {coremap[clock]}

\* The hand is on a referenced page: it gets its second chance.
ClockPass ==
    /\ pc = "evict"
    /\ clock < MemSize
    /\ coremap[clock] \in referenced
    /\ referenced' = Cleared
    /\ clock' = clock + 1
    /\ UNCHANGED <<vars, before>>

\* The hand is past the last frame.
ClockWrap ==
    /\ pc = "evict"
    /\ ~(clock < MemSize)
    /\ clock' = WrappedHand
    /\ UNCHANGED <<vars, referenced, before>>

\* Mutation of ClockFound: PG_REF is not looked at.
ClockFoundAny == clock < MemSize

\* The hand is on a page that was not referenced: clock_evict returns its frame
\* and leaves the hand there.
ClockFound == /\ clock < MemSize
              /\ coremap[clock] \notin referenced

ClockEvict ==
    /\ ClockFound
    /\ Evict(clock)
    /\ ReferenceServed(cur.page)
    /\ UNCHANGED <<clock, before>>

ClockReference ==
    /\ \/ /\ \E p \in Page, t \in AccessType : Hit(p, t) \/ MissFree(p, t)
          /\ ReferenceServed(cur'.page)
          /\ UNCHANGED before
       \/ /\ \E p \in Page, t \in AccessType : MissFull(p, t)
          /\ before' = referenced
          /\ UNCHANGED referenced
    /\ UNCHANGED clock

ClockStop ==
    /\ \/ ClockFound /\ Fail(clock)
       \/ EndOfTrace
       \/ Stopped
    /\ UNCHANGED <<clock, referenced, before>>

ClockNext == ClockReference \/ ClockPass \/ ClockWrap \/ ClockEvict \/ ClockStop

ClockSpec == ClockInit /\ [][ClockNext]_clockVars
-----------------------------------------------------------------------------
\* The hand may be one past the last frame.
ClockTypeOK ==
    /\ TypeOK
    /\ clock \in 0 .. MemSize
    /\ referenced \subseteq Page
    /\ before \subseteq Page

\* PG_REF is only ever set on pages in memory, so the hand, which goes by the
\* coremap, can clear every bit there is.
ReferencedAreResident == \A p \in referenced : pgtbl[p].valid

\* The page the hand is about to evict.
VictimPage == coremap[clock]

\* Second chance: while some page in one of the frames fs had not been
\* referenced when the search began, the victim is such a page, whatever the
\* search has cleared on its way.
SecondChanceAmong(fs) ==
    pc = "evict" /\ ClockFound /\ (\E f \in fs : coremap[f] \notin before)
        => VictimPage \notin before

\* clock.c:24, "sweep through pages in circular order": the second chance holds
\* among the frames but the first, which the hand skips when it wraps.
SecondChanceButFirst == SecondChanceAmong(Frame \ {0})
=============================================================================
