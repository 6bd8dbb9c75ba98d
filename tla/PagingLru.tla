----------------------------- MODULE PagingLru ------------------------------
(***************************************************************************)
(* The simulator with the lru policy (lru.c).  coremap[f].evic is set to 0 *)
(* and never to 1, so every reference takes the first branch of lru_ref:   *)
(* it links a new node behind bottom and makes it the bottom.  Of the list *)
(* the program can reach only the two ends, and of a node it uses only the *)
(* frame number, so top and bottom are frame numbers.                      *)
(*                                                                         *)
(* The next field of a new node is never set.  lru_evict reads it from the *)
(* bottom: it finds NULL or, in reused memory, any bits (Wild).  The next  *)
(* lru_ref stores through the pointer, which faults or goes unnoticed.     *)
(***************************************************************************)
EXTENDS Paging

CONSTANTS NULL,     \* the null pointer
          Wild      \* a pointer read from uninitialized memory

ASSUME PointersAssumption == NULL \notin Frame /\ Wild \notin Frame /\ NULL # Wild

VARIABLES
    top,        \* frame number in the first node, or NULL
    bottom,     \* frame number in the last node, or NULL
    lastuse     \* auxiliary: when the page in a frame was last referenced

lruVars == <<vars, top, bottom, lastuse>>

\* lru_init
LruInit == Init /\ top = NULL /\ bottom = NULL /\ lastuse = [f \in Frame |-> 0]

\* lru_evict takes the bottom.
LruVictim == bottom

\* The ends lru_evict can leave.  It compares them by frame number, so a list
\* whose first and last node carry one frame counts as a single node.
AfterEvict == IF bottom = top
              THEN {<<NULL, NULL>>}
              ELSE {<<top, NULL>>, <<top, Wild>>}

\* Mutation of Pushed: the node is linked in front of top.
PushedOnTop(ends, f) ==
    IF NULL \in {ends[1], ends[2]} THEN <<f, f>> ELSE <<f, ends[2]>>

\* The ends lru_ref makes of <<top, bottom>> for the page in frame f.
Pushed(ends, f) == IF NULL \in {ends[1], ends[2]} THEN <<f, f>> ELSE <<ends[1], f>>

LruRef(ends, f) ==
    /\ top'     = Pushed(ends, f)[1]
    /\ bottom'  = Pushed(ends, f)[2]
    /\ lastuse' = [lastuse EXCEPT ![f] = count'.ref]

LruReference ==
    \/ /\ \E p \in Page, t \in AccessType : Hit(p, t) \/ MissFree(p, t)
       /\ LruRef(<<top, bottom>>, pgtbl'[cur'.page].frame)
    \/ /\ \E p \in Page, t \in AccessType : MissFull(p, t)
       /\ UNCHANGED <<top, bottom, lastuse>>

\* The eviction and the reference that find_physpage makes right after it; a
\* store through Wild that goes unnoticed leaves the new node at the bottom ...
LruEvict == \E ends \in AfterEvict : Evict(LruVictim) /\ LruRef(ends, LruVictim)

\* ... and one that faults ends the program.
LruFault ==
    /\ pc = "evict"
    /\ \E ends \in AfterEvict : ends[2] = Wild
    /\ Exit
    /\ UNCHANGED <<top, bottom, lastuse>>

LruStop ==
    /\ Fail(LruVictim) \/ EndOfTrace \/ Stopped
    /\ UNCHANGED <<top, bottom, lastuse>>

LruNext ==
    \/ LruReference
    \/ LruEvict
    \/ LruFault
    \/ LruStop

LruSpec == LruInit /\ [][LruNext]_lruVars
-----------------------------------------------------------------------------
\* The ends of the list are frame numbers or null.
LruTypeOK ==
    /\ TypeOK
    /\ {top, bottom} \subseteq Frame \union {NULL}
    /\ lastuse \in [Frame -> Nat]

\* The victim was referenced after the page in any other frame.
TakesMostRecent ==
    pc = "evict" => \A f \in Frame : lastuse[LruVictim] >= lastuse[f]
=============================================================================
