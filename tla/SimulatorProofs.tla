-------------------------- MODULE SimulatorProofs ---------------------------
(***************************************************************************)
(* What holds of the whole simulator for any number of pages, frames and   *)
(* slots and any trace: the memory stays consistent under each of the five *)
(* policies (PagingProofs shows it for Paging; lru may end the program in  *)
(* one more way), and each policy evicts what Simulator says it does.      *)
(***************************************************************************)
EXTENDS Simulator, PagingProofs, SequenceTheorems

\* One conjunct per policy.  The state of a policy that does not run is as its
\* init function left it.
FifoInv == ind \in Frame

\* Before the hand has moved, every page in memory has its bit set.
ClockInv ==
    /\ clock \in 0 .. MemSize
    /\ referenced \subseteq Page /\ before \subseteq Page
    /\ ReferencedAreResident
    /\ alg # "clock" => referenced = {} /\ before = {}
    /\ alg = "clock" /\ clock = 0 =>
            \A f \in Frame : coremap[f] # NoPage => coremap[f] \in referenced

\* After the first reference there is a bottom, with the latest use.
LruInv ==
    /\ top \in Frame \union {NULL} /\ bottom \in Frame \union {NULL}
    /\ lastuse \in [Frame -> Nat]
    /\ alg = "lru" =>
            /\ bottom \in Frame \/ \A f \in Frame : coremap[f] = NoPage
            /\ \A f \in Frame : lastuse[f] <= count.ref
            /\ bottom \in Frame => \A f \in Frame : lastuse[f] <= lastuse[bottom]

\* After the first reference the list is empty.
OptInv ==
    /\ trace \in Seq(Page) /\ head \in Seq(Page)
    /\ alg = "opt" => \/ head = << >>
                      \/ Len(head) = 1 /\ \A f \in Frame : coremap[f] = NoPage

PolicyInv == FifoInv /\ ClockInv /\ LruInv /\ OptInv

SimInv == IInv /\ alg \in algs /\ PolicyInv

-----------------------------------------------------------------------------
\* PagingFifo by itself: the policy only restricts which frame Paging evicts, so
\* all that PagingProofs says of the simulator holds of it too.
LEMMA NextIndInFrame ==
    ASSUME ind \in Frame
    PROVE  NextInd \in Frame
  BY MemSizeAssumption DEF Frame, NextInd

LEMMA InitInd == FifoInit => ind \in Frame
  BY MemSizeAssumption DEF FifoInit, Frame

LEMMA NextInFrame == ind \in Frame /\ [FifoNext]_fifoVars => (ind \in Frame)'
<1> SUFFICES ASSUME ind \in Frame, [FifoNext]_fifoVars
             PROVE  ind' \in Frame
  OBVIOUS
<1>1. ind' = NextInd \/ ind' = ind
  BY DEF FifoNext, FifoEvict, fifoVars
<1>2. QED
  BY <1>1, NextIndInFrame

\* The next frame that fifo_evict takes always is a frame of the table, so
\* that coremap is never read outside its bounds.
THEOREM IndexInRange == FifoSpec => [](ind \in Frame)
  BY InitInd, NextInFrame, PTL DEF FifoSpec

\* Every step of the fifo simulator is a step of the simulator: its index always
\* names a frame, and it evicts or fails exactly as any policy would.
THEOREM FifoIsPaging == FifoSpec => Spec
<1>1. FifoInit => Init
  BY DEF FifoInit
<1>2. ind \in Frame /\ [FifoNext]_fifoVars => [Next]_vars
  <2> SUFFICES ASSUME ind \in Frame, [FifoNext]_fifoVars
               PROVE  [Next]_vars
    OBVIOUS
  <2>1. CASE FifoNext
    BY <2>1 DEF FifoNext, FifoEvict, FifoVictim, Next
  <2>2. CASE UNCHANGED fifoVars
    BY <2>2 DEF fifoVars
  <2>3. QED
    BY <2>1, <2>2
<1>3. QED
  BY <1>1, <1>2, IndexInRange, PTL DEF FifoSpec, Spec

\* The fifo simulator keeps its types, over any trace and any number of frames.
THEOREM FifoTypeCorrect == FifoSpec => []FifoTypeOK
<1>1. TypeOK /\ ind \in Frame => FifoTypeOK
  BY DEF FifoTypeOK
<1>2. QED
  BY <1>1, FifoIsPaging, TypeCorrect, IndexInRange, PTL

-----------------------------------------------------------------------------
LEMMA FirstFrame == 0 \in Frame
  BY MemSizeAssumption DEF Frame

LEMMA SimInitInv == SimInit => SimInv
<1> SUFFICES ASSUME SimInit PROVE SimInv
  OBVIOUS
<1>1. Init
  BY DEF SimInit, FifoInit
<1>2. IInv
  BY <1>1, InitIInv
<1>3. FifoInv
  BY FirstFrame DEF SimInit, FifoInit, FifoInv
<1>4. ClockInv
  BY <1>1, MemSizeAssumption DEF SimInit, ClockInit, ClockInv, ReferencedAreResident, Init
<1>5. LruInv
  <2>1. lastuse = [f \in Frame |-> 0] /\ top = NULL /\ bottom = NULL
    BY DEF SimInit, LruInit
  <2>2. count.ref = 0 /\ \A f \in Frame : coremap[f] = NoPage
    BY <1>1 DEF Init
  <2>3. bottom \notin Frame
    BY <2>1, PointersAssumption
  <2>4. QED
    BY <2>1, <2>2, <2>3 DEF LruInv
<1>6. OptInv
  <2>1. \A f \in Frame : coremap[f] = NoPage
    BY <1>1 DEF Init
  <2>2. trace \in Seq(Page)
    <3>1. CASE alg = "opt"
      <4>1. PICK n \in 0 .. MaxRefs : trace \in [1 .. n -> Page]
        BY <3>1 DEF SimInit, OptInit
      <4>2. n \in Nat
        BY MaxRefsAssumption
      <4>3. QED
        BY <4>1, <4>2, SeqDef
    <3>2. CASE alg # "opt"
      BY <3>2 DEF SimInit
    <3>3. QED
      BY <3>1, <3>2
  <2>3. head \in Seq(Page) /\ (head = << >> \/ Len(head) = 1)
    <3>1. CASE alg = "opt" /\ trace # << >>
      <4>1. head = <<trace[1]>>
        BY <3>1 DEF SimInit, OptInit, BuiltList
      <4>2. trace[1] \in Page
        BY <2>2, <3>1
      <4>3. QED
        BY <4>1, <4>2
    <3>2. CASE ~(alg = "opt" /\ trace # << >>)
      <4>1. head = << >>
        BY <3>2 DEF SimInit, OptInit, BuiltList
      <4>2. QED
        BY <4>1
    <3>3. QED
      BY <3>1, <3>2
  <2>4. QED
    BY <2>1, <2>2, <2>3 DEF OptInv
<1>7. QED
  BY <1>2, <1>3, <1>4, <1>5, <1>6 DEF SimInv, PolicyInv, SimInit

-----------------------------------------------------------------------------
\* What a step of Paging does to the state the policies look at: a reference
\* that evicts nothing is served, ...
Served(p) ==
    /\ count'.ref = count.ref + 1
    /\ p \in Page /\ cur'.page = p
    /\ pgtbl'[p].valid /\ pgtbl'[p].frame \in Frame
    /\ \A q \in Page : pgtbl[q].valid => pgtbl'[q].valid
    /\ \A g \in Frame : /\ coremap'[g] = coremap[g] \/ coremap'[g] = p
                        /\ coremap[g] # NoPage => coremap'[g] = coremap[g]

\* ... frame f is given to the page that missed, ...
Evicted(f) ==
    /\ pc = "evict"
    /\ count'.ref = count.ref
    /\ cur.page \in Page
    /\ pgtbl'[cur.page].valid
    /\ \A q \in Page : pgtbl[q].valid /\ q # coremap[f] => pgtbl'[q].valid
    /\ coremap[f] \in Page
    /\ \A g \in Frame \ {f} : coremap'[g] = coremap[g]

\* ... or no page moves.
Kept == UNCHANGED <<pgtbl, coremap>> /\ count'.ref \in {count.ref, count.ref + 1}

\* The counter of references is the only one the lru policy is measured by.
LEMMA CountedRef ==
    ASSUME NEW c \in Counters, NEW field \in {"hit", "miss", "clean", "dirty"}
    PROVE  /\ Counted(c, field).ref = c.ref
           /\ Counted(Counted(c, "ref"), field).ref = c.ref + 1
           /\ c.ref \in Nat
  BY DEF Counters, Counted

LEMMA HitServes ==
    ASSUME IInv, NEW p \in Page, NEW t \in AccessType, Hit(p, t)
    PROVE  Served(p)
<1>1. MemoryType(pgtbl, coremap, physmem, swapmap, swapfile) /\ count \in Counters
  BY DEF IInv, MemoryInv
<1>2. count'.ref = count.ref + 1
  BY <1>1, CountedRef DEF Hit
<1>3. cur'.page = p
  BY DEF Hit, NextLine
<1>4. pgtbl[p] \in Entry /\ pgtbl[p].valid
      /\ pgtbl' = [pgtbl EXCEPT ![p] = Touched(@, t)] /\ coremap' = coremap
  BY <1>1 DEF Hit, MemoryType
<1>5. Touched(pgtbl[p], t).valid = pgtbl[p].valid
      /\ Touched(pgtbl[p], t).frame = pgtbl[p].frame
  BY <1>4 DEF Touched, Entry
<1>6. pgtbl'[p] = Touched(pgtbl[p], t) /\ \A q \in Page \ {p} : pgtbl'[q] = pgtbl[q]
  BY <1>1, <1>4 DEF MemoryType
<1>7. pgtbl[p].frame \in Frame
  BY <1>4 DEF Entry
<1>8. QED
  BY <1>2, <1>3, <1>4, <1>5, <1>6, <1>7 DEF Served

LEMMA MissFreeServes ==
    ASSUME IInv, NEW p \in Page, NEW t \in AccessType, MissFree(p, t)
    PROVE  Served(p)
<1>1. MemoryType(pgtbl, coremap, physmem, swapmap, swapfile) /\ count \in Counters
  BY DEF IInv, MemoryInv
<1>2. count'.ref = count.ref + 1
  BY <1>1, CountedRef DEF MissFree
<1>3. cur'.page = p
  BY DEF MissFree, NextLine
<1>4. PICK f \in Frame : /\ coremap[f] = NoPage
                         /\ pgtbl'   = [pgtbl EXCEPT ![p] = Loaded(@, f, t)]
                         /\ coremap' = [coremap EXCEPT ![f] = p]
  BY DEF MissFree, FirstFree, FreeFrames
<1>5. pgtbl[p] \in Entry
  BY <1>1 DEF MemoryType
<1>6. Loaded(pgtbl[p], f, t).valid /\ Loaded(pgtbl[p], f, t).frame = f
  BY <1>5 DEF Loaded, Entry
<1>7. /\ pgtbl'[p] = Loaded(pgtbl[p], f, t)
      /\ \A q \in Page \ {p} : pgtbl'[q] = pgtbl[q]
      /\ coremap'[f] = p
      /\ \A g \in Frame \ {f} : coremap'[g] = coremap[g]
  BY <1>1, <1>4 DEF MemoryType
<1>8. QED
  BY <1>2, <1>3, <1>4, <1>6, <1>7 DEF Served

LEMMA MissFullKeeps ==
    ASSUME IInv, NEW p \in Page, NEW t \in AccessType, MissFull(p, t)
    PROVE  Kept /\ pc' = "evict" /\ \A f \in Frame : coremap[f] # NoPage
<1>1. count \in Counters
  BY DEF IInv
<1>2. count'.ref = count.ref + 1
  BY <1>1, CountedRef DEF MissFull
<1>3. QED
  BY <1>2 DEF MissFull, Kept, FreeFrames

LEMMA EvictGives ==
    ASSUME IInv, NEW f \in Frame, Evict(f)
    PROVE  Evicted(f)
<1>1. MemoryType(pgtbl, coremap, physmem, swapmap, swapfile) /\ count \in Counters
  BY DEF IInv, MemoryInv
<1>2. pc = "evict"
  BY DEF Evict, EvictClean, EvictDirty
<1>3. cur.page \in Page /\ coremap[f] \in Page /\ coremap[f] # cur.page
  BY <1>2, VictimFacts
<1>4. PICK e \in Entry : \E sw :
          Serve(f, [pgtbl EXCEPT ![coremap[f]] = e], sw)
  <2>1. pgtbl[coremap[f]] \in Entry
    BY <1>1, <1>3 DEF MemoryType
  <2>2. CASE EvictClean(f)
    <3>1. CleanVictim(pgtbl[coremap[f]]) \in Entry
      BY <2>1 DEF CleanVictim, Entry
    <3>2. QED
      BY <2>2, <3>1 DEF EvictClean
  <2>3. CASE EvictDirty(f)
    <3>1. PICK s \in Slot :
            Serve(f, [pgtbl EXCEPT ![coremap[f]] = DirtyVictim(@, s)], swapfile')
      BY <2>3 DEF EvictDirty
    <3>2. DirtyVictim(pgtbl[coremap[f]], s) \in Entry
      BY <2>1 DEF DirtyVictim, Entry
    <3>3. QED
      BY <3>1, <3>2
  <2>4. QED
    BY <2>2, <2>3 DEF Evict
<1>5. count'.ref = count.ref
  BY <1>1, CountedRef DEF Evict, EvictClean, EvictDirty
<1> DEFINE tbl == [pgtbl EXCEPT ![coremap[f]] = e]
<1>6. /\ pgtbl'   = [tbl EXCEPT ![cur.page] = Loaded(@, f, cur.type)]
      /\ coremap' = [coremap EXCEPT ![f] = cur.page]
  BY <1>4 DEF Serve
<1>7. tbl[cur.page] \in Entry
  BY <1>1, <1>3 DEF MemoryType
<1>8. Loaded(tbl[cur.page], f, cur.type).valid
  BY <1>7 DEF Loaded, Entry
<1>9. /\ pgtbl'[cur.page] = Loaded(tbl[cur.page], f, cur.type)
      /\ \A q \in Page \ {cur.page, coremap[f]} : pgtbl'[q] = pgtbl[q]
      /\ \A g \in Frame \ {f} : coremap'[g] = coremap[g]
  BY <1>1, <1>3, <1>6 DEF MemoryType
<1>10. QED
  BY <1>2, <1>3, <1>5, <1>8, <1>9 DEF Evicted

\* The program ends, for whatever reason, or does nothing.
LEMMA StopKeeps ==
    ASSUME \/ \E f : Fail(f)
           \/ pc = "evict" /\ Exit
           \/ EndOfTrace
           \/ Stopped
    PROVE  Kept /\ (pc' = "evict" => pc = "evict")
  BY DEF Fail, SwapFull, SwapIOFails, Exit, EndOfTrace, Stopped, Kept, vars

-----------------------------------------------------------------------------
\* While an eviction runs every frame holds a page.
LEMMA EvictIsFull ==
    ASSUME IInv, pc = "evict"
    PROVE  \A f \in Frame : coremap[f] # NoPage
  BY DEF IInv, ServingMiss, FreeFrames

\* The program may end while it evicts, in the way lru_ref can end it.
LEMMA ExitIInv == IInv /\ pc = "evict" /\ Exit => IInv'
  BY DEF IInv, Exit, ServingMiss

\* clock: the hand is a frame when an eviction takes place, and not the first.
LEMMA ClockVictim ==
    ASSUME IInv, ClockInv, alg = "clock", pc = "evict", ClockFound
    PROVE  clock \in Frame /\ clock # 0
<1>1. clock \in Frame
  BY MemSizeAssumption DEF ClockInv, ClockFound, Frame
<1>2. QED
  BY <1>1, EvictIsFull DEF ClockInv, ClockFound

LEMMA ClockStep ==
    ASSUME IInv, ClockInv, alg = "clock", UNCHANGED alg, ClockNext
    PROVE  IInv' /\ ClockInv'
<1>0. MemoryType(pgtbl, coremap, physmem, swapmap, swapfile)
  BY DEF IInv, MemoryInv
<1>1. ASSUME NEW p, Served(p), ReferenceServed(p), UNCHANGED <<before, clock>>
      PROVE  ClockInv'
  <2>1. /\ referenced' = referenced \union {p} /\ p \in Page
        /\ \A q \in Page : pgtbl[q].valid => pgtbl'[q].valid
        /\ pgtbl'[p].valid
        /\ \A g \in Frame : coremap'[g] = coremap[g] \/ coremap'[g] = p
    BY <1>1 DEF Served, ReferenceServed
  <2>2. ReferencedAreResident'
    BY <2>1 DEF ClockInv, ReferencedAreResident
  <2>3. QED
    BY <1>1, <2>1, <2>2 DEF ClockInv
<1>2. CASE ClockReference
  <2>1. ASSUME NEW p \in Page, NEW t \in AccessType, Hit(p, t) \/ MissFree(p, t),
               ReferenceServed(cur'.page), UNCHANGED before
        PROVE  ClockInv'
    <3>1. Served(p)
      BY <2>1, HitServes, MissFreeServes
    <3>2. cur'.page = p
      BY <3>1 DEF Served
    <3>3. UNCHANGED clock
      BY <1>2 DEF ClockReference
    <3>4. QED
      BY <1>1, <2>1, <3>1, <3>2, <3>3
  <2>2. ASSUME NEW p \in Page, NEW t \in AccessType, MissFull(p, t),
               before' = referenced, UNCHANGED referenced
        PROVE  ClockInv'
    <3>1. UNCHANGED <<pgtbl, coremap, clock>>
      BY <1>2, <2>2, MissFullKeeps DEF Kept, ClockReference
    <3>2. QED
      BY <2>2, <3>1 DEF ClockInv, ReferencedAreResident
  <2>3. [Next]_vars
    BY <1>2 DEF ClockReference, Next, Reference
  <2>4. QED
    BY <1>2, <2>1, <2>2, <2>3, NextIInv DEF ClockReference
<1>3. CASE ClockPass
  <2>1. clock' \in 0 .. MemSize /\ clock' # 0
    BY <1>3, MemSizeAssumption DEF ClockPass, ClockInv
  <2>2. referenced' \subseteq referenced /\ UNCHANGED <<vars, before>>
    BY <1>3 DEF ClockPass, Cleared
  <2>3. IInv'
    BY <2>2, NextIInv
  <2>4. UNCHANGED <<pgtbl, coremap>>
    BY <2>2 DEF vars
  <2>5. QED
    BY <2>1, <2>2, <2>3, <2>4 DEF ClockInv, ReferencedAreResident
<1>4. CASE ClockWrap
  <2>1. clock' \in 0 .. MemSize /\ clock' # 0
    BY <1>4, MemSizeAssumption DEF ClockWrap, WrappedHand
  <2>2. UNCHANGED <<vars, before, referenced>>
    BY <1>4 DEF ClockWrap
  <2>3. IInv'
    BY <2>2, NextIInv
  <2>4. UNCHANGED <<pgtbl, coremap>>
    BY <2>2 DEF vars
  <2>5. QED
    BY <2>1, <2>2, <2>3, <2>4 DEF ClockInv, ReferencedAreResident
<1>5. CASE ClockEvict
  <2>1. Evict(clock) /\ ClockFound /\ UNCHANGED <<clock, before>>
        /\ ReferenceServed(cur.page)
    BY <1>5 DEF ClockEvict
  <2>2. pc = "evict"
    BY <2>1 DEF Evict, EvictClean, EvictDirty
  <2>3. clock \in Frame /\ clock # 0
    BY <2>1, <2>2, ClockVictim
  <2>4. Evicted(clock)
    BY <2>1, <2>3, EvictGives
  <2>5. IInv'
    BY <2>1, <2>3, NextIInv DEF Next
  <2>6. referenced' = referenced \union {cur.page} /\ coremap[clock] \notin referenced
    BY <2>1 DEF ReferenceServed, ClockFound
  <2>7. ReferencedAreResident'
    BY <2>4, <2>6 DEF ClockInv, ReferencedAreResident, Evicted
  <2>8. QED
    BY <2>1, <2>3, <2>4, <2>5, <2>6, <2>7 DEF ClockInv, Evicted
<1>6. CASE ClockStop
  <2>1. Kept /\ UNCHANGED <<clock, referenced, before>>
    BY <1>6, StopKeeps DEF ClockStop
  <2>2. [Next]_vars
    <3>1. ASSUME ClockFound, Fail(clock)
          PROVE  clock \in Frame
      <4>1. pc = "evict"
        BY <3>1 DEF Fail, SwapFull, SwapIOFails
      <4>2. QED
        BY <3>1, <4>1, ClockVictim
    <3>2. QED
      BY <1>6, <3>1 DEF ClockStop, Next
  <2>3. QED
    BY <2>1, <2>2, NextIInv DEF ClockInv, ReferencedAreResident, Kept
<1>7. QED
  BY <1>2, <1>3, <1>4, <1>5, <1>6 DEF ClockNext

\* lru: there is a bottom when an eviction takes place.
LEMMA LruVictimIsFrame ==
    ASSUME IInv, LruInv, alg = "lru", pc = "evict"
    PROVE  bottom \in Frame
  BY EvictIsFull, FirstFrame DEF LruInv

\* Whatever ends the list has, the frame lru_ref is called for is its new bottom.
LEMMA LruRefEnds ==
    ASSUME NEW ends, NEW f \in Frame, LruRef(ends, f), ends[1] \in Frame \union {NULL}
    PROVE  bottom' = f /\ top' \in Frame
  BY DEF LruRef, Pushed

LEMMA LruRefKeeps ==
    ASSUME IInv, LruInv, UNCHANGED alg, NEW ends, NEW f \in Frame, LruRef(ends, f),
           ends[1] \in Frame \union {NULL}, count'.ref \in {count.ref, count.ref + 1},
           alg = "lru"
    PROVE  LruInv'
<1>1. bottom' = f /\ top' \in Frame
  BY LruRefEnds
<1>2. count.ref \in Nat /\ count'.ref \in Nat /\ count'.ref >= count.ref
  BY DEF IInv, Counters
<1>3. /\ lastuse \in [Frame -> Nat]
      /\ lastuse' = [lastuse EXCEPT ![f] = count'.ref]
  BY DEF LruInv, LruRef
<1>4. /\ lastuse' \in [Frame -> Nat]
      /\ lastuse'[f] = count'.ref
      /\ \A g \in Frame \ {f} : lastuse'[g] = lastuse[g]
  BY <1>2, <1>3
<1>5. \A g \in Frame : lastuse'[g] <= count'.ref
  <2> TAKE g \in Frame
  <2>1. CASE g = f
    BY <1>2, <1>4, <2>1
  <2>2. CASE g # f
    <3>1. lastuse[g] <= count.ref /\ lastuse[g] \in Nat
      BY <1>3 DEF LruInv
    <3>2. QED
      BY <1>2, <1>4, <2>2, <3>1
  <2>3. QED
    BY <2>1, <2>2
<1>6. QED
  BY <1>1, <1>4, <1>5 DEF LruInv

LEMMA LruStep ==
    ASSUME IInv, LruInv, alg = "lru", UNCHANGED alg, LruNext
    PROVE  IInv' /\ LruInv'
<1>1. ASSUME Kept, UNCHANGED <<top, bottom, lastuse>>
      PROVE  LruInv'
  <2>1. count.ref \in Nat /\ count'.ref \in {count.ref, count.ref + 1}
    BY <1>1 DEF IInv, Counters, Kept
  <2>2. \A f \in Frame : lastuse[f] \in Nat /\ lastuse[f] <= count.ref
    BY DEF LruInv
  <2>3. \A f \in Frame : lastuse'[f] <= count'.ref
    BY <1>1, <2>1, <2>2
  <2>4. QED
    BY <1>1, <2>3 DEF LruInv, Kept
<1>2. CASE LruReference
  <2>1. ASSUME NEW p \in Page, NEW t \in AccessType, Hit(p, t) \/ MissFree(p, t),
               LruRef(<<top, bottom>>, pgtbl'[cur'.page].frame)
        PROVE  LruInv'
    <3>1. Served(p)
      BY <2>1, HitServes, MissFreeServes
    <3>2. pgtbl'[cur'.page].frame \in Frame /\ count'.ref = count.ref + 1
      BY <3>1 DEF Served
    <3>3. <<top, bottom>>[1] \in Frame \union {NULL}
      BY DEF LruInv
    <3>4. QED
      BY <2>1, <3>2, <3>3, LruRefKeeps
  <2>2. ASSUME NEW p \in Page, NEW t \in AccessType, MissFull(p, t),
               UNCHANGED <<top, bottom, lastuse>>
        PROVE  LruInv'
    BY <1>1, <2>2, MissFullKeeps
  <2>3. [Next]_vars
    BY <1>2 DEF LruReference, Next, Reference
  <2>4. QED
    BY <1>2, <2>1, <2>2, <2>3, NextIInv DEF LruReference
<1>3. CASE LruEvict
  <2>1. PICK ends \in AfterEvict : Evict(bottom) /\ LruRef(ends, bottom)
    BY <1>3 DEF LruEvict, LruVictim
  <2>2. pc = "evict"
    BY <2>1 DEF Evict, EvictClean, EvictDirty
  <2>3. bottom \in Frame
    BY <2>2, LruVictimIsFrame
  <2>4. count'.ref = count.ref
    BY <2>1, <2>3, EvictGives DEF Evicted
  <2>5. ends[1] \in Frame \union {NULL}
    BY <2>1 DEF AfterEvict, LruInv
  <2>6. IInv'
    BY <2>1, <2>3, NextIInv DEF Next
  <2>7. QED
    BY <2>1, <2>3, <2>4, <2>5, <2>6, LruRefKeeps
<1>4. CASE LruFault
  BY <1>1, <1>4, ExitIInv, StopKeeps DEF LruFault
<1>5. CASE LruStop
  <2>1. Kept
    BY <1>5, StopKeeps DEF LruStop
  <2>2. [Next]_vars
    <3>1. ASSUME Fail(bottom)
          PROVE  bottom \in Frame
      <4>1. pc = "evict"
        BY <3>1 DEF Fail, SwapFull, SwapIOFails
      <4>2. QED
        BY <4>1, LruVictimIsFrame
    <3>2. QED
      BY <1>5, <3>1 DEF LruStop, LruVictim, Next
  <2>3. QED
    BY <1>1, <1>5, <2>1, <2>2, NextIInv DEF LruStop
<1>6. QED
  BY <1>2, <1>3, <1>4, <1>5 DEF LruNext

\* opt: with its list used up, no page seems to be used again, and the first
\* frame is the victim.
LEMMA OptVictimIsFirst ==
    ASSUME head = << >>
    PROVE  Victims \subseteq {0}
<1>1. ASSUME NEW vaddr PROVE Choice(head, vaddr) = 0
  <2>1. \A f : Distance(f, head, vaddr) = -1
    BY DEF Distance, NextUse
  <2>2. Unused(head, vaddr) = Frame
    BY <2>1 DEF Unused
  <2>3. Choice(head, vaddr) = Min(Frame)
    BY <2>2, FirstFrame DEF Choice
  <2>4. Min(Frame) = 0
    <3>1. \A y \in Frame : 0 <= y
      BY DEF Frame
    <3>2. \A x \in Frame : (\A y \in Frame : x <= y) => x = 0
      BY FirstFrame DEF Frame
    <3>3. QED
      BY <3>1, <3>2, FirstFrame DEF Min
  <2>5. QED
    BY <2>3, <2>4
<1>2. QED
  BY <1>1 DEF Victims

LEMMA OptListIsEmpty ==
    ASSUME IInv, OptInv, alg = "opt", pc = "evict"
    PROVE  head = << >>
  BY EvictIsFull, FirstFrame DEF OptInv

LEMMA DroppedList ==
    ASSUME head \in Seq(Page), head = << >> \/ Len(head) = 1
    PROVE  Dropped(head) = << >>
<1>1. CASE head = << >>
  BY <1>1 DEF Dropped
<1>2. CASE Len(head) = 1
  <2>1. head # << >> /\ Tail(head) \in Seq(Page) /\ Len(Tail(head)) = 0
    BY <1>2
  <2>2. Tail(head) = << >>
    BY <2>1, EmptySeq
  <2>3. QED
    BY <2>1, <2>2 DEF Dropped
<1>3. QED
  BY <1>1, <1>2

LEMMA OptStep ==
    ASSUME IInv, OptInv, alg = "opt", UNCHANGED alg, OptNext
    PROVE  IInv' /\ OptInv'
<1>1. CASE OptReference
  <2>1. trace \in Seq(Page) /\ trace # << >> /\ trace' = Tail(trace)
    BY <1>1 DEF OptReference, OptInv
  <2>2. trace[1] \in Page /\ trace' \in Seq(Page)
    BY <2>1
  <2>3. ASSUME NEW t \in AccessType,
               Hit(trace[1], t) \/ MissFree(trace[1], t), head' = Dropped(head)
        PROVE  OptInv'
    <3>1. head' = << >>
      BY <2>3, DroppedList DEF OptInv
    <3>2. QED
      BY <2>2, <3>1 DEF OptInv
  <2>4. ASSUME NEW t \in AccessType, MissFull(trace[1], t), UNCHANGED head
        PROVE  OptInv'
    <3>1. \A f \in Frame : coremap[f] # NoPage
      BY <2>2, <2>4, MissFullKeeps
    <3>2. head = << >>
      BY <3>1, FirstFrame DEF OptInv
    <3>3. QED
      BY <2>2, <2>4, <3>2 DEF OptInv
  <2>5. [Next]_vars
    BY <1>1, <2>2 DEF OptReference, Next, Reference
  <2>6. QED
    BY <1>1, <2>3, <2>4, <2>5, NextIInv DEF OptReference
<1>2. CASE OptEvict
  <2>1. pc = "evict" /\ head = << >>
    BY <1>2, OptListIsEmpty DEF OptEvict
  <2>2. Evict(0)
    BY <1>2, <2>1, OptVictimIsFirst DEF OptEvict
  <2>3. [Next]_vars
    BY <2>2, FirstFrame DEF Next
  <2>4. head' = << >> /\ trace' = trace
    BY <1>2, <2>1 DEF OptEvict, Dropped
  <2>5. QED
    BY <2>3, <2>4, NextIInv DEF OptInv
<1>3. CASE OptStop
  <2>1. [Next]_vars /\ UNCHANGED <<trace, head>>
    <3>1. CASE pc = "evict" /\ \E f \in Victims : Fail(f)
      BY <1>3, <3>1, FirstFrame, OptListIsEmpty, OptVictimIsFirst DEF Next, OptStop
    <3>2. CASE EndOfTrace \/ Stopped
      BY <1>3, <3>2 DEF Next, OptStop
    <3>3. QED
      BY <1>3, <3>1, <3>2 DEF OptStop
  <2>2. Kept
    BY <1>3, StopKeeps DEF OptStop
  <2>3. QED
    BY <2>1, <2>2, NextIInv DEF OptInv, Kept
<1>4. QED
  BY <1>1, <1>2, <1>3 DEF OptNext

LEMMA FifoStep ==
    ASSUME IInv, FifoInv, FifoNext
    PROVE  IInv' /\ FifoInv'
<1>1. [Next]_vars
  BY DEF FifoInv, FifoNext, FifoEvict, FifoVictim, Next
<1>2. ind' = NextInd \/ ind' = ind
  BY DEF FifoNext, FifoEvict
<1>3. NextInd \in Frame
  BY MemSizeAssumption DEF FifoInv, NextInd, Frame
<1>4. QED
  BY <1>1, <1>2, <1>3, NextIInv DEF FifoInv

\* The variables of a policy that does not run are left alone.
LEMMA FifoRests == FifoInv /\ UNCHANGED fifoState => FifoInv'
  BY DEF fifoState, FifoInv

LEMMA ClockRests ==
    ClockInv /\ alg # "clock" /\ UNCHANGED <<alg, clockState>> => ClockInv'
  BY DEF clockState, ClockInv, ReferencedAreResident

LEMMA LruRests == LruInv /\ alg # "lru" /\ UNCHANGED <<alg, lruState>> => LruInv'
  BY DEF lruState, LruInv

LEMMA OptRests == OptInv /\ alg # "opt" /\ UNCHANGED <<alg, optState>> => OptInv'
  BY DEF optState, OptInv

LEMMA SimInvStep == SimInv /\ [SimNext]_simVars => SimInv'
<1> SUFFICES ASSUME SimInv, [SimNext]_simVars PROVE SimInv'
  OBVIOUS
<1>1. IInv /\ alg \in algs /\ FifoInv /\ ClockInv /\ LruInv /\ OptInv
  BY DEF SimInv, PolicyInv
<1>2. CASE SimNext
  <2>1. UNCHANGED alg
    BY <1>2 DEF SimNext
  <2>2. CASE /\ alg = "rand" /\ Next
             /\ UNCHANGED <<fifoState, clockState, lruState, optState>>
    BY <1>1, <2>1, <2>2, NextIInv, FifoRests, ClockRests, LruRests, OptRests
       DEF SimInv, PolicyInv
  <2>3. CASE alg = "fifo" /\ FifoNext /\ UNCHANGED <<clockState, lruState, optState>>
    BY <1>1, <2>1, <2>3, FifoStep, ClockRests, LruRests, OptRests
       DEF SimInv, PolicyInv
  <2>4. CASE alg = "clock" /\ ClockNext /\ UNCHANGED <<fifoState, lruState, optState>>
    BY <1>1, <2>1, <2>4, ClockStep, FifoRests, LruRests, OptRests
       DEF SimInv, PolicyInv
  <2>5. CASE alg = "lru" /\ LruNext /\ UNCHANGED <<fifoState, clockState, optState>>
    BY <1>1, <2>1, <2>5, LruStep, FifoRests, ClockRests, OptRests
       DEF SimInv, PolicyInv
  <2>6. CASE alg = "opt" /\ OptNext /\ UNCHANGED <<fifoState, clockState, lruState>>
    BY <1>1, <2>1, <2>6, OptStep, FifoRests, ClockRests, LruRests
       DEF SimInv, PolicyInv
  <2>7. QED
    BY <1>2, <2>2, <2>3, <2>4, <2>5, <2>6 DEF SimNext
<1>3. CASE UNCHANGED simVars
  <2>1. UNCHANGED <<vars, alg, fifoState, clockState, lruState, optState>>
    BY <1>3 DEF simVars
  <2>2. FifoInv' /\ ClockInv' /\ LruInv' /\ OptInv'
    BY <1>1, <2>1 DEF fifoState, clockState, lruState, optState, vars,
                      FifoInv, ClockInv, LruInv, OptInv, ReferencedAreResident
  <2>3. QED
    BY <1>1, <2>1, <2>2, NextIInv DEF SimInv, PolicyInv
<1>4. QED
  BY <1>2, <1>3

\* In every reachable state of the simulator, under each of its five policies,
\* the memory is consistent and the policy is in a state that determines its
\* victim.
THEOREM SimInvariance == SimSpec => []SimInv
  BY SimInitInv, SimInvStep, PTL DEF SimSpec

-----------------------------------------------------------------------------
\* Every variable of main, of the memory and of the five policies keeps its type:
\* an index, a hand or a pointer taken for a frame number is one.
THEOREM SimTypeCorrect == SimSpec => []SimTypeOK
<1>1. SimInv => SimTypeOK
  BY DEF SimInv, PolicyInv, IInv, MemoryInv, MemoryType, TypeOK, SimTypeOK,
         FifoTypeOK, ClockTypeOK, LruTypeOK, OptTypeOK,
         FifoInv, ClockInv, LruInv, OptInv
<1>2. QED
  BY <1>1, SimInvariance, PTL

\* What PagingProofs shows of the memory holds of the whole simulator too, lru and
\* its way to end the program included: the page table and the coremap agree, a
\* frame holds its page, slots are owned, PG_ONSWAP is on pages that are out, and
\* clean pages need no write.
THEOREM SimMemoryIsConsistent ==
    SimSpec => [](/\ MappingConsistent /\ FrameHoldsItsPage /\ SlotsAreOwned
                  /\ OnSwapIsOut /\ CleanNeedsNoWrite)
<1>1. SimInv => /\ MappingConsistent /\ FrameHoldsItsPage /\ SlotsAreOwned
                /\ OnSwapIsOut /\ CleanNeedsNoWrite
  BY IInvOwns DEF SimInv, IInv, MemoryInv, Mapping, Holds, Out, Clean,
                  MappingConsistent, FrameHoldsItsPage, OnSwapIsOut, CleanNeedsNoWrite
<1>2. QED
  BY <1>1, SimInvariance, PTL

\* clock_evict goes by the coremap, and finds every PG_REF bit there is.
THEOREM ReferencedStayResident == SimSpec => []ReferencedAreResident
<1>1. SimInv => ReferencedAreResident
  BY DEF SimInv, PolicyInv, ClockInv
<1>2. QED
  BY <1>1, SimInvariance, PTL

\* lru_evict takes the page referenced last, over any trace (lru.c:29 has it the
\* other way round), and always has a bottom to take.
THEOREM LruTakesMostRecent == SimSpec => []VictimIsMostRecent
<1>1. ASSUME SimInv, alg = "lru", pc = "evict"
      PROVE  \A f \in Frame : lastuse[LruVictim] >= lastuse[f]
  <2>1. bottom \in Frame
    BY <1>1, LruVictimIsFrame DEF SimInv, PolicyInv
  <2>2. \A f \in Frame : lastuse[f] \in Nat /\ lastuse[f] <= lastuse[bottom]
    BY <1>1, <2>1 DEF SimInv, PolicyInv, LruInv
  <2>3. QED
    BY <2>1, <2>2 DEF LruVictim
<1>2. SimInv => VictimIsMostRecent
  BY <1>1 DEF VictimIsMostRecent, TakesMostRecent
<1>3. QED
  BY <1>2, SimInvariance, PTL

\* Under clock the first frame keeps its first page for ever.
THEOREM ClockPinsFirstFrame == SimSpec => FirstFrameIsPinned
<1> DEFINE Pinned == alg = "clock" /\ MemSize > 1 /\ coremap[0] # NoPage
                        => coremap'[0] = coremap[0]
<1>1. ASSUME SimInv, SimNext
      PROVE  Pinned
  <2> SUFFICES ASSUME alg = "clock", coremap[0] # NoPage
               PROVE  coremap'[0] = coremap[0]
    OBVIOUS
  <2>1. IInv /\ ClockInv /\ ClockNext
    BY <1>1 DEF SimInv, PolicyInv, SimNext
  <2>2. CASE ClockReference
    <3>1. ASSUME NEW p \in Page, NEW t \in AccessType,
                 Hit(p, t) \/ MissFree(p, t) \/ MissFull(p, t)
          PROVE  coremap'[0] = coremap[0]
      BY <2>1, <3>1, FirstFrame, HitServes, MissFreeServes, MissFullKeeps
         DEF Served, Kept
    <3>2. QED
      BY <2>2, <3>1 DEF ClockReference
  <2>3. CASE ClockPass \/ ClockWrap
    BY <2>3 DEF ClockPass, ClockWrap, vars
  <2>4. CASE ClockEvict
    <3>1. Evict(clock) /\ ClockFound
      BY <2>4 DEF ClockEvict
    <3>2. pc = "evict"
      BY <3>1 DEF Evict, EvictClean, EvictDirty
    <3>3. clock \in Frame /\ clock # 0
      BY <2>1, <3>1, <3>2, ClockVictim
    <3>4. QED
      BY <2>1, <3>1, <3>3, FirstFrame, EvictGives DEF Evicted
  <2>5. CASE ClockStop
    BY <2>5, StopKeeps DEF ClockStop, Kept
  <2>6. QED
    BY <2>1, <2>2, <2>3, <2>4, <2>5 DEF ClockNext
<1>2. SimInv /\ [SimNext]_simVars => [Pinned]_simVars
  BY <1>1
<1>3. SimSpec => [][Pinned]_simVars
  BY <1>2, SimInvariance, PTL DEF SimSpec
<1>4. QED
  BY <1>3 DEF FirstFrameIsPinned

\* Under opt every page but the one in the first frame stays for ever.
THEOREM OptReplacesFirstFrameOnly == SimSpec => OnlyFirstFrameChanges
<1> DEFINE Stays == \A f \in Frame \ {0} : alg = "opt" /\ coremap[f] # NoPage
                        => coremap'[f] = coremap[f]
<1>1. ASSUME SimInv, SimNext
      PROVE  Stays
  <2> SUFFICES ASSUME NEW f \in Frame \ {0}, alg = "opt", coremap[f] # NoPage
               PROVE  coremap'[f] = coremap[f]
    OBVIOUS
  <2>1. IInv /\ OptInv /\ OptNext
    BY <1>1 DEF SimInv, PolicyInv, SimNext
  <2>2. CASE OptReference
    <3>1. trace[1] \in Page
      BY <2>1, <2>2 DEF OptInv, OptReference
    <3>2. ASSUME NEW t \in AccessType,
                 \/ Hit(trace[1], t) \/ MissFree(trace[1], t)
                 \/ MissFull(trace[1], t)
          PROVE  coremap'[f] = coremap[f]
      BY <2>1, <3>1, <3>2, HitServes, MissFreeServes, MissFullKeeps
         DEF Served, Kept
    <3>3. QED
      BY <2>2, <3>2 DEF OptReference
  <2>3. CASE OptEvict
    <3>1. Evict(0)
      BY <2>1, <2>3, OptListIsEmpty, OptVictimIsFirst DEF OptEvict
    <3>2. QED
      BY <2>1, <3>1, FirstFrame, EvictGives DEF Evicted
  <2>4. CASE OptStop
    BY <2>4, StopKeeps DEF OptStop, Kept
  <2>5. QED
    BY <2>1, <2>2, <2>3, <2>4 DEF OptNext
<1>2. SimInv /\ [SimNext]_simVars => [Stays]_simVars
  BY <1>1
<1>3. SimSpec => [][Stays]_simVars
  BY <1>2, SimInvariance, PTL DEF SimSpec
<1>4. QED
  BY <1>3 DEF OnlyFirstFrameChanges

-----------------------------------------------------------------------------
\* The second chance.  Ahead(f, g): the hand, which skips the first frame, gets to
\* frame f before it gets to g again.
Ahead(f, g) == IF g < clock THEN f >= clock \/ f < g
                            ELSE f >= clock /\ f < g

\* While there is a page that was not referenced when the search began, every page
\* the search has cleared since has such a page in front of it.
SweepInv ==
    alg = "clock" /\ pc = "evict" =>
        /\ referenced \subseteq before
        /\ (\E f \in Frame \ {0} : coremap[f] \notin before) =>
            \A g \in Frame \ {0} : coremap[g] \in before \ referenced =>
                \E f \in Frame \ {0} : Ahead(f, g) /\ coremap[f] \notin before

\* Two frames never hold the same page.
LEMMA FramesDiffer ==
    ASSUME IInv, pc = "evict", NEW f \in Frame, NEW g \in Frame, coremap[f] = coremap[g]
    PROVE  f = g
  BY VictimFacts

LEMMA SweepStep ==
    ASSUME IInv, ClockInv, SweepInv, alg = "clock", UNCHANGED alg, ClockNext
    PROVE  SweepInv'
<1>1. CASE pc' # "evict"
  BY <1>1 DEF SweepInv
<1>2. CASE ClockReference
  <2>1. CASE \E p \in Page, t \in AccessType : Hit(p, t) \/ MissFree(p, t)
    BY <1>1, <2>1 DEF Hit, MissFree, NextLine
  <2>2. CASE before' = referenced /\ UNCHANGED referenced
    BY <2>2 DEF SweepInv
  <2>3. QED
    BY <1>2, <2>1, <2>2 DEF ClockReference
<1>3. CASE ClockPass
  <2>1. /\ pc = "evict" /\ clock \in Frame /\ clock' = clock + 1
        /\ coremap[clock] \in referenced
        /\ referenced' = referenced \ {coremap[clock]}
        /\ UNCHANGED <<coremap, before>>
    BY <1>3, MemSizeAssumption DEF ClockPass, Cleared, ClockInv, Frame, vars
  <2>2. referenced \subseteq before /\ coremap[clock] \in before
    BY <2>1 DEF SweepInv
  <2>3. ASSUME NEW h \in Frame \ {0}, coremap[h] \notin before,
               NEW g \in Frame \ {0}, coremap[g] \in before \ referenced'
        PROVE  \E f \in Frame \ {0} : Ahead(f, g)' /\ coremap[f] \notin before
    <3>1. CASE g = clock
      <4>1. h # clock
        BY <2>2, <2>3
      <4>2. Ahead(h, g)'
        BY <2>1, <3>1, <4>1 DEF Ahead, Frame
      <4>3. QED
        BY <2>3, <4>2
    <3>2. CASE g # clock
      <4>1. coremap[g] \in before \ referenced
        BY <2>1, <2>3, <3>2, FramesDiffer
      <4>2. PICK f \in Frame \ {0} : Ahead(f, g) /\ coremap[f] \notin before
        BY <2>1, <2>3, <4>1 DEF SweepInv
      <4>3. f # clock
        BY <2>2, <4>2
      <4>4. Ahead(f, g)'
        BY <2>1, <3>2, <4>2, <4>3 DEF Ahead, Frame
      <4>5. QED
        BY <4>2, <4>4
    <3>3. QED
      BY <3>1, <3>2
  <2>4. QED
    BY <2>1, <2>2, <2>3 DEF SweepInv
<1>4. CASE ClockWrap
  <2>1. /\ pc = "evict" /\ clock = MemSize /\ clock' = 1
        /\ UNCHANGED <<coremap, before, referenced>>
    BY <1>4, MemSizeAssumption DEF ClockWrap, WrappedHand, ClockInv, vars
  <2>2. \A f, g \in Frame \ {0} : Ahead(f, g) => Ahead(f, g)'
    BY <2>1, MemSizeAssumption DEF Ahead, Frame
  <2>3. QED
    BY <2>1, <2>2 DEF SweepInv
<1>5. CASE ClockEvict
  BY <1>1, <1>5 DEF ClockEvict, Evict, EvictClean, EvictDirty, Serve
<1>6. CASE ClockStop
  BY <1>1, <1>6 DEF ClockStop, Fail, SwapFull, SwapIOFails, Exit, EndOfTrace,
                    Stopped, vars
<1>7. QED
  BY <1>2, <1>3, <1>4, <1>5, <1>6 DEF ClockNext

LEMMA SweepInvStep == SimInv /\ SweepInv /\ [SimNext]_simVars => SweepInv'
<1> SUFFICES ASSUME SimInv, SweepInv, [SimNext]_simVars PROVE SweepInv'
  OBVIOUS
<1>1. CASE alg' # "clock"
  BY <1>1 DEF SweepInv
<1>2. CASE alg = "clock" /\ alg' = alg /\ SimNext
  BY <1>2, SweepStep DEF SimInv, PolicyInv, SimNext
<1>3. CASE UNCHANGED simVars
  <2>1. UNCHANGED <<alg, pc, coremap, clock, referenced, before>>
    BY <1>3 DEF simVars, clockState, vars
  <2>2. QED
    BY <2>1 DEF SweepInv, Ahead
<1>4. QED
  BY <1>1, <1>2, <1>3 DEF SimNext

\* The second chance of clock_evict, for any number of frames: while some frame but
\* the first holds a page that was not referenced when the search began, the victim
\* is such a page, although the search itself clears PG_REF on its way round.
THEOREM ClockGivesSecondChance == SimSpec => []SecondChanceButFirst
<1>1. ASSUME SimInv, SweepInv, alg = "clock", pc = "evict", ClockFound,
             \E f \in Frame \ {0} : coremap[f] \notin before
      PROVE  VictimPage \notin before
  <2>1. clock \in Frame \ {0}
    BY <1>1, ClockVictim DEF SimInv, PolicyInv
  <2>2. SUFFICES ASSUME coremap[clock] \in before PROVE FALSE
    BY DEF VictimPage
  <2>3. coremap[clock] \in before \ referenced
    BY <1>1, <2>2 DEF ClockFound
  <2>4. PICK f \in Frame \ {0} : Ahead(f, clock)
    BY <1>1, <2>1, <2>3 DEF SweepInv
  <2>5. QED
    BY <2>1, <2>4 DEF Ahead, Frame
<1>2. ASSUME SimInv, alg # "clock"
      PROVE  VictimPage \notin before
  BY <1>2 DEF SimInv, PolicyInv, ClockInv
<1>3. SimInv /\ SweepInv => SecondChanceButFirst
  BY <1>1, <1>2 DEF SecondChanceButFirst, SecondChanceAmong
<1>4. SimInit => SweepInv
  BY DEF SimInit, FifoInit, Init, SweepInv
<1>5. QED
  BY <1>3, <1>4, SimInvariance, SweepInvStep, PTL DEF SimSpec

-----------------------------------------------------------------------------
\* First-in first-out.  Under fifo the lowest n frames are in use, and the index
\* does not move before all of them are.
FifoOrder(n) == Used = 0 .. n - 1 /\ (n < MemSize => ind = 0)

FifoOrderInv == alg = "fifo" => \E n \in 0 .. MemSize : FifoOrder(n)

\* The frame the k-th page after the index is in.
LEMMA RoundTheFrames ==
    ASSUME NEW k \in 0 .. 2 * MemSize - 1
    PROVE  k % MemSize = IF k < MemSize THEN k ELSE k - MemSize
  BY MemSizeAssumption

LEMMA LoadOrder ==
    ASSUME alg = "fifo", NEW n \in 0 .. MemSize, Used = 0 .. n - 1
    PROVE  InLoadOrder = [i \in 1 .. n |-> coremap[(ind + i - 1) % MemSize]]
<1>1. Cardinality(0 .. n - 1) = n
  <2>1. n \in Nat
    BY MemSizeAssumption
  <2>2. QED
    BY <2>1, FS_Interval
<1>2. QED
  BY <1>1 DEF InLoadOrder, Used

\* The frame of the i-th oldest page is in use.
LEMMA LoadOrderInUse ==
    ASSUME IInv, ind \in Frame, NEW n \in 0 .. MemSize, FifoOrder(n), NEW i \in 1 .. n
    PROVE  /\ (ind + i - 1) % MemSize \in Frame
           /\ coremap[(ind + i - 1) % MemSize] # NoPage
           /\ coremap[(ind + i - 1) % MemSize] \in Page
<1>1. ind + i - 1 \in 0 .. 2 * MemSize - 1
  BY MemSizeAssumption DEF Frame
<1>2. (ind + i - 1) % MemSize \in 0 .. n - 1
  <2>1. CASE n < MemSize
    <3>1. ind = 0
      BY <2>1 DEF FifoOrder
    <3>2. ind + i - 1 \in 0 .. n - 1 /\ ind + i - 1 < MemSize
      BY <2>1, <3>1, MemSizeAssumption
    <3>3. QED
      BY <1>1, <3>2, RoundTheFrames
  <2>2. CASE n = MemSize
    BY <1>1, <2>2, RoundTheFrames, MemSizeAssumption DEF Frame
  <2>3. QED
    BY <2>1, <2>2, MemSizeAssumption
<1>3. (ind + i - 1) % MemSize \in Used
  BY <1>2 DEF FifoOrder
<1>4. QED
  BY <1>3 DEF Used, FreeFrames, IInv, MemoryInv, MemoryType

LEMMA LoadOrderIsSeq ==
    ASSUME IInv, ind \in Frame, alg = "fifo", NEW n \in 0 .. MemSize, FifoOrder(n)
    PROVE  /\ InLoadOrder \in Seq(Page)
           /\ Len(InLoadOrder) = n
           /\ \A i \in 1 .. n : InLoadOrder[i] = coremap[(ind + i - 1) % MemSize]
           /\ \A p \in Page : ~pgtbl[p].valid => p \notin Queue!Resident
<1>1. InLoadOrder = [i \in 1 .. n |-> coremap[(ind + i - 1) % MemSize]]
  BY LoadOrder DEF FifoOrder
<1>2. \A i \in 1 .. n : coremap[(ind + i - 1) % MemSize] \in Page
  BY LoadOrderInUse
<1>3. n \in Nat
  BY MemSizeAssumption
<1>4. InLoadOrder \in [1 .. n -> Page]
  BY <1>1, <1>2
<1>5. InLoadOrder \in Seq(Page) /\ Len(InLoadOrder) = n
  BY <1>3, <1>4, SeqDef, LenProperties
<1>6. ASSUME NEW p \in Page, ~pgtbl[p].valid, p \in Queue!Resident
      PROVE  FALSE
  <2>1. PICK i \in 1 .. n : p = coremap[(ind + i - 1) % MemSize]
    BY <1>1, <1>6 DEF Queue!Resident
  <2>2. QED
    BY <1>6, <2>1, LoadOrderInUse DEF IInv, MemoryInv, Mapping
<1>7. QED
  BY <1>1, <1>5, <1>6

\* The same, as a formula that holds before and after a step.
LoadOrdered(n) ==
    /\ InLoadOrder \in Seq(Page)
    /\ Len(InLoadOrder) = n
    /\ \A i \in 1 .. n : InLoadOrder[i] = coremap[(ind + i - 1) % MemSize]

OrderHolds ==
    IInv /\ ind \in Frame /\ alg = "fifo" =>
        \A n \in 0 .. MemSize : FifoOrder(n) => LoadOrdered(n)

LEMMA OrderAlwaysHolds == OrderHolds
  BY LoadOrderIsSeq DEF OrderHolds, LoadOrdered

\* A page loaded into the lowest free frame goes to the end of the queue.
LEMMA LoadAppends ==
    ASSUME IInv, IInv', alg = "fifo", alg' = alg, ind \in Frame, ind' = ind,
           NEW n \in 0 .. MemSize, FifoOrder(n),
           NEW p \in Page, NEW t \in AccessType, MissFree(p, t)
    PROVE  /\ Queue!Fill(p)
           /\ \E m \in 0 .. MemSize : FifoOrder(m)'
<1>1. MemoryType(pgtbl, coremap, physmem, swapmap, swapfile)
  BY DEF IInv, MemoryInv
<1>2. PICK f \in Frame : FirstFree(f) /\ coremap' = [coremap EXCEPT ![f] = p]
  BY DEF MissFree
<1>3. n \in Nat /\ Used = 0 .. n - 1
  BY MemSizeAssumption DEF FifoOrder
<1>4. f = n /\ n < MemSize
  <2>1. f \notin 0 .. n - 1
    BY <1>2, <1>3 DEF FirstFree, Used
  <2>2. f >= n /\ n < MemSize
    BY <1>3, <2>1, MemSizeAssumption DEF Frame
  <2>3. n \in FreeFrames
    BY <1>3, <2>2, MemSizeAssumption DEF Used, Frame
  <2>4. QED
    BY <1>2, <1>3, <2>2, <2>3 DEF FirstFree, Frame
<1>5. Used' = 0 .. n
  <2>1. Used' = Used \union {n}
    BY <1>1, <1>2, <1>4, NoPageAssumption DEF Used, FreeFrames, MemoryType
  <2>2. QED
    BY <1>3, <2>1
<1>6. ind = 0 /\ FifoOrder(n + 1)' /\ n + 1 \in 0 .. MemSize
  BY <1>3, <1>4, <1>5, MemSizeAssumption DEF FifoOrder
<1>7. /\ InLoadOrder \in Seq(Page) /\ Len(InLoadOrder) = n
      /\ \A i \in 1 .. n : InLoadOrder[i] = coremap[(ind + i - 1) % MemSize]
      /\ p \notin Queue!Resident
  <2>1. ~pgtbl[p].valid
    BY DEF MissFree
  <2>2. QED
    BY <2>1, LoadOrderIsSeq
<1>8. /\ InLoadOrder' \in Seq(Page) /\ Len(InLoadOrder') = n + 1
      /\ \A i \in 1 .. n + 1 : InLoadOrder'[i] = coremap'[(ind + i - 1) % MemSize]
  <2>1. OrderHolds'
    BY OrderAlwaysHolds, PTL
  <2>2. LoadOrdered(n + 1)'
    BY <1>6, <2>1 DEF OrderHolds
  <2>3. QED
    BY <2>2 DEF LoadOrdered
<1>9. InLoadOrder' = Append(InLoadOrder, p)
  <2>1. \A i \in 1 .. n + 1 : InLoadOrder'[i] = coremap'[i - 1]
    <3> TAKE i \in 1 .. n + 1
    <3>1. (ind + i - 1) % MemSize = i - 1
      BY <1>3, <1>4, <1>6, RoundTheFrames, MemSizeAssumption
    <3>2. QED
      BY <1>8, <3>1
  <2>2. \A i \in 1 .. n : InLoadOrder[i] = coremap[i - 1]
    <3> TAKE i \in 1 .. n
    <3>1. (ind + i - 1) % MemSize = i - 1
      BY <1>3, <1>4, <1>6, RoundTheFrames, MemSizeAssumption
    <3>2. QED
      BY <1>7, <3>1
  <2>3. coremap'[n] = p /\ \A i \in 1 .. n : coremap'[i - 1] = coremap[i - 1]
    BY <1>1, <1>2, <1>3, <1>4 DEF MemoryType, Frame
  <2>4. /\ Append(InLoadOrder, p) \in Seq(Page)
        /\ Len(Append(InLoadOrder, p)) = n + 1
        /\ \A i \in 1 .. n : Append(InLoadOrder, p)[i] = InLoadOrder[i]
        /\ Append(InLoadOrder, p)[n + 1] = p
    BY <1>7, AppendProperties
  <2>5. \A i \in 1 .. n + 1 : InLoadOrder'[i] = Append(InLoadOrder, p)[i]
    <3> TAKE i \in 1 .. n + 1
    <3>1. CASE i = n + 1
      BY <1>3, <2>1, <2>3, <2>4, <3>1
    <3>2. CASE i \in 1 .. n
      BY <2>1, <2>2, <2>3, <2>4, <3>2
    <3>3. i = n + 1 \/ i \in 1 .. n
      BY <1>3
    <3>4. QED
      BY <3>1, <3>2, <3>3
  <2>6. QED
    BY <1>8, <2>4, <2>5, SeqEqual
<1>10. QED
  BY <1>4, <1>6, <1>7, <1>9 DEF Queue!Fill

\* An eviction takes the page at the head of the queue and puts the page that
\* missed at the end.
LEMMA EvictRotates ==
    ASSUME IInv, IInv', alg = "fifo", alg' = alg, ind \in Frame, ind' = NextInd,
           NEW n \in 0 .. MemSize, FifoOrder(n), Evict(ind)
    PROVE  /\ Queue!Replace(cur.page)
           /\ cur.page \in Page
           /\ FifoOrder(MemSize)'
<1>1. MemoryType(pgtbl, coremap, physmem, swapmap, swapfile)
  BY DEF IInv, MemoryInv
<1>2. pc = "evict"
  BY DEF Evict, EvictClean, EvictDirty
<1>3. /\ coremap' = [coremap EXCEPT ![ind] = cur.page]
      /\ cur.page \in Page /\ ~pgtbl[cur.page].valid
  <2>1. cur.page \in Page /\ ~pgtbl[cur.page].valid
    BY <1>2, VictimFacts
  <2>2. QED
    BY <2>1 DEF Evict, EvictClean, EvictDirty, Serve
<1>4. MemSize \in Nat \ {0} /\ n \in Nat
  BY MemSizeAssumption
<1>5. Used = Frame /\ Used' = Frame
  <2>1. FreeFrames = {}
    BY <1>2 DEF IInv, ServingMiss
  <2>2. FreeFrames' = {}
    BY <1>1, <1>3, <2>1, NoPageAssumption DEF FreeFrames, MemoryType
  <2>3. QED
    BY <2>1, <2>2 DEF Used
<1>6. n = MemSize
  <2>1. MemSize - 1 \in Used
    BY <1>4, <1>5 DEF Frame
  <2>2. MemSize - 1 \in 0 .. n - 1
    BY <2>1 DEF FifoOrder
  <2>3. QED
    BY <1>4, <2>2
<1>7. FifoOrder(MemSize)'
  BY <1>4, <1>5 DEF FifoOrder, Frame
<1>8. ind' \in Frame
  BY <1>4 DEF NextInd, Frame
<1>9. /\ LoadOrdered(MemSize)
      /\ cur.page \notin Queue!Resident
  BY <1>3, <1>6, LoadOrderIsSeq DEF LoadOrdered
<1>10. /\ InLoadOrder' \in Seq(Page) /\ Len(InLoadOrder') = MemSize
       /\ \A i \in 1 .. MemSize :
            InLoadOrder'[i] = coremap'[(ind' + i - 1) % MemSize]
  <2>1. OrderHolds'
    BY OrderAlwaysHolds, PTL
  <2>2. LoadOrdered(MemSize)'
    BY <1>4, <1>7, <1>8, <2>1 DEF OrderHolds
  <2>3. QED
    BY <2>2 DEF LoadOrdered
<1>11. InLoadOrder' = Append(Tail(InLoadOrder), cur.page)
  <2>1. InLoadOrder \in Seq(Page) /\ Len(InLoadOrder) = MemSize
        /\ \A i \in 1 .. MemSize : InLoadOrder[i] = coremap[(ind + i - 1) % MemSize]
    BY <1>9 DEF LoadOrdered
  <2>2. /\ Tail(InLoadOrder) \in Seq(Page)
        /\ Len(Tail(InLoadOrder)) = MemSize - 1
        /\ \A i \in 1 .. MemSize - 1 : Tail(InLoadOrder)[i] = InLoadOrder[i + 1]
    <3>1. InLoadOrder # << >>
      BY <1>4, <2>1, EmptySeq
    <3>2. QED
      BY <2>1, <3>1, HeadTailProperties
  <2> DEFINE after == Append(Tail(InLoadOrder), cur.page)
  <2>3. /\ after \in Seq(Page)
        /\ Len(after) = MemSize
        /\ \A i \in 1 .. MemSize - 1 : after[i] = InLoadOrder[i + 1]
        /\ after[MemSize] = cur.page
    BY <1>3, <1>4, <2>2, AppendProperties
  <2>4. ASSUME NEW i \in 1 .. MemSize
        PROVE  InLoadOrder'[i] = after[i]
    <3>1. ind' = IF ind + 1 < MemSize THEN ind + 1 ELSE 0
      <4>1. ind + 1 \in 0 .. 2 * MemSize - 1
        BY <1>4 DEF Frame
      <4>2. (ind + 1) % MemSize = IF ind + 1 < MemSize THEN ind + 1
                                                     ELSE ind + 1 - MemSize
        BY <1>4, <1>8, <4>1, RoundTheFrames DEF Frame
      <4>3. ind + 1 < MemSize \/ ind + 1 = MemSize
        BY <1>4 DEF Frame
      <4>4. QED
        BY <1>4, <4>2, <4>3 DEF NextInd
    <3>2. (ind' + i - 1) % MemSize
            = IF ind' + i - 1 < MemSize THEN ind' + i - 1 ELSE ind' + i - 1 - MemSize
      <4>1. ind' + i - 1 \in 0 .. 2 * MemSize - 1
        BY <1>4, <1>8 DEF Frame
      <4>2. QED
        BY <1>4, <1>8, <4>1, RoundTheFrames DEF Frame
    <3>3. CASE i = MemSize
      <4>1. (ind' + i - 1) % MemSize = ind
        BY <1>4, <3>1, <3>2, <3>3 DEF Frame
      <4>2. coremap'[ind] = cur.page
        BY <1>1, <1>3 DEF MemoryType
      <4>3. QED
        BY <1>10, <2>3, <3>3, <4>1, <4>2
    <3>4. CASE i # MemSize
      <4>1. i \in 1 .. MemSize - 1 /\ i + 1 \in 1 .. MemSize
        BY <1>4, <3>4
      <4>2. (ind + (i + 1) - 1) % MemSize
              = IF ind + i < MemSize THEN ind + i ELSE ind + i - MemSize
        <5>1. ind + i \in 0 .. 2 * MemSize - 1 /\ ind + (i + 1) - 1 = ind + i
          BY <1>4, <4>1 DEF Frame
        <5>2. QED
          BY <1>4, <5>1, RoundTheFrames DEF Frame
      <4>3. /\ (ind' + i - 1) % MemSize = (ind + (i + 1) - 1) % MemSize
            /\ (ind' + i - 1) % MemSize \in Frame \ {ind}
        BY <1>4, <3>1, <3>2, <4>1, <4>2 DEF Frame
      <4>4. coremap'[(ind' + i - 1) % MemSize] = coremap[(ind + (i + 1) - 1) % MemSize]
        BY <1>1, <1>3, <4>3 DEF MemoryType
      <4>5. after[i] = coremap[(ind + (i + 1) - 1) % MemSize]
        BY <2>1, <2>3, <4>1
      <4>6. QED
        BY <1>10, <4>4, <4>5
    <3>5. QED
      BY <3>3, <3>4
  <2>5. QED
    BY <1>10, <2>3, <2>4, SeqEqual
<1>12. QED
  BY <1>3, <1>7, <1>9, <1>11 DEF Queue!Replace, LoadOrdered

\* A step of the fifo simulator is a step of the queue, or leaves it alone.
LEMMA FifoRefines ==
    ASSUME SimInv, SimInv', alg = "fifo", alg' = alg, FifoNext,
           NEW n \in 0 .. MemSize, FifoOrder(n)
    PROVE  /\ Queue!Next \/ UNCHANGED InLoadOrder
           /\ \E m \in 0 .. MemSize : FifoOrder(m)'
<1>0. IInv /\ IInv' /\ ind \in Frame
  BY DEF SimInv, PolicyInv, FifoInv
<1>1. ASSUME UNCHANGED <<coremap, ind>>
      PROVE  UNCHANGED InLoadOrder /\ FifoOrder(n)'
  BY <1>1 DEF InLoadOrder, FreeFrames, FifoOrder, Used
<1>2. CASE Reference /\ UNCHANGED ind
  <2>1. PICK p \in Page, t \in AccessType : Hit(p, t) \/ MissFree(p, t) \/ MissFull(p, t)
    BY <1>2 DEF Reference
  <2>2. CASE Hit(p, t) \/ MissFull(p, t)
    BY <1>1, <1>2, <2>2 DEF Hit, MissFull
  <2>3. CASE MissFree(p, t)
    BY <1>0, <1>2, <2>3, LoadAppends DEF Queue!Next
  <2>4. QED
    BY <2>1, <2>2, <2>3
<1>3. CASE FifoEvict
  <2>1. Evict(ind) /\ ind' = NextInd
    BY <1>3 DEF FifoEvict, FifoVictim
  <2>2. Queue!Replace(cur.page) /\ cur.page \in Page /\ FifoOrder(MemSize)'
    BY <1>0, <2>1, EvictRotates
  <2>3. MemSize \in 0 .. MemSize
    BY MemSizeAssumption
  <2>4. QED
    BY <2>2, <2>3 DEF Queue!Next
<1>4. CASE (Fail(FifoVictim) \/ EndOfTrace \/ Stopped) /\ UNCHANGED ind
  BY <1>1, <1>4, StopKeeps DEF Kept
<1>5. QED
  BY <1>2, <1>3, <1>4 DEF FifoNext

\* When another policy runs there is nothing in the queue.
LEMMA NoQueue == alg # "fifo" => InLoadOrder = << >>
<1> SUFFICES ASSUME alg # "fifo" PROVE InLoadOrder = << >>
  OBVIOUS
<1>1. InLoadOrder = [i \in 1 .. 0 |-> coremap[(ind + i - 1) % MemSize]]
  BY DEF InLoadOrder
<1>2. InLoadOrder \in [1 .. 0 -> {}]
  BY <1>1
<1>3. InLoadOrder \in Seq({}) /\ Len(InLoadOrder) = 0
  BY <1>2, SeqDef, LenProperties
<1>4. QED
  BY <1>3, EmptySeq

QueueIsEmpty == alg # "fifo" => InLoadOrder = << >>

LEMMA RefineStep ==
    SimInv /\ SimInv' /\ FifoOrderInv /\ QueueIsEmpty /\ QueueIsEmpty' /\ [SimNext]_simVars
        => [Queue!Next]_InLoadOrder /\ FifoOrderInv'
<1> SUFFICES ASSUME SimInv, SimInv', FifoOrderInv, QueueIsEmpty, QueueIsEmpty',
                    [SimNext]_simVars
             PROVE  [Queue!Next]_InLoadOrder /\ FifoOrderInv'
  OBVIOUS
<1>1. CASE UNCHANGED simVars
  <2>1. UNCHANGED <<alg, coremap, ind>>
    BY <1>1 DEF simVars, fifoState, vars
  <2>2. UNCHANGED InLoadOrder
    BY <2>1 DEF InLoadOrder, FreeFrames
  <2>3. FifoOrderInv'
    BY <2>1 DEF FifoOrderInv, FifoOrder, Used, FreeFrames
  <2>4. QED
    BY <2>2, <2>3
<1>2. CASE alg # "fifo" /\ alg' = alg
  BY <1>2 DEF QueueIsEmpty, FifoOrderInv
<1>3. CASE alg = "fifo" /\ alg' = alg /\ FifoNext
  <2>1. PICK n \in 0 .. MemSize : FifoOrder(n)
    BY <1>3 DEF FifoOrderInv
  <2>2. /\ Queue!Next \/ UNCHANGED InLoadOrder
        /\ \E m \in 0 .. MemSize : FifoOrder(m)'
    BY <1>3, <2>1, FifoRefines
  <2>3. QED
    BY <2>2 DEF FifoOrderInv
<1>4. QED
  BY <1>1, <1>2, <1>3 DEF SimNext

LEMMA RefineInit == SimInit => Queue!Init /\ FifoOrderInv
<1> SUFFICES ASSUME SimInit PROVE Queue!Init /\ FifoOrderInv
  OBVIOUS
<1>1. ind = 0 /\ Used = {}
  BY DEF SimInit, FifoInit, Init, Used, FreeFrames
<1>2. 0 \in 0 .. MemSize /\ 0 .. 0 - 1 = {}
  BY MemSizeAssumption
<1>3. FifoOrder(0)
  BY <1>1, <1>2 DEF FifoOrder
<1>4. InLoadOrder = << >>
  <2>1. CASE alg = "fifo"
    <3>1. 0 \in 0 .. MemSize /\ ind \in Frame /\ IInv
      BY <1>1, <1>2, FirstFrame, SimInitInv DEF SimInv
    <3>2. InLoadOrder \in Seq(Page) /\ Len(InLoadOrder) = 0
      BY <1>3, <2>1, <3>1, LoadOrderIsSeq
    <3>3. QED
      BY <3>2, EmptySeq
  <2>2. CASE alg # "fifo"
    BY <2>2, NoQueue
  <2>3. QED
    BY <2>1, <2>2
<1>5. QED
  BY <1>2, <1>3, <1>4 DEF Queue!Init, FifoOrderInv

\* fifo.c is first-in first-out for any number of frames: the frames, read from the
\* index on, are the queue of FifoQueue; an eviction takes the page at its head and
\* every miss puts a page at its end.
THEOREM FifoImplementsQueue == SimSpec => EvictsOldest
<1>1. QueueIsEmpty
  BY NoQueue DEF QueueIsEmpty
<1>2. QED
  BY <1>1, RefineInit, RefineStep, SimInvariance, PTL
     DEF SimSpec, EvictsOldest, Queue!Spec
=============================================================================
