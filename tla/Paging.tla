------------------------------- MODULE Paging -------------------------------
(***************************************************************************)
(* The demand-paging simulator of Assignment2/starter: the reference loop  *)
(* of sim.c, the page table of pagetable.c and the swap file of swap.c,    *)
(* with a page replacement policy that may pick any frame (rand.c, whose   *)
(* victim is random() % memsize).  PagingFifo, PagingClock, PagingLru and  *)
(* PagingOpt replace only the choice of the victim.                        *)
(*                                                                         *)
(* A page stands for a page-aligned virtual address, the form the reduced  *)
(* traces have.  The two levels of the page table are one function: a      *)
(* second-level table is created with exactly the entries FreshEntry the   *)
(* moment one of its pages is first referenced.  PG_REF is left to         *)
(* PagingClock, the only policy that reads it.                             *)
(***************************************************************************)
EXTENDS Integers, FiniteSets

CONSTANTS
    Page,       \* the virtual pages of the trace
    NoPage,     \* coremap[f].in_use = 0
    MemSize,    \* memsize: the number of frames
    SwapSize,   \* swapsize: the number of slots of the swap file
    AccessType, \* the access types of the trace lines, among I, L, S and M
    MaxRefs     \* bound of the model: the length of the longest trace

ASSUME NoPageAssumption     == NoPage \notin Page
ASSUME MemSizeAssumption    == MemSize \in Nat \ {0}
ASSUME SwapSizeAssumption   == SwapSize \in Nat
ASSUME AccessTypeAssumption == AccessType \subseteq {"I", "L", "S", "M"}
ASSUME MaxRefsAssumption    == MaxRefs \in Nat

Frame == 0 .. MemSize - 1
Slot  == 0 .. SwapSize - 1
INVALID_SWAP == -1

\* Stores and modifications write to the page; fetches and loads do not.
Writes(t) == t \in {"S", "M"}

VARIABLES
    pgtbl,      \* page table entry of every page
    coremap,    \* the page a frame holds, or NoPage
    physmem,    \* what a frame contains: the address and version stored in it
    swapmap,    \* the allocated slots of the swap file
    swapfile,   \* the frame contents written to each slot
    count,      \* the event counters
    pc,         \* "ready": next trace line; "evict": evict_fcn is running
    cur         \* the reference being served while pc = "evict"

vars == <<pgtbl, coremap, physmem, swapmap, swapfile, count, pc, cur>>

Content == [addr : Page \union {NoPage}, version : Nat]
Entry == [frame : Frame, valid : BOOLEAN, dirty : BOOLEAN,
          onswap : BOOLEAN, swap_off : Slot \union {INVALID_SWAP}]
Counters == [hit : Nat, miss : Nat, ref : Nat, clean : Nat, dirty : Nat]

-----------------------------------------------------------------------------
\* Contents of frames.  Unset is a frame or slot nobody has written yet.
Unset == [addr |-> NoPage, version |-> 0]
ZeroFilled(p) == [addr |-> p, version |-> 0]
Written(c, t) == [c EXCEPT !.version = IF Writes(t) THEN @ + 1 ELSE @]

\* Mutation of FreshEntry: the number of slots stands for "no slot".
FreshEntryNoMarker == [frame |-> 0, valid |-> FALSE, dirty |-> FALSE,
                       onswap |-> FALSE, swap_off |-> SwapSize]

\* Entries of the page table.
FreshEntry == [frame |-> 0, valid |-> FALSE, dirty |-> FALSE,
               onswap |-> FALSE, swap_off |-> INVALID_SWAP]

\* Mutation of Touched: a store to a page in memory does not mark it dirty.
TouchedStaysClean(e, t) == e

\* The hit path keeps the entry and at most sets PG_DIRTY ...
Touched(e, t) == [e EXCEPT !.dirty = @ \/ Writes(t)]

\* Mutation of Loaded: the miss path keeps PG_ONSWAP.
LoadedStillOnSwap(e, f, t) == [e EXCEPT !.frame = f, !.valid = TRUE, !.dirty = Writes(t)]

\* ... the miss path overwrites the whole word, so PG_ONSWAP and PG_DIRTY are
\* cleared before PG_VALID and PG_DIRTY are set; swap_off is a field of its own.
Loaded(e, f, t) == [e EXCEPT !.frame = f, !.valid = TRUE,
                             !.onswap = FALSE, !.dirty = Writes(t)]

\* Mutation of CleanVictim: PG_VALID is not cleared.
CleanVictimStaysValid(e) == e

\* Mutation of DirtyVictim: the slot is not stored in the entry.
DirtyVictimForgetsSlot(e, s) == [e EXCEPT !.valid = FALSE, !.dirty = FALSE, !.onswap = TRUE]

\* What allocate_frame leaves in the entry of a victim.
CleanVictim(e) == [e EXCEPT !.valid = FALSE]
DirtyVictim(e, s) == [e EXCEPT !.valid = FALSE, !.dirty = FALSE,
                               !.onswap = TRUE, !.swap_off = s]

\* Mutation of NeedsPageOut: a page that has a slot is taken to be saved in it.
NeedsPageOutOnce(e) == e.dirty /\ e.swap_off = INVALID_SWAP

\* allocate_frame pages out a dirty victim unless it is marked as on swap.
NeedsPageOut(e) == e.dirty /\ ~e.onswap

\* allocate_frame looks for the first frame that is not in use.
FreeFrames == {f \in Frame : coremap[f] = NoPage}
FirstFree(f) == f \in FreeFrames /\ \A g \in FreeFrames : f <= g

\* bitmap_alloc returns the lowest clear bit of swapmap.
FirstSlot(s) == s \in Slot \ swapmap /\ \A r \in Slot \ swapmap : s <= r

\* swap_pageout writes to the slot the page has, or to a newly allocated one.
PageOutSlot(v, s) == IF pgtbl[v].swap_off = INVALID_SWAP
                     THEN FirstSlot(s)
                     ELSE s = pgtbl[v].swap_off

\* Mutation of Fill: init_frame is not called.
FillWithoutInit(p, e, sw) == IF e.onswap THEN sw[e.swap_off] ELSE Unset

\* What the miss path puts into the frame of page p with entry e: the slot of
\* the swap file sw that swap_pagein reads, or what init_frame leaves.
Fill(p, e, sw) == IF e.onswap THEN sw[e.swap_off] ELSE ZeroFilled(p)

\* No reference has been read yet.
NoReference == [page |-> NoPage, type |-> "none"]

\* Mutation of Counted: misses are not counted.
CountedWithoutMisses(c, field) == IF field = "miss" THEN c ELSE [c EXCEPT ![field] = @ + 1]

Counted(c, field) == [c EXCEPT ![field] = @ + 1]

-----------------------------------------------------------------------------
\* calloc of the coremap, swap_init and init_pagetable.
Init ==
    /\ pgtbl    = [p \in Page |-> FreshEntry]
    /\ coremap  = [f \in Frame |-> NoPage]
    /\ physmem  = [f \in Frame |-> Unset]
    /\ swapmap  = {}
    /\ swapfile = [s \in Slot |-> Unset]
    /\ count    = [hit |-> 0, miss |-> 0, ref |-> 0, clean |-> 0, dirty |-> 0]
    /\ pc       = "ready"
    /\ cur      = NoReference

\* replay_trace reads the next line; MaxRefs bounds the trace.
NextLine(p, t) ==
    /\ pc = "ready"
    /\ count.ref < MaxRefs
    /\ cur' = [page |-> p, type |-> t]

\* The page is in memory.
Hit(p, t) ==
    /\ NextLine(p, t)
    /\ pgtbl[p].valid
    /\ pgtbl'   = [pgtbl EXCEPT ![p] = Touched(@, t)]
    /\ physmem' = [physmem EXCEPT ![pgtbl[p].frame] = Written(@, t)]
    /\ count'   = Counted(Counted(count, "ref"), "hit")
    /\ UNCHANGED <<coremap, swapmap, swapfile, pc>>

\* The page is not in memory and allocate_frame finds a free frame.
MissFree(p, t) ==
    /\ NextLine(p, t)
    /\ ~pgtbl[p].valid
    /\ \E f \in Frame :
        /\ FirstFree(f)
        /\ pgtbl'   = [pgtbl EXCEPT ![p] = Loaded(@, f, t)]
        /\ coremap' = [coremap EXCEPT ![f] = p]
        /\ physmem' = [physmem EXCEPT ![f] = Written(Fill(p, pgtbl[p], swapfile), t)]
    /\ count' = Counted(Counted(count, "ref"), "miss")
    /\ UNCHANGED <<swapmap, swapfile, pc>>

\* The page is not in memory and no frame is free: evict_fcn is called.
MissFull(p, t) ==
    /\ NextLine(p, t)
    /\ ~pgtbl[p].valid
    /\ FreeFrames = {}
    /\ count' = Counted(Counted(count, "ref"), "miss")
    /\ pc'    = "evict"
    /\ UNCHANGED <<pgtbl, coremap, physmem, swapmap, swapfile>>

\* The rest of find_physpage and access_mem once frame f is free for cur.page:
\* tbl is the page table with the victim already updated, sw the swap file.
Serve(f, tbl, sw) ==
    /\ pgtbl'   = [tbl EXCEPT ![cur.page] = Loaded(@, f, cur.type)]
    /\ coremap' = [coremap EXCEPT ![f] = cur.page]
    /\ physmem' = [physmem EXCEPT ![f] =
                    Written(Fill(cur.page, tbl[cur.page], sw), cur.type)]
    /\ pc'      = "ready"
    /\ UNCHANGED cur

\* evict_fcn returned f and its page need not be saved: the frame is reused.
EvictClean(f) ==
    /\ pc = "evict"
    /\ ~NeedsPageOut(pgtbl[coremap[f]])
    /\ Serve(f, [pgtbl EXCEPT ![coremap[f]] = CleanVictim(@)], swapfile)
    /\ count' = IF pgtbl[coremap[f]].onswap THEN count ELSE Counted(count, "clean")
    /\ UNCHANGED <<swapmap, swapfile>>

\* evict_fcn returned f and its page must be saved: swap_pageout saves it.
EvictDirty(f) ==
    /\ pc = "evict"
    /\ NeedsPageOut(pgtbl[coremap[f]])
    /\ \E s \in Slot :
        /\ PageOutSlot(coremap[f], s)
        /\ swapmap'  = swapmap \union {s}
        /\ swapfile' = [swapfile EXCEPT ![s] = physmem[f]]
        /\ Serve(f, [pgtbl EXCEPT ![coremap[f]] = DirtyVictim(@, s)], swapfile')
    /\ count' = Counted(count, "dirty")

\* exit(-1): the tables go with the process, so only pc changes.
Exit == /\ pc' = "exited"
        /\ UNCHANGED <<pgtbl, coremap, physmem, swapmap, swapfile, count, cur>>

\* bitmap_alloc finds no slot for a dirty victim that never had one.
SwapFull(f) ==
    /\ pc = "evict"
    /\ NeedsPageOut(pgtbl[coremap[f]])
    /\ pgtbl[coremap[f]].swap_off = INVALID_SWAP
    /\ swapmap = Slot
    /\ Exit

\* The lseek, write or read of the swap file fails or is short.
SwapIOFails(f) ==
    /\ pc = "evict"
    /\ NeedsPageOut(pgtbl[coremap[f]]) \/ pgtbl[cur.page].onswap
    /\ Exit

\* The trace ends; main prints the counters.
EndOfTrace ==
    /\ pc = "ready"
    /\ pc' = "done"
    /\ UNCHANGED <<pgtbl, coremap, physmem, swapmap, swapfile, count, cur>>

Stopped == pc \in {"done", "exited"} /\ UNCHANGED vars

Reference == \E p \in Page, t \in AccessType :
                Hit(p, t) \/ MissFree(p, t) \/ MissFull(p, t)

Evict(f) == EvictClean(f) \/ EvictDirty(f)

Fail(f) == SwapFull(f) \/ SwapIOFails(f)

Next == Reference \/ (\E f \in Frame : Evict(f) \/ Fail(f)) \/ EndOfTrace \/ Stopped

Spec == Init /\ [][Next]_vars

-----------------------------------------------------------------------------
\* Every variable holds a value of its C type that the program can produce.
TypeOK ==
    /\ pgtbl \in [Page -> Entry]
    /\ coremap \in [Frame -> Page \union {NoPage}]
    /\ physmem \in [Frame -> Content]
    /\ swapmap \in SUBSET Slot
    /\ swapfile \in [Slot -> Content]
    /\ count \in Counters
    /\ pc \in {"ready", "evict", "done", "exited"}
    /\ cur \in [page : Page, type : AccessType] \union {NoReference}

\* The page table and the coremap are inverse to each other, over any sequence
\* of misses and evictions: a valid entry names the one frame that holds the
\* page, and a frame in use holds a page whose entry is valid.
MappingConsistent ==
    /\ \A p \in Page : pgtbl[p].valid => coremap[pgtbl[p].frame] = p
    /\ \A f \in Frame : coremap[f] # NoPage =>
            pgtbl[coremap[f]].valid /\ pgtbl[coremap[f]].frame = f

\* While evict_fcn runs, the reference it runs for is to a page out of memory and
\* every frame is in use, so "victim frame must hold some page" (pagetable.c:39).
ServingMiss ==
    pc = "evict" => /\ cur \in [page : Page, type : AccessType]
                    /\ ~pgtbl[cur.page].valid
                    /\ FreeFrames = {}

\* access_mem's check (sim.c:54) never reports an error: a resident page finds
\* its own address in its frame, whether it was zero-filled or read from swap.
FrameHoldsItsPage ==
    \A p \in Page : pgtbl[p].valid => physmem[pgtbl[p].frame].addr = p

\* Two pages never share a slot of the swap file, and a slot that was given out
\* holds the content of the page it was given to.
SlotsAreOwned ==
    /\ swapmap = {pgtbl[p].swap_off : p \in Page} \ {INVALID_SWAP}
    /\ \A p, q \in Page : pgtbl[p].swap_off = pgtbl[q].swap_off =>
                            p = q \/ pgtbl[p].swap_off = INVALID_SWAP
    /\ \A p \in Page : pgtbl[p].swap_off # INVALID_SWAP =>
                            swapfile[pgtbl[p].swap_off].addr = p

\* PG_ONSWAP is set only on pages that are out of memory and own a slot, so
\* swap_pagein's assertion (swap.c:193) holds and a slot is never read unwritten.
OnSwapIsOut ==
    \A p \in Page : pgtbl[p].onswap =>
        ~pgtbl[p].valid /\ pgtbl[p].swap_off # INVALID_SWAP

\* Dropping a clean page from memory needs no write: its frame is still as
\* init_frame left it or equals the copy in its slot.
CleanNeedsNoWrite ==
    \A p \in Page : pgtbl[p].valid /\ ~pgtbl[p].dirty =>
        \/ physmem[pgtbl[p].frame] = ZeroFilled(p)
        \/ /\ pgtbl[p].swap_off # INVALID_SWAP
           /\ physmem[pgtbl[p].frame] = swapfile[pgtbl[p].swap_off]

\* The counters main prints are consistent: every reference is a hit or a miss,
\* and every miss but those that filled a free frame evicted exactly one page.
CountersBalance ==
    /\ count.hit + count.miss = count.ref
    /\ count.clean + count.dirty + Cardinality(Frame \ FreeFrames)
         = count.miss - (IF pc \in {"evict", "exited"} THEN 1 ELSE 0)

\* The version of a page a reference would find now: in its frame, on swap, or 0.
Version(p) == IF pgtbl[p].valid THEN physmem[pgtbl[p].frame].version
              ELSE IF pgtbl[p].onswap THEN swapfile[pgtbl[p].swap_off].version
              ELSE 0

\* Data is never lost (pagetable.c:151, "if the entry is invalid and on swap ...
\* filled by reading the page data from swap"): the version of a page never
\* goes back.
VersionsNeverGoBack == [][\A p \in Page : Version(p)' >= Version(p)]_vars

\* When the version of a page does go back, the step is the clean eviction of a
\* page that had been paged in: its data is intact in the slot it still owns,
\* and only PG_ONSWAP is missing.
OnlyPagedInPagesAreLost ==
    [][\A p \in Page : Version(p)' < Version(p) =>
          /\ pgtbl[p].valid /\ ~pgtbl[p].dirty
          /\ ~pgtbl'[p].valid /\ ~pgtbl'[p].onswap
          /\ pgtbl'[p].swap_off # INVALID_SWAP
          /\ swapfile'[pgtbl'[p].swap_off].version = Version(p)]_vars
=============================================================================
