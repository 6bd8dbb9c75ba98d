---------------------------- MODULE PagingProofs ----------------------------
(***************************************************************************)
(* Proofs about Paging, for any set of pages, any number of frames, any    *)
(* size of the swap file and any replacement policy.                       *)
(*                                                                         *)
(* The argument is about memory only.  MemoryInv relates the page table,   *)
(* the coremap, the frames and the swap file.  An eviction is seen as two  *)
(* steps, each of which preserves it: the victim leaves its frame          *)
(* (LeaveClean, LeaveDirty), and the page that missed is loaded into a     *)
(* frame that is now free (Load), exactly as when one had been free.       *)
(***************************************************************************)
EXTENDS Paging, FiniteSetTheorems, TLAPS

MemoryType(tbl, cm, pm, sm, sw) ==
    /\ tbl \in [Page -> Entry]
    /\ cm \in [Frame -> Page \union {NoPage}]
    /\ pm \in [Frame -> Content]
    /\ sm \in SUBSET Slot
    /\ sw \in [Slot -> Content]

Mapping(tbl, cm) ==
    /\ \A p \in Page : tbl[p].valid => cm[tbl[p].frame] = p
    /\ \A f \in Frame : cm[f] # NoPage => tbl[cm[f]].valid /\ tbl[cm[f]].frame = f

Holds(tbl, pm) == \A p \in Page : tbl[p].valid => pm[tbl[p].frame].addr = p

Owned(tbl, sm, sw) ==
    /\ \A s \in Slot : s \in sm <=> \E p \in Page : tbl[p].swap_off = s
    /\ \A p, q \in Page : tbl[p].swap_off = tbl[q].swap_off =>
                            p = q \/ tbl[p].swap_off = INVALID_SWAP
    /\ \A p \in Page : tbl[p].swap_off # INVALID_SWAP => sw[tbl[p].swap_off].addr = p

Out(tbl) == \A p \in Page : tbl[p].onswap =>
                ~tbl[p].valid /\ tbl[p].swap_off # INVALID_SWAP

Clean(tbl, pm, sw) ==
    \A p \in Page : tbl[p].valid /\ ~tbl[p].dirty =>
        \/ pm[tbl[p].frame] = ZeroFilled(p)
        \/ /\ tbl[p].swap_off # INVALID_SWAP
           /\ pm[tbl[p].frame] = sw[tbl[p].swap_off]

MemoryInv(tbl, cm, pm, sm, sw) ==
    /\ MemoryType(tbl, cm, pm, sm, sw)
    /\ Mapping(tbl, cm)
    /\ Holds(tbl, pm)
    /\ Owned(tbl, sm, sw)
    /\ Out(tbl)
    /\ Clean(tbl, pm, sw)

-----------------------------------------------------------------------------
\* A write keeps the address in the frame, and anything else keeps the frame.
LEMMA ContentFields ==
    ASSUME NEW c \in Content, NEW t
    PROVE  /\ Written(c, t) \in Content
           /\ Written(c, t).addr = c.addr
           /\ ~Writes(t) => Written(c, t) = c
  BY DEF Content, Written

LEMMA ZeroFilledContent ==
    ASSUME NEW p \in Page
    PROVE  ZeroFilled(p) \in Content /\ ZeroFilled(p).addr = p
  BY DEF ZeroFilled, Content
-----------------------------------------------------------------------------
\* Loading a page that is out of memory into a free frame.
LEMMA Load ==
    ASSUME NEW tbl, NEW cm, NEW pm, NEW sm, NEW sw,
           MemoryInv(tbl, cm, pm, sm, sw),
           NEW p \in Page, NEW f \in Frame, NEW t,
           ~tbl[p].valid, cm[f] = NoPage
    PROVE  MemoryInv([tbl EXCEPT ![p] = Loaded(@, f, t)],
                     [cm EXCEPT ![f] = p],
                     [pm EXCEPT ![f] = Written(Fill(p, tbl[p], sw), t)],
                     sm, sw)
<1> DEFINE e     == Loaded(tbl[p], f, t)
           c     == Fill(p, tbl[p], sw)
           tbl_1 == [tbl EXCEPT ![p] = e]
           cm_1  == [cm EXCEPT ![f] = p]
           pm_1  == [pm EXCEPT ![f] = Written(c, t)]
<1>1. MemoryType(tbl, cm, pm, sm, sw)
  BY DEF MemoryInv
<1>2. /\ tbl[p] \in Entry
      /\ tbl_1[p] = e
      /\ \A q \in Page \ {p} : tbl_1[q] = tbl[q]
      /\ \A q \in Page : tbl[q].frame \in Frame
      /\ \A q \in Page : tbl[q].swap_off \in Slot \union {INVALID_SWAP}
  BY <1>1 DEF MemoryType, Entry
<1>3. /\ e \in Entry /\ e.frame = f /\ e.valid = TRUE /\ e.onswap = FALSE
      /\ e.dirty = Writes(t) /\ e.swap_off = tbl[p].swap_off
  <2>1. tbl[p] \in Entry
    BY <1>2
  <2>2. Writes(t) \in BOOLEAN
    BY DEF Writes
  <2>3. QED
    BY <2>1, <2>2 DEF Entry, Loaded
<1>4. \A q \in Page : tbl_1[q].swap_off = tbl[q].swap_off
  BY <1>2, <1>3
<1>5. /\ c \in Content
      /\ c.addr = p
      /\ \/ c = ZeroFilled(p)
         \/ tbl[p].swap_off # INVALID_SWAP /\ c = sw[tbl[p].swap_off]
  <2>1. CASE tbl[p].onswap
    <3>1. tbl[p].swap_off \in Slot
      BY <2>1, <1>2 DEF MemoryInv, Out
    <3>2. sw[tbl[p].swap_off].addr = p
      BY <2>1 DEF MemoryInv, Out, Owned
    <3>3. QED
      BY <2>1, <3>1, <3>2, <1>1 DEF MemoryType, Fill, MemoryInv, Out
  <2>2. CASE ~tbl[p].onswap
    BY <2>2, ZeroFilledContent DEF Fill
  <2>3. QED
    BY <2>1, <2>2
<1>6. /\ Written(c, t) \in Content
      /\ Written(c, t).addr = p
      /\ ~Writes(t) => Written(c, t) = c
  BY <1>5, ContentFields
<1>7. MemoryType(tbl_1, cm_1, pm_1, sm, sw)
  BY <1>1, <1>3, <1>6 DEF MemoryType
<1>8. \A q \in Page : tbl[q].valid => tbl[q].frame # f
  BY NoPageAssumption DEF MemoryInv, Mapping
<1>9. /\ cm_1[f] = p
      /\ pm_1[f] = Written(c, t)
      /\ \A g \in Frame \ {f} : cm_1[g] = cm[g] /\ pm_1[g] = pm[g]
  BY <1>1 DEF MemoryType
<1>10. Mapping(tbl_1, cm_1)
  <2>1. ASSUME NEW q \in Page, tbl_1[q].valid
        PROVE  cm_1[tbl_1[q].frame] = q
    BY <2>1, <1>2, <1>3, <1>8, <1>9 DEF MemoryInv, Mapping
  <2>2. ASSUME NEW g \in Frame, cm_1[g] # NoPage
        PROVE  tbl_1[cm_1[g]].valid /\ tbl_1[cm_1[g]].frame = g
    <3>1. CASE g = f
      BY <3>1, <1>2, <1>3, <1>9
    <3>2. CASE g # f
      <4>1. cm[g] \in Page /\ tbl[cm[g]].valid /\ tbl[cm[g]].frame = g
        BY <2>2, <3>2, <1>1, <1>9 DEF MemoryInv, Mapping, MemoryType
      <4>2. cm[g] # p
        BY <4>1
      <4>3. QED
        BY <3>2, <4>1, <4>2, <1>2, <1>9
    <3>3. QED
      BY <3>1, <3>2
  <2>3. QED
    BY <2>1, <2>2 DEF Mapping
<1>11. Holds(tbl_1, pm_1)
  BY <1>2, <1>3, <1>6, <1>8, <1>9 DEF MemoryInv, Holds
<1>12. Owned(tbl_1, sm, sw)
  BY <1>4 DEF MemoryInv, Owned
<1>13. Out(tbl_1)
  BY <1>2, <1>3 DEF MemoryInv, Out
<1>14. Clean(tbl_1, pm_1, sw)
  <2>1. ASSUME NEW q \in Page, tbl_1[q].valid, ~tbl_1[q].dirty
        PROVE  \/ pm_1[tbl_1[q].frame] = ZeroFilled(q)
               \/ /\ tbl_1[q].swap_off # INVALID_SWAP
                  /\ pm_1[tbl_1[q].frame] = sw[tbl_1[q].swap_off]
    <3>1. CASE q = p
      BY <2>1, <3>1, <1>2, <1>3, <1>5, <1>6, <1>9
    <3>2. CASE q # p
      <4>1. tbl_1[q] = tbl[q] /\ tbl[q].frame \in Frame \ {f}
        BY <2>1, <3>2, <1>2, <1>8
      <4>2. QED
        BY <2>1, <4>1, <1>9 DEF MemoryInv, Clean
    <3>3. QED
      BY <3>1, <3>2
  <2>2. QED
    BY <2>1 DEF Clean
<1>15. QED
  BY <1>7, <1>10, <1>11, <1>12, <1>13, <1>14 DEF MemoryInv

\* A page in memory is referenced again.
LEMMA Touch ==
    ASSUME NEW tbl, NEW cm, NEW pm, NEW sm, NEW sw,
           MemoryInv(tbl, cm, pm, sm, sw),
           NEW p \in Page, NEW t,
           tbl[p].valid
    PROVE  MemoryInv([tbl EXCEPT ![p] = Touched(@, t)],
                     cm,
                     [pm EXCEPT ![tbl[p].frame] = Written(@, t)],
                     sm, sw)
<1> DEFINE e     == Touched(tbl[p], t)
           f     == tbl[p].frame
           c     == pm[f]
           tbl_1 == [tbl EXCEPT ![p] = e]
           pm_1  == [pm EXCEPT ![f] = Written(c, t)]
<1>1. MemoryType(tbl, cm, pm, sm, sw)
  BY DEF MemoryInv
<1>2. /\ tbl[p] \in Entry
      /\ tbl_1[p] = e
      /\ \A q \in Page \ {p} : tbl_1[q] = tbl[q]
      /\ \A q \in Page : tbl[q].frame \in Frame
  BY <1>1 DEF MemoryType, Entry
<1>3. /\ e \in Entry /\ e.frame = f /\ e.valid = TRUE
      /\ e.onswap = tbl[p].onswap /\ e.dirty = (tbl[p].dirty \/ Writes(t))
      /\ e.swap_off = tbl[p].swap_off
  <2>1. tbl[p] \in Entry
    BY <1>2
  <2>2. (tbl[p].dirty \/ Writes(t)) \in BOOLEAN
    OBVIOUS
  <2>3. tbl[p].valid = TRUE
    BY <2>1 DEF Entry
  <2>4. QED
    BY <2>1, <2>2, <2>3 DEF Entry, Touched
<1>4. /\ c \in Content
      /\ c.addr = p
  BY <1>1, <1>2 DEF MemoryInv, MemoryType, Holds
<1>5. /\ Written(c, t) \in Content
      /\ Written(c, t).addr = p
      /\ ~Writes(t) => Written(c, t) = c
  BY <1>4, ContentFields
<1>6. /\ pm_1[f] = Written(c, t)
      /\ \A g \in Frame \ {f} : pm_1[g] = pm[g]
  BY <1>1, <1>2 DEF MemoryType
<1>7. \A q \in Page \ {p} : tbl[q].valid => tbl[q].frame # f
  BY DEF MemoryInv, Mapping
<1>8. MemoryType(tbl_1, cm, pm_1, sm, sw)
  BY <1>1, <1>3, <1>5 DEF MemoryType
<1>9. Mapping(tbl_1, cm)
  <2>1. \A q \in Page : tbl_1[q].valid = tbl[q].valid /\ tbl_1[q].frame = tbl[q].frame
    <3>1. tbl[p].valid = TRUE
      BY <1>2 DEF Entry
    <3>2. QED
      BY <1>2, <1>3, <3>1
  <2>2. \A g \in Frame : cm[g] \in Page \/ cm[g] = NoPage
    BY <1>1 DEF MemoryType
  <2>3. QED
    BY <2>1, <2>2 DEF MemoryInv, Mapping
<1>10. Holds(tbl_1, pm_1)
  BY <1>2, <1>3, <1>5, <1>6, <1>7 DEF MemoryInv, Holds
<1>11. \A q \in Page : tbl_1[q].swap_off = tbl[q].swap_off
  BY <1>2, <1>3
<1>12. Owned(tbl_1, sm, sw)
  BY <1>11 DEF MemoryInv, Owned
<1>13. Out(tbl_1)
  BY <1>2, <1>3 DEF MemoryInv, Out
<1>14. Clean(tbl_1, pm_1, sw)
  <2>1. ASSUME NEW q \in Page, tbl_1[q].valid, ~tbl_1[q].dirty
        PROVE  \/ pm_1[tbl_1[q].frame] = ZeroFilled(q)
               \/ /\ tbl_1[q].swap_off # INVALID_SWAP
                  /\ pm_1[tbl_1[q].frame] = sw[tbl_1[q].swap_off]
    <3>1. CASE q = p
      <4>1. ~tbl[p].dirty /\ ~Writes(t)
        BY <2>1, <3>1, <1>2, <1>3
      <4>2. pm_1[tbl_1[q].frame] = pm[tbl[p].frame]
        BY <4>1, <3>1, <1>2, <1>3, <1>5, <1>6
      <4>3. QED
        BY <4>1, <4>2, <3>1, <1>11 DEF MemoryInv, Clean
    <3>2. CASE q # p
      <4>1. tbl_1[q] = tbl[q] /\ tbl[q].frame \in Frame \ {f}
        BY <2>1, <3>2, <1>2, <1>7
      <4>2. QED
        BY <2>1, <4>1, <1>6 DEF MemoryInv, Clean
    <3>3. QED
      BY <3>1, <3>2
  <2>2. QED
    BY <2>1 DEF Clean
<1>15. QED
  BY <1>8, <1>9, <1>10, <1>12, <1>13, <1>14 DEF MemoryInv

\* A page that need not be written leaves its frame.
LEMMA LeaveClean ==
    ASSUME NEW tbl, NEW cm, NEW pm, NEW sm, NEW sw,
           MemoryInv(tbl, cm, pm, sm, sw),
           NEW f \in Frame, cm[f] \in Page
    PROVE  MemoryInv([tbl EXCEPT ![cm[f]] = CleanVictim(@)],
                     [cm EXCEPT ![f] = NoPage],
                     pm, sm, sw)
<1> DEFINE v     == cm[f]
           e     == CleanVictim(tbl[v])
           tbl_1 == [tbl EXCEPT ![v] = e]
           cm_1  == [cm EXCEPT ![f] = NoPage]
<1>1. MemoryType(tbl, cm, pm, sm, sw)
  BY DEF MemoryInv
<1>2. /\ v \in Page
      /\ tbl[v] \in Entry
      /\ tbl_1[v] = e
      /\ \A q \in Page \ {v} : tbl_1[q] = tbl[q]
      /\ tbl[v].frame = f
      /\ tbl[v].valid
      /\ ~tbl[v].onswap
  BY <1>1, NoPageAssumption DEF MemoryType, Entry, MemoryInv, Mapping, Out
<1>3. /\ e \in Entry /\ e.valid = FALSE
      /\ e.onswap = tbl[v].onswap /\ e.swap_off = tbl[v].swap_off
  BY <1>2 DEF Entry, CleanVictim
<1>4. /\ cm_1[f] = NoPage
      /\ \A g \in Frame \ {f} : cm_1[g] = cm[g]
  BY <1>1 DEF MemoryType
<1>5. MemoryType(tbl_1, cm_1, pm, sm, sw)
  BY <1>1, <1>3 DEF MemoryType
<1>6. Mapping(tbl_1, cm_1)
  <2>1. ASSUME NEW q \in Page, tbl_1[q].valid
        PROVE  cm_1[tbl_1[q].frame] = q
    <3>1. q # v
      BY <2>1, <1>2, <1>3
    <3>2. tbl_1[q] = tbl[q] /\ tbl[q].frame # f /\ tbl[q].frame \in Frame
      BY <2>1, <3>1, <1>1, <1>2 DEF MemoryInv, Mapping, MemoryType, Entry
    <3>3. QED
      BY <2>1, <3>2, <1>4 DEF MemoryInv, Mapping
  <2>2. ASSUME NEW g \in Frame, cm_1[g] # NoPage
        PROVE  tbl_1[cm_1[g]].valid /\ tbl_1[cm_1[g]].frame = g
    <3>1. g # f /\ cm_1[g] = cm[g]
      BY <2>2, <1>4
    <3>2. cm[g] \in Page /\ tbl[cm[g]].valid /\ tbl[cm[g]].frame = g
      BY <2>2, <3>1, <1>1 DEF MemoryInv, Mapping, MemoryType
    <3>3. cm[g] # v
      BY <3>1, <3>2, <1>2
    <3>4. QED
      BY <3>1, <3>2, <3>3, <1>2
  <2>3. QED
    BY <2>1, <2>2 DEF Mapping
<1>7. Holds(tbl_1, pm)
  BY <1>2, <1>3 DEF MemoryInv, Holds
<1>8. \A q \in Page : tbl_1[q].swap_off = tbl[q].swap_off
  BY <1>2, <1>3
<1>9. Owned(tbl_1, sm, sw)
  BY <1>8 DEF MemoryInv, Owned
<1>10. Out(tbl_1)
  BY <1>2, <1>3 DEF MemoryInv, Out
<1>11. Clean(tbl_1, pm, sw)
  BY <1>2, <1>3 DEF MemoryInv, Clean
<1>12. QED
  BY <1>5, <1>6, <1>7, <1>9, <1>10, <1>11 DEF MemoryInv

\* A dirty page leaves its frame: its content goes to the slot it owns, or to one
\* that nobody owns.
LEMMA LeaveDirty ==
    ASSUME NEW tbl, NEW cm, NEW pm, NEW sm, NEW sw,
           MemoryInv(tbl, cm, pm, sm, sw),
           NEW f \in Frame, cm[f] \in Page,
           NEW s \in Slot,
           IF tbl[cm[f]].swap_off = INVALID_SWAP THEN s \notin sm
                                                 ELSE s = tbl[cm[f]].swap_off
    PROVE  MemoryInv([tbl EXCEPT ![cm[f]] = DirtyVictim(@, s)],
                     [cm EXCEPT ![f] = NoPage],
                     pm,
                     sm \union {s},
                     [sw EXCEPT ![s] = pm[f]])
<1> DEFINE v     == cm[f]
           e     == DirtyVictim(tbl[v], s)
           tbl_1 == [tbl EXCEPT ![v] = e]
           cm_1  == [cm EXCEPT ![f] = NoPage]
           sm_1  == sm \union {s}
           sw_1  == [sw EXCEPT ![s] = pm[f]]
<1>1. MemoryType(tbl, cm, pm, sm, sw)
  BY DEF MemoryInv
<1>2. /\ v \in Page
      /\ tbl[v] \in Entry
      /\ tbl_1[v] = e
      /\ \A q \in Page \ {v} : tbl_1[q] = tbl[q]
      /\ tbl[v].frame = f
      /\ tbl[v].valid
  BY <1>1, NoPageAssumption DEF MemoryType, Entry, MemoryInv, Mapping
<1>3. /\ e \in Entry /\ e.valid = FALSE /\ e.onswap = TRUE /\ e.swap_off = s
  BY <1>2 DEF Entry, DirtyVictim
<1>4. /\ cm_1[f] = NoPage
      /\ \A g \in Frame \ {f} : cm_1[g] = cm[g]
      /\ sw_1[s] = pm[f]
      /\ \A r \in Slot \ {s} : sw_1[r] = sw[r]
      /\ pm[f].addr = v
  BY <1>1, <1>2 DEF MemoryType, MemoryInv, Holds
<1>5. s # INVALID_SWAP /\ INVALID_SWAP \notin Slot
  BY DEF Slot, INVALID_SWAP
<1>6. \A q \in Page \ {v} : tbl[q].swap_off # s
  BY <1>2, <1>5 DEF MemoryInv, Owned
<1>7. MemoryType(tbl_1, cm_1, pm, sm_1, sw_1)
  BY <1>1, <1>3 DEF MemoryType
<1>8. Mapping(tbl_1, cm_1)
  <2>1. ASSUME NEW q \in Page, tbl_1[q].valid
        PROVE  cm_1[tbl_1[q].frame] = q
    <3>1. q # v
      BY <2>1, <1>2, <1>3
    <3>2. tbl_1[q] = tbl[q] /\ tbl[q].frame # f /\ tbl[q].frame \in Frame
      BY <2>1, <3>1, <1>1, <1>2 DEF MemoryInv, Mapping, MemoryType, Entry
    <3>3. QED
      BY <2>1, <3>2, <1>4 DEF MemoryInv, Mapping
  <2>2. ASSUME NEW g \in Frame, cm_1[g] # NoPage
        PROVE  tbl_1[cm_1[g]].valid /\ tbl_1[cm_1[g]].frame = g
    <3>1. g # f /\ cm_1[g] = cm[g]
      BY <2>2, <1>4
    <3>2. cm[g] \in Page /\ tbl[cm[g]].valid /\ tbl[cm[g]].frame = g
      BY <2>2, <3>1, <1>1 DEF MemoryInv, Mapping, MemoryType
    <3>3. cm[g] # v
      BY <3>1, <3>2, <1>2
    <3>4. QED
      BY <3>1, <3>2, <3>3, <1>2
  <2>3. QED
    BY <2>1, <2>2 DEF Mapping
<1>9. Holds(tbl_1, pm)
  BY <1>2, <1>3 DEF MemoryInv, Holds
<1>10. Owned(tbl_1, sm_1, sw_1)
  <2>1. ASSUME NEW r \in Slot
        PROVE  r \in sm_1 <=> \E q \in Page : tbl_1[q].swap_off = r
    <3>1. CASE r = s
      BY <3>1, <1>2, <1>3
    <3>2. CASE r # s
      <4>1. r \in sm_1 <=> \E q \in Page : tbl[q].swap_off = r
        BY <3>2 DEF MemoryInv, Owned
      <4>2. tbl[v].swap_off # r
        BY <3>2, <1>5
      <4>3. QED
        BY <3>2, <4>1, <4>2, <1>2, <1>3
    <3>3. QED
      BY <3>1, <3>2
  <2>2. ASSUME NEW q1 \in Page, NEW q2 \in Page,
               tbl_1[q1].swap_off = tbl_1[q2].swap_off
        PROVE  q1 = q2 \/ tbl_1[q1].swap_off = INVALID_SWAP
    BY <2>2, <1>2, <1>3, <1>6 DEF MemoryInv, Owned
  <2>3. ASSUME NEW q \in Page, tbl_1[q].swap_off # INVALID_SWAP
        PROVE  sw_1[tbl_1[q].swap_off].addr = q
    <3>1. CASE q = v
      BY <3>1, <1>2, <1>3, <1>4
    <3>2. CASE q # v
      <4>1. tbl_1[q] = tbl[q] /\ tbl[q].swap_off \in Slot \ {s}
        BY <2>3, <3>2, <1>1, <1>2, <1>6 DEF MemoryType, Entry
      <4>2. QED
        BY <2>3, <4>1, <1>4 DEF MemoryInv, Owned
    <3>3. QED
      BY <3>1, <3>2
  <2>4. QED
    BY <2>1, <2>2, <2>3 DEF Owned
<1>11. Out(tbl_1)
  BY <1>2, <1>3, <1>5 DEF MemoryInv, Out
<1>12. Clean(tbl_1, pm, sw_1)
  <2>1. ASSUME NEW q \in Page, tbl_1[q].valid, ~tbl_1[q].dirty
        PROVE  \/ pm[tbl_1[q].frame] = ZeroFilled(q)
               \/ /\ tbl_1[q].swap_off # INVALID_SWAP
                  /\ pm[tbl_1[q].frame] = sw_1[tbl_1[q].swap_off]
    <3>1. q # v /\ tbl_1[q] = tbl[q]
      BY <2>1, <1>2, <1>3
    <3>2. CASE tbl[q].swap_off = INVALID_SWAP
      BY <2>1, <3>1, <3>2 DEF MemoryInv, Clean
    <3>3. CASE tbl[q].swap_off # INVALID_SWAP
      <4>1. tbl[q].swap_off \in Slot \ {s}
        BY <3>1, <3>3, <1>1, <1>6 DEF MemoryType, Entry
      <4>2. QED
        BY <2>1, <3>1, <3>3, <4>1, <1>4 DEF MemoryInv, Clean
    <3>4. QED
      BY <3>2, <3>3
  <2>2. QED
    BY <2>1 DEF Clean
<1>13. QED
  BY <1>7, <1>8, <1>9, <1>10, <1>11, <1>12 DEF MemoryInv

-----------------------------------------------------------------------------
\* The inductive invariant.
IInv ==
    /\ MemoryInv(pgtbl, coremap, physmem, swapmap, swapfile)
    /\ count \in Counters
    /\ pc \in {"ready", "evict", "done", "exited"}
    /\ cur \in [page : Page, type : AccessType] \union {NoReference}
    /\ ServingMiss

LEMMA CountedCounters ==
    ASSUME NEW c \in Counters, NEW field \in {"hit", "miss", "ref", "clean", "dirty"}
    PROVE  Counted(c, field) \in Counters
  BY DEF Counters, Counted

LEMMA InitIInv == Init => IInv
<1> SUFFICES ASSUME Init PROVE IInv
  OBVIOUS
<1>1. FreshEntry \in Entry
  BY MemSizeAssumption DEF FreshEntry, Entry, Frame
<1>2. Unset \in Content
  BY DEF Unset, Content
<1>3. INVALID_SWAP \notin Slot
  BY DEF Slot, INVALID_SWAP
<1>4. MemoryType(pgtbl, coremap, physmem, swapmap, swapfile)
  BY <1>1, <1>2 DEF Init, MemoryType
<1>5. \A p \in Page : /\ pgtbl[p].valid = FALSE /\ pgtbl[p].onswap = FALSE
                      /\ pgtbl[p].swap_off = INVALID_SWAP
  BY DEF Init, FreshEntry
<1>6. \A f \in Frame : coremap[f] = NoPage
  BY DEF Init
<1>7. Mapping(pgtbl, coremap)
  BY <1>5, <1>6 DEF Mapping
<1>8. /\ Holds(pgtbl, physmem)
      /\ Out(pgtbl)
      /\ Clean(pgtbl, physmem, swapfile)
  BY <1>5 DEF Holds, Out, Clean
<1>9. Owned(pgtbl, swapmap, swapfile)
  BY <1>3, <1>5 DEF Owned, Init
<1>10. MemoryInv(pgtbl, coremap, physmem, swapmap, swapfile)
  BY <1>4, <1>7, <1>8, <1>9 DEF MemoryInv
<1>11. count \in Counters
  BY DEF Init, Counters
<1>12. QED
  BY <1>10, <1>11 DEF IInv, Init, ServingMiss

\* An eviction: the victim leaves frame f, then the page that missed is loaded.
LEMMA ServeIInv ==
    ASSUME NEW f \in Frame, NEW tbl, NEW sm, NEW sw,
           cur \in [page : Page, type : AccessType],
           MemoryInv(tbl, [coremap EXCEPT ![f] = NoPage], physmem, sm, sw),
           ~tbl[cur.page].valid,
           coremap \in [Frame -> Page \union {NoPage}],
           Serve(f, tbl, sw)
    PROVE  MemoryInv(pgtbl', coremap', physmem', sm, sw)
<1> DEFINE cm == [coremap EXCEPT ![f] = NoPage]
<1>1. cm[f] = NoPage
  OBVIOUS
<1>2. MemoryInv([tbl EXCEPT ![cur.page] = Loaded(@, f, cur.type)],
                [cm EXCEPT ![f] = cur.page],
                [physmem EXCEPT ![f] =
                    Written(Fill(cur.page, tbl[cur.page], sw), cur.type)],
                sm, sw)
  BY <1>1, Load
<1>3. coremap' = [cm EXCEPT ![f] = cur.page]
  BY DEF Serve
<1>4. QED
  BY <1>2, <1>3 DEF Serve

\* The frame evict_fcn returns holds a page, and not the one that missed.
LEMMA VictimFacts ==
    ASSUME IInv, pc = "evict", NEW f \in Frame
    PROVE  /\ cur \in [page : Page, type : AccessType]
           /\ coremap[f] \in Page
           /\ coremap[f] # cur.page
           /\ ~pgtbl[cur.page].valid
           /\ pgtbl[coremap[f]].valid
           /\ pgtbl[coremap[f]].frame = f
<1>1. MemoryType(pgtbl, coremap, physmem, swapmap, swapfile)
  BY DEF IInv, MemoryInv
<1>2. coremap[f] \in Page
  BY <1>1 DEF IInv, ServingMiss, FreeFrames, MemoryType
<1>3. pgtbl[coremap[f]].valid /\ pgtbl[coremap[f]].frame = f
  BY <1>2, NoPageAssumption DEF IInv, MemoryInv, Mapping
<1>4. QED
  BY <1>2, <1>3 DEF IInv, ServingMiss

LEMMA NextIInv == IInv /\ [Next]_vars => IInv'
<1> SUFFICES ASSUME IInv, [Next]_vars PROVE IInv'
  OBVIOUS
<1>1. MemoryInv(pgtbl, coremap, physmem, swapmap, swapfile)
  BY DEF IInv
<1>2. MemoryType(pgtbl, coremap, physmem, swapmap, swapfile)
  BY <1>1 DEF MemoryInv
<1>3. ASSUME NEW p \in Page, NEW t \in AccessType, Hit(p, t)
      PROVE  IInv'
  <2>1. MemoryInv(pgtbl, coremap, physmem, swapmap, swapfile)'
    BY <1>1, <1>3, Touch DEF Hit
  <2>2. count' \in Counters
    BY <1>3, CountedCounters DEF Hit, IInv
  <2>3. cur' \in [page : Page, type : AccessType] /\ pc' = "ready"
    BY <1>3 DEF Hit, NextLine
  <2>4. QED
    BY <2>1, <2>2, <2>3 DEF IInv, ServingMiss
<1>4. ASSUME NEW p \in Page, NEW t \in AccessType, MissFree(p, t)
      PROVE  IInv'
  <2>1. MemoryInv(pgtbl, coremap, physmem, swapmap, swapfile)'
    <3>1. PICK f \in Frame :
              /\ coremap[f] = NoPage
              /\ pgtbl'   = [pgtbl EXCEPT ![p] = Loaded(@, f, t)]
              /\ coremap' = [coremap EXCEPT ![f] = p]
              /\ physmem' = [physmem EXCEPT ![f] =
                                Written(Fill(p, pgtbl[p], swapfile), t)]
      BY <1>4 DEF MissFree, FirstFree, FreeFrames
    <3>2. ~pgtbl[p].valid /\ UNCHANGED <<swapmap, swapfile>>
      BY <1>4 DEF MissFree
    <3>3. QED
      BY <1>1, <3>1, <3>2, Load
  <2>2. count' \in Counters
    BY <1>4, CountedCounters DEF MissFree, IInv
  <2>3. cur' \in [page : Page, type : AccessType] /\ pc' = "ready"
    BY <1>4 DEF MissFree, NextLine
  <2>4. QED
    BY <2>1, <2>2, <2>3 DEF IInv, ServingMiss
<1>5. ASSUME NEW p \in Page, NEW t \in AccessType, MissFull(p, t)
      PROVE  IInv'
  <2>1. MemoryInv(pgtbl, coremap, physmem, swapmap, swapfile)'
    BY <1>1, <1>5 DEF MissFull
  <2>2. count' \in Counters
    BY <1>5, CountedCounters DEF MissFull, IInv
  <2>3. /\ cur' \in [page : Page, type : AccessType]
        /\ cur'.page = p
        /\ pc' = "evict"
    BY <1>5 DEF MissFull, NextLine
  <2>4. ~pgtbl'[cur'.page].valid /\ FreeFrames' = {}
    BY <1>5, <2>3 DEF MissFull, FreeFrames
  <2>5. QED
    BY <2>1, <2>2, <2>3, <2>4 DEF IInv, ServingMiss
<1>6. ASSUME NEW f \in Frame, EvictClean(f)
      PROVE  IInv'
  <2> DEFINE tbl == [pgtbl EXCEPT ![coremap[f]] = CleanVictim(@)]
  <2>1. pc = "evict"
    BY <1>6 DEF EvictClean
  <2>2. /\ cur \in [page : Page, type : AccessType]
        /\ coremap[f] \in Page /\ coremap[f] # cur.page
        /\ ~pgtbl[cur.page].valid
    BY <2>1, VictimFacts
  <2>3. MemoryInv(tbl, [coremap EXCEPT ![f] = NoPage], physmem, swapmap, swapfile)
    BY <1>1, <2>2, LeaveClean
  <2>4. ~tbl[cur.page].valid
    BY <1>2, <2>2 DEF MemoryType
  <2>5. MemoryInv(pgtbl', coremap', physmem', swapmap, swapfile)
    BY <1>2, <1>6, <2>2, <2>3, <2>4, ServeIInv DEF EvictClean, MemoryType
  <2>6. count' \in Counters
    BY <1>6, CountedCounters DEF EvictClean, IInv
  <2>7. pc' = "ready" /\ cur' = cur /\ UNCHANGED <<swapmap, swapfile>>
    BY <1>6 DEF EvictClean, Serve
  <2>8. QED
    BY <2>2, <2>5, <2>6, <2>7 DEF IInv, ServingMiss
<1>7. ASSUME NEW f \in Frame, EvictDirty(f)
      PROVE  IInv'
  <2>1. pc = "evict"
    BY <1>7 DEF EvictDirty
  <2>2. /\ cur \in [page : Page, type : AccessType]
        /\ coremap[f] \in Page /\ coremap[f] # cur.page
        /\ ~pgtbl[cur.page].valid
    BY <2>1, VictimFacts
  <2>3. PICK s \in Slot :
            /\ PageOutSlot(coremap[f], s)
            /\ swapmap'  = swapmap \union {s}
            /\ swapfile' = [swapfile EXCEPT ![s] = physmem[f]]
            /\ Serve(f, [pgtbl EXCEPT ![coremap[f]] = DirtyVictim(@, s)], swapfile')
    BY <1>7 DEF EvictDirty
  <2> DEFINE tbl == [pgtbl EXCEPT ![coremap[f]] = DirtyVictim(@, s)]
  <2>4. MemoryInv(tbl, [coremap EXCEPT ![f] = NoPage], physmem, swapmap', swapfile')
    <3>1. IF pgtbl[coremap[f]].swap_off = INVALID_SWAP
          THEN s \notin swapmap ELSE s = pgtbl[coremap[f]].swap_off
      BY <2>3 DEF PageOutSlot, FirstSlot
    <3>2. QED
      BY <1>1, <2>2, <2>3, <3>1, LeaveDirty
  <2>5. ~tbl[cur.page].valid
    BY <1>2, <2>2 DEF MemoryType
  <2>6. MemoryInv(pgtbl', coremap', physmem', swapmap', swapfile')
    BY <1>2, <2>2, <2>3, <2>4, <2>5, ServeIInv DEF MemoryType
  <2>7. count' \in Counters
    BY <1>7, CountedCounters DEF EvictDirty, IInv
  <2>8. pc' = "ready" /\ cur' = cur
    BY <2>3 DEF Serve
  <2>9. QED
    BY <2>2, <2>6, <2>7, <2>8 DEF IInv, ServingMiss
<1>8. ASSUME NEW f \in Frame, Fail(f)
      PROVE  IInv'
  BY <1>1, <1>8 DEF Fail, SwapFull, SwapIOFails, Exit, IInv, ServingMiss
<1>9. CASE EndOfTrace
  BY <1>1, <1>9 DEF EndOfTrace, IInv, ServingMiss
<1>10. CASE UNCHANGED vars
  BY <1>1, <1>10 DEF vars, IInv, ServingMiss, FreeFrames
<1>11. QED
  BY <1>3, <1>4, <1>5, <1>6, <1>7, <1>8, <1>9, <1>10
     DEF Next, Reference, Evict, Stopped

\* The invariant holds in every reachable state.
THEOREM Invariance == Spec => []IInv
  BY InitIInv, NextIInv, PTL DEF Spec

-----------------------------------------------------------------------------
\* Every variable keeps its type (pagetable.c, swap.c, sim.c).
THEOREM TypeCorrect == Spec => []TypeOK
<1>1. IInv => TypeOK
  BY DEF IInv, MemoryInv, MemoryType, TypeOK
<1>2. QED
  BY <1>1, Invariance, PTL

\* The page table and the coremap are inverse to each other after any sequence of
\* hits, misses and evictions (allocate_frame, find_physpage).
THEOREM MappingIsConsistent == Spec => []MappingConsistent
<1>1. IInv => MappingConsistent
  BY DEF IInv, MemoryInv, Mapping, MappingConsistent
<1>2. QED
  BY <1>1, Invariance, PTL

\* evict_fcn is only called when every frame holds a page (allocate_frame).
THEOREM MissIsServed == Spec => []ServingMiss
<1>1. IInv => ServingMiss
  BY DEF IInv
<1>2. QED
  BY <1>1, Invariance, PTL

\* access_mem's check of the address in the frame never fails (sim.c:54).
THEOREM FramesHoldTheirPages == Spec => []FrameHoldsItsPage
<1>1. IInv => FrameHoldsItsPage
  BY DEF IInv, MemoryInv, Holds, FrameHoldsItsPage
<1>2. QED
  BY <1>1, Invariance, PTL

LEMMA IInvOwns ==
    ASSUME IInv
    PROVE  SlotsAreOwned
<1>1. MemoryType(pgtbl, coremap, physmem, swapmap, swapfile)
  BY DEF IInv, MemoryInv
<1>2. INVALID_SWAP \notin Slot
  BY DEF Slot, INVALID_SWAP
<1>3. \A p \in Page : pgtbl[p].swap_off \in Slot \union {INVALID_SWAP}
  BY <1>1 DEF MemoryType, Entry
<1>4. Owned(pgtbl, swapmap, swapfile)
  BY DEF IInv, MemoryInv
<1>5. swapmap = {pgtbl[p].swap_off : p \in Page} \ {INVALID_SWAP}
  BY <1>1, <1>2, <1>3, <1>4 DEF MemoryType, Owned
<1>6. QED
  BY <1>4, <1>5 DEF Owned, SlotsAreOwned

\* Pages never share a slot, no slot leaks, and a slot holds its owner's content
\* (swap_pageout).
THEOREM SlotsHaveOneOwner == Spec => []SlotsAreOwned
  BY IInvOwns, Invariance, PTL

\* PG_ONSWAP implies a slot of one's own, so swap_pagein's assertion holds
\* (swap.c:193).
THEOREM OnSwapHasSlot == Spec => []OnSwapIsOut
<1>1. IInv => OnSwapIsOut
  BY DEF IInv, MemoryInv, Out, OnSwapIsOut
<1>2. QED
  BY <1>1, Invariance, PTL

\* A clean page can be dropped without writing it (allocate_frame's else branch).
THEOREM CleanCanBeDropped == Spec => []CleanNeedsNoWrite
<1>1. IInv => CleanNeedsNoWrite
  BY DEF IInv, MemoryInv, Clean, CleanNeedsNoWrite
<1>2. QED
  BY <1>1, Invariance, PTL

-----------------------------------------------------------------------------
\* The version a reference to page q would find in the given memory.
VersionIn(tbl, pm, sw, q) ==
    IF tbl[q].valid THEN pm[tbl[q].frame].version
    ELSE IF tbl[q].onswap THEN sw[tbl[q].swap_off].version
    ELSE 0

LEMMA WrittenVersion ==
    ASSUME NEW c \in Content, NEW t
    PROVE  /\ c.version \in Nat
           /\ Written(c, t).version \in Nat
           /\ Written(c, t).version >= c.version
<1>1. c.version \in Nat
  BY DEF Content
<1>2. Written(c, t).version = IF Writes(t) THEN c.version + 1 ELSE c.version
  BY DEF Content, Written
<1>3. QED
  BY <1>1, <1>2

\* Loading a page takes no version back.
LEMMA LoadKeepsVersions ==
    ASSUME NEW tbl, NEW cm, NEW pm, NEW sm, NEW sw,
           MemoryInv(tbl, cm, pm, sm, sw),
           NEW p \in Page, NEW f \in Frame, NEW t,
           ~tbl[p].valid, cm[f] = NoPage,
           NEW q \in Page
    PROVE  /\ VersionIn(tbl, pm, sw, q) \in Nat
           /\ VersionIn([tbl EXCEPT ![p] = Loaded(@, f, t)],
                        [pm EXCEPT ![f] = Written(Fill(p, tbl[p], sw), t)],
                        sw, q) \in Nat
           /\ VersionIn([tbl EXCEPT ![p] = Loaded(@, f, t)],
                        [pm EXCEPT ![f] = Written(Fill(p, tbl[p], sw), t)],
                        sw, q)
                >= VersionIn(tbl, pm, sw, q)
<1> DEFINE e     == Loaded(tbl[p], f, t)
           c     == Fill(p, tbl[p], sw)
           tbl_1 == [tbl EXCEPT ![p] = e]
           pm_1  == [pm EXCEPT ![f] = Written(c, t)]
<1>1. MemoryType(tbl, cm, pm, sm, sw)
  BY DEF MemoryInv
<1>2. /\ tbl[q] \in Entry /\ tbl[p] \in Entry
      /\ tbl[q].frame \in Frame
      /\ tbl[q].onswap => tbl[q].swap_off \in Slot
  BY <1>1 DEF MemoryType, Entry, MemoryInv, Out
<1>3. tbl[q].valid => tbl[q].frame # f
  BY NoPageAssumption DEF MemoryInv, Mapping
<1>4. VersionIn(tbl, pm, sw, q) \in Nat
  BY <1>1, <1>2 DEF VersionIn, MemoryType, Content
<1>5. CASE q = p
  <2>1. c \in Content /\ c.version = VersionIn(tbl, pm, sw, p)
    BY <1>1, <1>2, <1>5, ZeroFilledContent
       DEF Fill, VersionIn, MemoryType, ZeroFilled
  <2>2. e.valid = TRUE /\ e.frame = f
    BY <1>2 DEF Entry, Loaded
  <2>3. VersionIn(tbl_1, pm_1, sw, p) = Written(c, t).version
    BY <2>2, <1>1 DEF VersionIn, MemoryType
  <2>4. QED
    BY <1>4, <1>5, <2>1, <2>3, WrittenVersion
<1>6. CASE q # p
  <2>1. tbl_1[q] = tbl[q]
    BY <1>6, <1>1 DEF MemoryType
  <2>2. VersionIn(tbl_1, pm_1, sw, q) = VersionIn(tbl, pm, sw, q)
    BY <1>1, <1>2, <1>3, <2>1 DEF VersionIn, MemoryType
  <2>3. QED
    BY <1>4, <2>2
<1>7. QED
  BY <1>5, <1>6

\* A reference to a page in memory takes no version back.
LEMMA TouchKeepsVersions ==
    ASSUME NEW tbl, NEW cm, NEW pm, NEW sm, NEW sw,
           MemoryInv(tbl, cm, pm, sm, sw),
           NEW p \in Page, NEW t, tbl[p].valid,
           NEW q \in Page
    PROVE  /\ VersionIn(tbl, pm, sw, q) \in Nat
           /\ VersionIn([tbl EXCEPT ![p] = Touched(@, t)],
                        [pm EXCEPT ![tbl[p].frame] = Written(@, t)], sw, q) \in Nat
           /\ VersionIn([tbl EXCEPT ![p] = Touched(@, t)],
                        [pm EXCEPT ![tbl[p].frame] = Written(@, t)], sw, q)
                >= VersionIn(tbl, pm, sw, q)
<1> DEFINE e     == Touched(tbl[p], t)
           f     == tbl[p].frame
           tbl_1 == [tbl EXCEPT ![p] = e]
           pm_1  == [pm EXCEPT ![f] = Written(pm[f], t)]
<1>1. MemoryType(tbl, cm, pm, sm, sw)
  BY DEF MemoryInv
<1>2. /\ tbl[q] \in Entry /\ tbl[p] \in Entry
      /\ tbl[q].frame \in Frame /\ f \in Frame
      /\ tbl[q].onswap => tbl[q].swap_off \in Slot
  BY <1>1 DEF MemoryType, Entry, MemoryInv, Out
<1>3. VersionIn(tbl, pm, sw, q) \in Nat
  BY <1>1, <1>2 DEF VersionIn, MemoryType, Content
<1>4. CASE q = p
  <2>1. e.valid /\ e.frame = f
    BY <1>2 DEF Entry, Touched
  <2>2. VersionIn(tbl_1, pm_1, sw, p) = Written(pm[f], t).version
    BY <2>1, <1>1, <1>2 DEF VersionIn, MemoryType
  <2>3. VersionIn(tbl, pm, sw, p) = pm[f].version
    BY DEF VersionIn
  <2>4. pm[f] \in Content
    BY <1>1, <1>2 DEF MemoryType
  <2>5. QED
    BY <1>3, <1>4, <2>2, <2>3, <2>4, WrittenVersion
<1>5. CASE q # p
  <2>1. tbl_1[q] = tbl[q]
    BY <1>5, <1>1 DEF MemoryType
  <2>2. tbl[q].valid => tbl[q].frame # f
    BY <1>5 DEF MemoryInv, Mapping
  <2>3. VersionIn(tbl_1, pm_1, sw, q) = VersionIn(tbl, pm, sw, q)
    BY <1>1, <1>2, <2>1, <2>2 DEF VersionIn, MemoryType
  <2>4. QED
    BY <1>3, <2>3
<1>6. QED
  BY <1>4, <1>5

\* Saving a dirty page changes the version of no page.
LEMMA LeaveDirtyKeepsVersions ==
    ASSUME NEW tbl, NEW cm, NEW pm, NEW sm, NEW sw,
           MemoryInv(tbl, cm, pm, sm, sw),
           NEW f \in Frame, cm[f] \in Page,
           NEW s \in Slot,
           IF tbl[cm[f]].swap_off = INVALID_SWAP THEN s \notin sm
                                                 ELSE s = tbl[cm[f]].swap_off,
           NEW q \in Page
    PROVE  VersionIn([tbl EXCEPT ![cm[f]] = DirtyVictim(@, s)], pm,
                     [sw EXCEPT ![s] = pm[f]], q)
             = VersionIn(tbl, pm, sw, q)
<1> DEFINE v     == cm[f]
           e     == DirtyVictim(tbl[v], s)
           tbl_1 == [tbl EXCEPT ![v] = e]
           sw_1  == [sw EXCEPT ![s] = pm[f]]
<1>1. MemoryType(tbl, cm, pm, sm, sw)
  BY DEF MemoryInv
<1>2. /\ v \in Page /\ tbl[v] \in Entry /\ tbl[q] \in Entry
      /\ tbl[v].frame = f /\ tbl[v].valid
      /\ tbl[q].onswap => tbl[q].swap_off \in Slot
  BY <1>1, NoPageAssumption DEF MemoryType, Entry, MemoryInv, Mapping, Out
<1>3. CASE q = v
  <2>1. e.valid = FALSE /\ e.onswap = TRUE /\ e.swap_off = s
    BY <1>2 DEF Entry, DirtyVictim
  <2>2. VersionIn(tbl_1, pm, sw_1, v) = pm[f].version
    BY <2>1, <1>1, <1>2 DEF VersionIn, MemoryType
  <2>3. VersionIn(tbl, pm, sw, v) = pm[f].version
    BY <1>2 DEF VersionIn
  <2>4. QED
    BY <1>3, <2>2, <2>3
<1>4. CASE q # v
  <2>1. tbl_1[q] = tbl[q]
    BY <1>4, <1>1 DEF MemoryType
  <2>2. tbl[q].swap_off # s
    <3>1. s # INVALID_SWAP
      BY DEF Slot, INVALID_SWAP
    <3>2. QED
      BY <3>1, <1>2, <1>4 DEF MemoryInv, Owned
  <2>3. QED
    BY <1>1, <1>2, <2>1, <2>2 DEF VersionIn, MemoryType
<1>5. QED
  BY <1>3, <1>4

\* The only way for page q to lose its version, as a predicate on one step.
LostOnlyWhenPagedIn(q) ==
    Version(q)' < Version(q) =>
        /\ pgtbl[q].valid /\ ~pgtbl[q].dirty
        /\ ~pgtbl'[q].valid /\ ~pgtbl'[q].onswap
        /\ pgtbl'[q].swap_off # INVALID_SWAP
        /\ swapfile'[pgtbl'[q].swap_off].version = Version(q)

LEMMA KeptIsNotLost ==
    ASSUME NEW q \in Page, Version(q) \in Nat, Version(q)' \in Nat,
           Version(q)' >= Version(q)
    PROVE  LostOnlyWhenPagedIn(q)
  BY DEF LostOnlyWhenPagedIn

LEMMA CleanLoss ==
    ASSUME IInv, NEW f \in Frame, EvictClean(f), NEW q \in Page
    PROVE  LostOnlyWhenPagedIn(q)
<1> DEFINE v   == coremap[f]
           p   == cur.page
           tbl == [pgtbl EXCEPT ![v] = CleanVictim(@)]
           cm  == [coremap EXCEPT ![f] = NoPage]
<1>1. MemoryInv(pgtbl, coremap, physmem, swapmap, swapfile)
  BY DEF IInv
<1>2. MemoryType(pgtbl, coremap, physmem, swapmap, swapfile)
  BY <1>1 DEF MemoryInv
<1>3. /\ cur \in [page : Page, type : AccessType]
      /\ v \in Page /\ v # p /\ p \in Page
      /\ ~pgtbl[p].valid /\ pgtbl[v].valid /\ pgtbl[v].frame = f
  BY VictimFacts DEF EvictClean
<1>4. MemoryInv(tbl, cm, physmem, swapmap, swapfile)
  BY <1>1, <1>3, LeaveClean
<1>5. ~tbl[p].valid /\ cm[f] = NoPage
  BY <1>2, <1>3 DEF MemoryType
<1>6. /\ pgtbl' = [tbl EXCEPT ![p] = Loaded(@, f, cur.type)]
      /\ physmem' = [physmem EXCEPT ![f] =
                        Written(Fill(p, tbl[p], swapfile), cur.type)]
      /\ swapfile' = swapfile
  BY DEF EvictClean, Serve
<1>7. CASE q = v
  <2>1. /\ pgtbl[v] \in Entry
        /\ pgtbl[v].valid /\ ~pgtbl[v].onswap
        /\ ~pgtbl[v].dirty
    BY <1>2, <1>3, <1>1 DEF MemoryType, MemoryInv, Out, EvictClean, NeedsPageOut
  <2>2. pgtbl'[v] = CleanVictim(pgtbl[v])
    BY <1>2, <1>3, <1>6 DEF MemoryType
  <2>3. /\ pgtbl'[v].valid = FALSE /\ pgtbl'[v].onswap = pgtbl[v].onswap
        /\ pgtbl'[v].swap_off = pgtbl[v].swap_off
    BY <2>1, <2>2 DEF Entry, CleanVictim
  <2>4. Version(q) = physmem[f].version
    BY <1>3, <1>7 DEF Version
  <2>9. Version(q)' = 0
    BY <1>7, <2>1, <2>3 DEF Version
  <2>5. \/ physmem[f] = ZeroFilled(v)
        \/ /\ pgtbl[v].swap_off # INVALID_SWAP
           /\ physmem[f] = swapfile[pgtbl[v].swap_off]
    BY <1>1, <1>3, <2>1 DEF MemoryInv, Clean
  <2>6. CASE physmem[f] = ZeroFilled(v)
    <3>1. Version(q) = 0
      BY <2>4, <2>6 DEF ZeroFilled
    <3>2. QED
      BY <1>7, <2>9, <3>1 DEF LostOnlyWhenPagedIn
  <2>7. CASE /\ pgtbl[v].swap_off # INVALID_SWAP
             /\ physmem[f] = swapfile[pgtbl[v].swap_off]
    BY <1>6, <1>7, <2>1, <2>3, <2>4, <2>7 DEF LostOnlyWhenPagedIn
  <2>8. QED
    BY <2>5, <2>6, <2>7
<1>8. CASE q # v
  <2>1. tbl[q] = pgtbl[q]
    BY <1>8, <1>2 DEF MemoryType
  <2>2. VersionIn(tbl, physmem, swapfile, q) = Version(q)
    BY <2>1 DEF VersionIn, Version
  <2>3. VersionIn(pgtbl', physmem', swapfile', q) = Version(q)'
    BY DEF VersionIn, Version
  <2>4. LET after == VersionIn([tbl EXCEPT ![p] = Loaded(@, f, cur.type)],
                               [physmem EXCEPT ![f] =
                                  Written(Fill(p, tbl[p], swapfile), cur.type)],
                               swapfile, q)
        IN  /\ VersionIn(tbl, physmem, swapfile, q) \in Nat
            /\ after \in Nat
            /\ after >= VersionIn(tbl, physmem, swapfile, q)
    BY <1>3, <1>4, <1>5, LoadKeepsVersions
  <2>5. QED
    BY <1>6, <2>2, <2>3, <2>4, KeptIsNotLost
<1>9. QED
  BY <1>7, <1>8

LEMMA DirtyKeeps ==
    ASSUME IInv, NEW f \in Frame, EvictDirty(f), NEW q \in Page
    PROVE  LostOnlyWhenPagedIn(q)
<1>1. MemoryInv(pgtbl, coremap, physmem, swapmap, swapfile)
  BY DEF IInv
<1>2. MemoryType(pgtbl, coremap, physmem, swapmap, swapfile)
  BY <1>1 DEF MemoryInv
<1> DEFINE v  == coremap[f]
           p  == cur.page
           cm == [coremap EXCEPT ![f] = NoPage]
<1>3. /\ cur \in [page : Page, type : AccessType]
      /\ v \in Page /\ v # p /\ p \in Page /\ ~pgtbl[p].valid
  BY VictimFacts DEF EvictDirty
<1>4. PICK s \in Slot :
          /\ PageOutSlot(v, s)
          /\ swapmap'  = swapmap \union {s}
          /\ swapfile' = [swapfile EXCEPT ![s] = physmem[f]]
          /\ Serve(f, [pgtbl EXCEPT ![v] = DirtyVictim(@, s)], swapfile')
  BY DEF EvictDirty
<1> DEFINE tbl == [pgtbl EXCEPT ![v] = DirtyVictim(@, s)]
<1>5. IF pgtbl[v].swap_off = INVALID_SWAP THEN s \notin swapmap
                                          ELSE s = pgtbl[v].swap_off
  BY <1>4 DEF PageOutSlot, FirstSlot
<1>6. MemoryInv(tbl, cm, physmem, swapmap', swapfile')
  BY <1>1, <1>3, <1>4, <1>5, LeaveDirty
<1>7. VersionIn(tbl, physmem, swapfile', q) = VersionIn(pgtbl, physmem, swapfile, q)
  <2>1. VersionIn([pgtbl EXCEPT ![v] = DirtyVictim(@, s)], physmem,
                  [swapfile EXCEPT ![s] = physmem[f]], q)
          = VersionIn(pgtbl, physmem, swapfile, q)
    BY <1>1, <1>3, <1>5, LeaveDirtyKeepsVersions
  <2>2. QED
    BY <1>4, <2>1
<1>8. ~tbl[p].valid /\ cm[f] = NoPage
  BY <1>2, <1>3 DEF MemoryType
<1>9. /\ pgtbl' = [tbl EXCEPT ![p] = Loaded(@, f, cur.type)]
      /\ physmem' = [physmem EXCEPT ![f] =
                        Written(Fill(p, tbl[p], swapfile'), cur.type)]
  BY <1>4 DEF Serve
<1>10. /\ VersionIn(tbl, physmem, swapfile', q) \in Nat
       /\ VersionIn(pgtbl', physmem', swapfile', q) \in Nat
       /\ VersionIn(pgtbl', physmem', swapfile', q)
            >= VersionIn(tbl, physmem, swapfile', q)
  BY <1>3, <1>6, <1>8, <1>9, LoadKeepsVersions
<1>11. /\ VersionIn(pgtbl, physmem, swapfile, q) = Version(q)
       /\ VersionIn(pgtbl', physmem', swapfile', q) = Version(q)'
  BY DEF VersionIn, Version
<1>12. QED
  BY <1>7, <1>10, <1>11, KeptIsNotLost

\* Data is lost in one way only: a page that was paged in and not written since is
\* evicted, its content stays in its slot, and only PG_ONSWAP is missing.
THEOREM LossIsFromPagedIn == Spec => OnlyPagedInPagesAreLost
<1>1. ASSUME IInv, [Next]_vars
      PROVE  \A q \in Page : LostOnlyWhenPagedIn(q)
  <2> TAKE q \in Page
  <2>1. MemoryInv(pgtbl, coremap, physmem, swapmap, swapfile)
    BY <1>1 DEF IInv
  <2>2. /\ VersionIn(pgtbl, physmem, swapfile, q) = Version(q)
        /\ VersionIn(pgtbl', physmem', swapfile', q) = Version(q)'
    BY DEF VersionIn, Version
  <2>3. ASSUME NEW p \in Page, NEW t \in AccessType, Hit(p, t)
        PROVE  LostOnlyWhenPagedIn(q)
    <3>1. /\ pgtbl[p].valid
          /\ pgtbl'   = [pgtbl EXCEPT ![p] = Touched(@, t)]
          /\ physmem' = [physmem EXCEPT ![pgtbl[p].frame] = Written(@, t)]
          /\ swapfile' = swapfile
      BY <2>3 DEF Hit
    <3>2. LET after == VersionIn([pgtbl EXCEPT ![p] = Touched(@, t)],
                                 [physmem EXCEPT ![pgtbl[p].frame] = Written(@, t)],
                                 swapfile, q)
          IN  /\ VersionIn(pgtbl, physmem, swapfile, q) \in Nat
              /\ after \in Nat
              /\ after >= VersionIn(pgtbl, physmem, swapfile, q)
      BY <2>1, <3>1, TouchKeepsVersions
    <3>3. QED
      BY <2>2, <3>1, <3>2, KeptIsNotLost
  <2>4. ASSUME NEW p \in Page, NEW t \in AccessType, MissFree(p, t)
        PROVE  LostOnlyWhenPagedIn(q)
    <3>1. PICK f \in Frame :
              /\ coremap[f] = NoPage
              /\ pgtbl'   = [pgtbl EXCEPT ![p] = Loaded(@, f, t)]
              /\ physmem' = [physmem EXCEPT ![f] =
                                Written(Fill(p, pgtbl[p], swapfile), t)]
      BY <2>4 DEF MissFree, FirstFree, FreeFrames
    <3>2. ~pgtbl[p].valid /\ swapfile' = swapfile
      BY <2>4 DEF MissFree
    <3>3. LET after == VersionIn([pgtbl EXCEPT ![p] = Loaded(@, f, t)],
                                 [physmem EXCEPT ![f] =
                                    Written(Fill(p, pgtbl[p], swapfile), t)],
                                 swapfile, q)
          IN  /\ VersionIn(pgtbl, physmem, swapfile, q) \in Nat
              /\ after \in Nat
              /\ after >= VersionIn(pgtbl, physmem, swapfile, q)
      BY <2>1, <3>1, <3>2, LoadKeepsVersions
    <3>4. QED
      BY <2>2, <3>1, <3>2, <3>3, KeptIsNotLost
  <2>5. ASSUME NEW f \in Frame, EvictClean(f)
        PROVE  LostOnlyWhenPagedIn(q)
    BY <1>1, <2>5, CleanLoss
  <2>6. ASSUME NEW f \in Frame, EvictDirty(f)
        PROVE  LostOnlyWhenPagedIn(q)
    BY <1>1, <2>6, DirtyKeeps
  <2>7. ASSUME UNCHANGED <<pgtbl, physmem, swapfile>>
        PROVE  LostOnlyWhenPagedIn(q)
    <3>1. MemoryType(pgtbl, coremap, physmem, swapmap, swapfile)
      BY <2>1 DEF MemoryInv
    <3>2. Version(q) \in Nat
      BY <2>1, <3>1 DEF Version, MemoryType, Entry, Content, MemoryInv, Out
    <3>3. Version(q)' = Version(q)
      BY <2>7 DEF Version
    <3>4. QED
      BY <3>2, <3>3, KeptIsNotLost
  <2>8. QED
    BY <1>1, <2>3, <2>4, <2>5, <2>6, <2>7
       DEF Next, Reference, Evict, Fail, MissFull, SwapFull, SwapIOFails, Exit,
           EndOfTrace, Stopped, vars
<1>2. IInv /\ [Next]_vars => [\A p \in Page : LostOnlyWhenPagedIn(p)]_vars
  BY <1>1
<1>3. Spec => [][\A p \in Page : LostOnlyWhenPagedIn(p)]_vars
  BY <1>2, Invariance, PTL DEF Spec
<1>4. QED
  BY <1>3 DEF OnlyPagedInPagesAreLost, LostOnlyWhenPagedIn

-----------------------------------------------------------------------------
\* The counters.  Used are the frames that hold a page.
Used == Frame \ FreeFrames

\* What find_physpage counts for a hit and for a miss, and allocate_frame for a
\* clean and for a dirty victim.
LEMMA CountedFields ==
    ASSUME NEW c \in Counters
    PROVE  /\ Counted(Counted(c, "ref"), "hit")
                = [c EXCEPT !.ref = c.ref + 1, !.hit = c.hit + 1]
           /\ Counted(Counted(c, "ref"), "miss")
                = [c EXCEPT !.ref = c.ref + 1, !.miss = c.miss + 1]
           /\ Counted(c, "clean") = [c EXCEPT !.clean = c.clean + 1]
           /\ Counted(c, "dirty") = [c EXCEPT !.dirty = c.dirty + 1]
  BY DEF Counters, Counted

LEMMA UsedFinite == IsFiniteSet(Used) /\ Cardinality(Used) \in Nat
<1>1. IsFiniteSet(Frame)
  BY MemSizeAssumption, FS_Interval DEF Frame
<1>2. QED
  BY <1>1, FS_Subset, FS_CardinalityType DEF Used

LEMMA InitBalance == Init => CountersBalance
<1> SUFFICES ASSUME Init PROVE CountersBalance
  OBVIOUS
<1>1. Frame \ FreeFrames = {}
  BY DEF Init, FreeFrames
<1>2. Cardinality(Frame \ FreeFrames) = 0
  BY <1>1, FS_EmptySet
<1>3. QED
  BY <1>2 DEF Init, CountersBalance

LEMMA EvictBalance ==
    ASSUME IInv, CountersBalance, NEW f \in Frame, Evict(f)
    PROVE  CountersBalance'
<1>1. MemoryType(pgtbl, coremap, physmem, swapmap, swapfile) /\ count \in Counters
  BY DEF IInv, MemoryInv
<1>2. pc = "evict" /\ pc' = "ready"
  BY DEF Evict, EvictClean, EvictDirty, Serve
<1>3. cur.page \in Page /\ pgtbl[coremap[f]].valid /\ coremap[f] \in Page
  BY <1>2, VictimFacts
<1>4. coremap' = [coremap EXCEPT ![f] = cur.page]
  BY DEF Evict, EvictClean, EvictDirty, Serve
<1>5. FreeFrames = {} /\ FreeFrames' = {}
  <2>1. FreeFrames = {}
    BY <1>2 DEF IInv, ServingMiss
  <2>2. cur.page # NoPage
    BY <1>3, NoPageAssumption
  <2>3. QED
    BY <1>1, <1>4, <2>1, <2>2 DEF MemoryType, FreeFrames
<1>6. count' = Counted(count, "clean") \/ count' = Counted(count, "dirty")
  <2>1. ~pgtbl[coremap[f]].onswap
    BY <1>3 DEF IInv, MemoryInv, Out
  <2>2. QED
    BY <2>1 DEF Evict, EvictClean, EvictDirty
<1>7. /\ count'.hit = count.hit /\ count'.miss = count.miss /\ count'.ref = count.ref
      /\ count'.clean + count'.dirty = count.clean + count.dirty + 1
      /\ count.hit \in Nat /\ count.miss \in Nat /\ count.ref \in Nat
      /\ count.clean \in Nat /\ count.dirty \in Nat
  <2>1. /\ Counted(count, "clean") = [count EXCEPT !.clean = count.clean + 1]
        /\ Counted(count, "dirty") = [count EXCEPT !.dirty = count.dirty + 1]
    BY <1>1, CountedFields
  <2>2. CASE count' = [count EXCEPT !.clean = count.clean + 1]
    BY <1>1, <2>2 DEF Counters
  <2>3. CASE count' = [count EXCEPT !.dirty = count.dirty + 1]
    BY <1>1, <2>3 DEF Counters
  <2>4. QED
    BY <1>6, <2>1, <2>2, <2>3
<1>8. Cardinality(Frame \ FreeFrames)' = Cardinality(Frame \ FreeFrames)
  BY <1>5
<1>9. Cardinality(Frame \ FreeFrames) \in Nat
  BY UsedFinite DEF Used
<1>10. QED
  BY <1>2, <1>7, <1>8, <1>9 DEF CountersBalance

LEMMA NextBalance == IInv /\ CountersBalance /\ [Next]_vars => CountersBalance'
<1> SUFFICES ASSUME IInv, CountersBalance, [Next]_vars PROVE CountersBalance'
  OBVIOUS
<1>1. MemoryType(pgtbl, coremap, physmem, swapmap, swapfile) /\ count \in Counters
  BY DEF IInv, MemoryInv
<1>2. /\ count.hit \in Nat /\ count.miss \in Nat /\ count.ref \in Nat
      /\ count.clean \in Nat /\ count.dirty \in Nat
  BY <1>1 DEF Counters
<1>3. Cardinality(Frame \ FreeFrames) \in Nat
  BY UsedFinite DEF Used
<1>4. /\ Counted(Counted(count, "ref"), "hit")
            = [count EXCEPT !.ref = count.ref + 1, !.hit = count.hit + 1]
      /\ Counted(Counted(count, "ref"), "miss")
            = [count EXCEPT !.ref = count.ref + 1, !.miss = count.miss + 1]
  BY <1>1, CountedFields
<1>5. ASSUME NEW p \in Page, NEW t \in AccessType, Hit(p, t)
      PROVE  CountersBalance'
  <2>1. /\ count'.ref = count.ref + 1
        /\ count'.hit = count.hit + 1 /\ count'.miss = count.miss
        /\ count'.clean = count.clean /\ count'.dirty = count.dirty
    BY <1>1, <1>4, <1>5 DEF Hit, Counters
  <2>2. pc = "ready" /\ pc' = pc /\ (Frame \ FreeFrames)' = Frame \ FreeFrames
    BY <1>5 DEF Hit, NextLine, FreeFrames
  <2>3. Cardinality(Frame \ FreeFrames)' = Cardinality(Frame \ FreeFrames)
    BY <2>2
  <2>4. QED
    BY <1>2, <1>3, <2>1, <2>2, <2>3 DEF CountersBalance
<1>6. ASSUME NEW p \in Page, NEW t \in AccessType, MissFree(p, t)
      PROVE  CountersBalance'
  <2>1. /\ count'.ref = count.ref + 1
        /\ count'.hit = count.hit /\ count'.miss = count.miss + 1
        /\ count'.clean = count.clean /\ count'.dirty = count.dirty
    BY <1>1, <1>4, <1>6 DEF MissFree, Counters
  <2>2. pc = "ready" /\ pc' = pc
    BY <1>6 DEF MissFree, NextLine
  <2>3. PICK f \in FreeFrames : coremap' = [coremap EXCEPT ![f] = p]
    BY <1>6 DEF MissFree, FirstFree
  <2>4. Used' = Used \union {f} /\ f \notin Used
    BY <1>1, <2>3, NoPageAssumption DEF Used, FreeFrames, MemoryType
  <2>5. Cardinality(Used') = Cardinality(Used) + 1
    BY <2>4, UsedFinite, FS_AddElement
  <2>6. QED
    BY <1>2, <1>3, <2>1, <2>2, <2>5 DEF CountersBalance, Used
<1>7. ASSUME NEW p \in Page, NEW t \in AccessType, MissFull(p, t)
      PROVE  CountersBalance'
  <2>1. /\ count'.ref = count.ref + 1
        /\ count'.hit = count.hit /\ count'.miss = count.miss + 1
        /\ count'.clean = count.clean /\ count'.dirty = count.dirty
    BY <1>1, <1>4, <1>7 DEF MissFull, Counters
  <2>2. pc = "ready" /\ pc' = "evict" /\ (Frame \ FreeFrames)' = Frame \ FreeFrames
    BY <1>7 DEF MissFull, NextLine, FreeFrames
  <2>3. Cardinality(Frame \ FreeFrames)' = Cardinality(Frame \ FreeFrames)
    BY <2>2
  <2>4. QED
    BY <1>2, <1>3, <2>1, <2>2, <2>3 DEF CountersBalance
<1>8. ASSUME NEW f \in Frame, Evict(f)
      PROVE  CountersBalance'
  BY <1>8, EvictBalance
<1>9. ASSUME UNCHANGED <<count, coremap>>,
             pc' = pc \/ (pc = "evict" /\ pc' = "exited")
                      \/ (pc = "ready" /\ pc' = "done")
      PROVE  CountersBalance'
  BY <1>9 DEF CountersBalance, FreeFrames
<1>10. QED
  BY <1>5, <1>6, <1>7, <1>8, <1>9
     DEF Next, Reference, Fail, SwapFull, SwapIOFails, Exit, EndOfTrace, Stopped, vars

\* The numbers main prints agree with each other after any trace: references are
\* hits or misses, and misses filled a free frame or evicted one page.
THEOREM CountersAreBalanced == Spec => []CountersBalance
<1>1. IInv /\ CountersBalance /\ [Next]_vars => (IInv /\ CountersBalance)'
  BY NextIInv, NextBalance
<1>2. QED
  BY InitIInv, InitBalance, <1>1, PTL DEF Spec
=============================================================================
