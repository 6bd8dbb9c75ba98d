----------------------------- MODULE PagingOpt ------------------------------
(***************************************************************************)
(* The simulator with the opt policy (opt.c).  opt_init reads the trace    *)
(* once before it is replayed; every reference then removes the first      *)
(* entry of its list.  opt_init keeps only the first node it allocates:    *)
(* later nodes are filled in but linked to nothing.                        *)
(***************************************************************************)
EXTENDS Paging, Sequences, FiniteSetsExt

VARIABLES
    trace,      \* the pages of the trace lines not replayed yet
    head        \* the list of opt.c, as the sequence of its addresses

optVars == <<vars, trace, head>>

\* Mutation of BuiltList: the nodes are linked.
BuiltListLinked(pages) == pages

\* The list opt_init builds from the pages of a trace.
BuiltList(pages) == IF pages = << >> THEN << >> ELSE <<pages[1]>>

\* The trace file is any sequence of at most MaxRefs references.
OptInit ==
    /\ Init
    /\ trace \in UNION {[1 .. n -> Page] : n \in 0 .. MaxRefs}
    /\ head = BuiltList(trace)

\* opt_ref drops the first node, if there is one.
Dropped(list) == IF list = << >> THEN list ELSE Tail(list)

\* The vaddr field of a page table entry is never set: what is_next_frame reads
\* from the entry of the page in a frame is what the memory of the table held,
\* any address or none.
Vaddrs == [Frame -> Page \union {NoPage}]

\* is_next_frame: the distance to the next use of an address in the list, or -1.
NextUse(a, list) ==
    LET uses == {i \in DOMAIN list : list[i] = a}
    IN  IF uses = {} THEN -1 ELSE Min(uses) - 1

Distance(f, list, vaddr) == NextUse(vaddr[f], list)

\* opt_evict: the first frame with no further use in the list, or else the first
\* one whose next use is furthest away.
Unused(list, vaddr) == {f \in Frame : Distance(f, list, vaddr) = -1}
Furthest(list, vaddr) ==
    {f \in Frame : \A g \in Frame : Distance(g, list, vaddr) <= Distance(f, list, vaddr)}
Choice(list, vaddr) ==
    IF Unused(list, vaddr) # {} THEN Min(Unused(list, vaddr))
                                ELSE Min(Furthest(list, vaddr))
Victims == {Choice(head, vaddr) : vaddr \in Vaddrs}

OptReference ==
    /\ trace # << >>
    /\ trace' = Tail(trace)
    /\ \/ /\ \E t \in AccessType : Hit(trace[1], t) \/ MissFree(trace[1], t)
          /\ head' = Dropped(head)
       \/ /\ \E t \in AccessType : MissFull(trace[1], t)
          /\ UNCHANGED head

OptEvict ==
    /\ pc = "evict"
    /\ \E f \in Victims : Evict(f)
    /\ head' = Dropped(head)
    /\ UNCHANGED trace

OptStop ==
    /\ \/ pc = "evict" /\ \E f \in Victims : Fail(f)
       \/ trace = << >> /\ EndOfTrace
       \/ Stopped
    /\ UNCHANGED <<trace, head>>

OptNext == OptReference \/ OptEvict \/ OptStop

OptSpec == OptInit /\ [][OptNext]_optVars
-----------------------------------------------------------------------------
\* What is left of the trace and of the list are pages.
OptTypeOK == TypeOK /\ trace \in Seq(Page) /\ head \in Seq(Page)
=============================================================================
