------------------------------ MODULE FastSlim ------------------------------
(***************************************************************************)
(* The trace reduction of traceprogs/fastslim.py, which makes the traces   *)
(* that the simulator replays.  A reference to a page that is in the trace *)
(* buffer is left out; when the buffer is full, what has been kept is      *)
(* printed and both lists are emptied.                                     *)
(*                                                                         *)
(* A line is the reference it holds; lines of valgrind's own (they start   *)
(* with '=' or do not parse) change nothing and are left out, as are the   *)
(* addresses inside a page.                                                *)
(***************************************************************************)
EXTENDS Integers, FiniteSetsExt, SequencesExt

CONSTANTS
    Page,           \* the pages of the trace
    BufferSizes,    \* the values of -b
    MaxTs           \* bound: the number of lines that are kept

ASSUME BoundsAssumption == BufferSizes \subseteq Int /\ MaxTs \in Nat

VARIABLES
    buffersize,     \* -b, for the whole run
    keepcode,       \* -k, for the whole run
    ts,             \* the time stamp of the next reference
    tracebuffer,    \* the set of items in the buffer
    toprint,        \* the items that wait to be printed
    printed,        \* the items that have been printed
    ended,          \* the input has ended
    trace           \* history: the pages of the lines that were not skipped

vars == <<buffersize, keepcode, ts, tracebuffer, toprint, printed, ended, trace>>

\* "I" is an instruction fetch; loads, stores and modifications are treated alike.
RefType == {"I", "D"}

Item == [reftype : RefType, pg : Page, tstamp : Nat, marked : BOOLEAN]

TraceItem(reftype, pg) ==
    [reftype |-> reftype, pg |-> pg, tstamp |-> ts, marked |-> FALSE]

Pages(items) == {ti.pg : ti \in items}

Init ==
    /\ buffersize \in BufferSizes
    /\ keepcode \in BOOLEAN
    /\ ts = 0
    /\ tracebuffer = {}
    /\ toprint = <<>>
    /\ printed = <<>>
    /\ ended = FALSE
    /\ trace = <<>>

-----------------------------------------------------------------------------
\* Mutation of InBuffer: items are compared as a whole.
InBufferAsItem(reftype, pg) == TraceItem(reftype, pg) \in tracebuffer

\* Items are equal, and hash alike, by their page.
InBuffer(reftype, pg) == pg \in Pages(tracebuffer)

\* Mutation of Full: one page more.
FullLate == Cardinality(tracebuffer) = buffersize + 1

\* A buffer that starts above buffersize is never full.
Full == Cardinality(tracebuffer) = buffersize

\* list.sort(key=attrgetter('tstamp')).
Sorted(items) ==
    CHOOSE s \in {[i \in DOMAIN items |-> items[p[i]]] :
                    p \in Bijection(DOMAIN items, DOMAIN items)} :
        \A i, j \in DOMAIN items : i < j => s[i].tstamp <= s[j].tstamp

\* What emit_marked_in_ts_order prints: the waiting items and the marked ones of
\* the buffer, in the order of their time stamps.
Emission == Sorted(toprint \o SetToSeq({ti \in tracebuffer : ti.marked}))

\* Mutation of Waiting: nothing is deleted from the list.
WaitingKept(ti) == Append(toprint, ti)

\* Mutation of Waiting: a new item that finds the buffer full does not wait.
WaitingDropped(ti) == IF Full THEN <<>> ELSE Append(toprint, ti)

\* The items that wait once the new item ti has been kept.
Waiting(ti) == IF Full THEN <<ti>> ELSE Append(toprint, ti)

\* Mutation of Rest: a full buffer loses one item, the newest.
RestByOne ==
    IF Full THEN {ti \in tracebuffer : \E other \in tracebuffer : other.tstamp > ti.tstamp}
            ELSE tracebuffer

\* What the new item finds in the buffer.
Rest == IF Full THEN {} ELSE tracebuffer

\* The page is in the buffer: it is the new item that gets the mark, not the one
\* in the buffer, and the new item is dropped.
Again(reftype, pg) ==
    /\ InBuffer(reftype, pg)
    /\ UNCHANGED <<tracebuffer, toprint, printed>>

\* The page is not in the buffer, which is emptied first when it is full.
Keep(reftype, pg) ==
    /\ ~InBuffer(reftype, pg)
    /\ printed' = IF Full THEN printed \o Emission ELSE printed
    /\ toprint' = Waiting(TraceItem(reftype, pg))
    /\ tracebuffer' = Rest \union {TraceItem(reftype, pg)}

\* A turn of the loop; code references count with -k only.
Line ==
    /\ ~ended
    /\ ts < MaxTs
    /\ \E reftype \in RefType, pg \in Page :
        /\ reftype = "I" => keepcode
        /\ Again(reftype, pg) \/ Keep(reftype, pg)
        /\ trace' = Append(trace, pg)
    /\ ts' = ts + 1
    /\ UNCHANGED <<buffersize, keepcode, ended>>

\* The loop is over; what waits is not printed.
EndOfInput ==
    /\ ~ended
    /\ ended' = TRUE
    /\ UNCHANGED <<buffersize, keepcode, ts, tracebuffer, toprint, printed, trace>>

Next == Line \/ EndOfInput

Spec == Init /\ [][Next]_vars
-----------------------------------------------------------------------------
\* The pages a memory of n frames holds after the pages of refs under exact LRU:
\* those with fewer than n other pages used after their last use.
LastUse(refs, p) == CHOOSE i \in DOMAIN refs :
                        /\ refs[i] = p
                        /\ \A j \in DOMAIN refs : j > i => refs[j] # p
LruMemory(refs, n) ==
    {p \in Range(refs) :
        Cardinality({q \in Range(refs) : LastUse(refs, q) > LastUse(refs, p)}) < n}

PagesOf(items) == [i \in DOMAIN items |-> items[i].pg]

\* The variables have their types, and no two items of the buffer have one page.
TypeOK ==
    /\ buffersize \in BufferSizes /\ {keepcode, ended} \subseteq BOOLEAN
    /\ ts = Len(trace) /\ trace \in Seq(Page)
    /\ tracebuffer \subseteq Item
    /\ toprint \in Seq(Item) /\ printed \in Seq(Item)
    /\ Cardinality(Pages(tracebuffer)) = Cardinality(tracebuffer)

\* "printed in order" (fastslim.py:36): over all batches, what is printed and what
\* waits are references of the trace in its order, and none of them is there twice.
OutputInOrder ==
    LET items == printed \o toprint
    IN  /\ \A i, j \in DOMAIN items : i < j => items[i].tstamp < items[j].tstamp
        /\ \A i \in DOMAIN items : items[i].pg = trace[items[i].tstamp + 1]

\* A reference that is left out would have been a hit in an LRU memory with a
\* frame for every place of the buffer, whatever batch it is in.
LeftOutWouldHit ==
    [][buffersize > 0 /\ trace' # trace /\ tracebuffer' = tracebuffer
        => trace'[ts'] \in LruMemory(trace, buffersize)]_vars

\* Whenever a batch is printed, an LRU memory of that size that replayed the
\* reduced trace up to there holds the pages it would hold after the whole trace.
MemoryAgrees ==
    [][printed' # printed
        => LruMemory(PagesOf(printed'), buffersize) = LruMemory(trace, buffersize)]_vars

\* A page of the trace that is missing from the output, at the end of the input
\* too, is one of the last buffersize pages the trace uses.
OnlyLastBatchIsLost ==
    buffersize > 0 =>
        Range(trace) \subseteq Range(PagesOf(printed)) \union LruMemory(trace, buffersize)
=============================================================================
