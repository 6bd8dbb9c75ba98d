----------------------------- MODULE PagingFifo -----------------------------
(***************************************************************************)
(* The simulator with the fifo policy (fifo.c): one index that walks over  *)
(* the frames, one frame per eviction.  Nothing in fifo.c looks at when a  *)
(* page was loaded; that the index meets the pages in that order follows   *)
(* from allocate_frame filling the frames from the lowest one up; Simulator*)
(* states it as a refinement of FifoQueue.                                 *)
(***************************************************************************)
EXTENDS Paging

VARIABLE ind    \* the next frame to evict

fifoVars == <<vars, ind>>

\* fifo_init
FifoInit == Init /\ ind = 0

\* fifo_evict: the frame it returns, and the index it leaves.
FifoVictim == ind
NextIndPastEnd == ind + 1   \* mutation of NextInd: the index does not wrap
NextIndStuck == ind         \* mutation of NextInd: the index does not move
NextInd == (ind + 1) % MemSize

FifoEvict == Evict(FifoVictim) /\ ind' = NextInd

FifoNext ==
    \/ Reference /\ UNCHANGED ind
    \/ FifoEvict
    \/ Fail(FifoVictim) /\ UNCHANGED ind
    \/ (EndOfTrace \/ Stopped) /\ UNCHANGED ind

FifoSpec == FifoInit /\ [][FifoNext]_fifoVars
-----------------------------------------------------------------------------
\* The index is always a frame.
FifoTypeOK == TypeOK /\ ind \in Frame

=============================================================================
