----------------------------- MODULE FifoQueue ------------------------------
(***************************************************************************)
(* What first-in first-out replacement promises: the resident pages stand  *)
(* in a queue in the order they were loaded; a page loaded into a full     *)
(* memory takes the place of the page at the head, and a reference to a    *)
(* resident page changes nothing.                                          *)
(***************************************************************************)
EXTENDS Naturals, Sequences

CONSTANTS Page,     \* the virtual pages
          Capacity  \* the number of frames

VARIABLE queue      \* the resident pages, oldest first

Resident == {queue[i] : i \in DOMAIN queue}

Init == queue = << >>

\* A page that is not resident is loaded while there is room.
Fill(p) ==
    /\ p \notin Resident
    /\ Len(queue) < Capacity
    /\ queue' = Append(queue, p)

\* A page that is not resident replaces the oldest one.
Replace(p) ==
    /\ p \notin Resident
    /\ Len(queue) = Capacity
    /\ queue' = Append(Tail(queue), p)

Next == \E p \in Page : Fill(p) \/ Replace(p)

Spec == Init /\ [][Next]_queue
=============================================================================
