--------------------------- MODULE SlotAllocator ----------------------------
(***************************************************************************)
(* What swap.c promises about the slots of the swap file: a set of used    *)
(* slots out of a fixed range; an allocation takes the lowest slot that is *)
(* not used, and fails only when there is none.                            *)
(***************************************************************************)
EXTENDS Integers

CONSTANT MaxSlots   \* the largest swap file considered

VARIABLES size,     \* the number of slots
          used,     \* the slots in use
          result    \* the last slot allocated, or -1 when there was none

allocVars == <<size, used, result>>

Init == /\ size \in 0 .. MaxSlots
        /\ used = {}
        /\ result = -1

Unused == (0 .. size - 1) \ used

Alloc == /\ \E s \in Unused :
              /\ \A r \in Unused : s <= r
              /\ used' = used \union {s}
              /\ result' = s
         /\ UNCHANGED size

Full == /\ Unused = {}
        /\ result' = -1
        /\ UNCHANGED <<size, used>>

Mark == /\ \E s \in Unused : used' = used \union {s}
        /\ UNCHANGED <<size, result>>

Unmark == /\ \E s \in used : used' = used \ {s}
          /\ UNCHANGED <<size, result>>

Next == Alloc \/ Full \/ Mark \/ Unmark

Spec == Init /\ [][Next]_allocVars
=============================================================================
