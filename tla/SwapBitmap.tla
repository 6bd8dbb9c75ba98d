----------------------------- MODULE SwapBitmap -----------------------------
(***************************************************************************)
(* The bitmap of swap.c, word by word.  A word is the set of the positions *)
(* of its bits that are 1.  The bits past nbits in the last word are set   *)
(* when the bitmap is created, so that no search ever finds them clear.    *)
(* The simulator only allocates; bitmap_mark and bitmap_unmark are part of *)
(* the same component and may be called at any time here.                  *)
(***************************************************************************)
EXTENDS Integers, FiniteSetsExt

CONSTANTS
    BitsPerWord,    \* BITS_PER_WORD
    MaxBits         \* bound of the model: the largest bitmap created

ASSUME BitsPerWordAssumption == BitsPerWord \in Nat \ {0}
ASSUME MaxBitsAssumption == MaxBits \in Nat

VARIABLES
    nbits,  \* b->nbits
    v,      \* b->v
    result, \* *index of the last bitmap_alloc, or -1 if it returned 1
    failed  \* the function whose assertion failed, or "none"

vars == <<nbits, v, result, failed>>

Bit == 0 .. BitsPerWord - 1
WORD_ALLBITS == Bit
Words(n) == (n + BitsPerWord - 1) \div BitsPerWord

\* Mutation of BitOf: the position is not reduced to the word.
BitOfUnreduced(index) == index

\* bitmap_translate
WordOf(index) == index \div BitsPerWord
BitOf(index)  == index % BitsPerWord

\* Mutation of Leftover: the bits past the end are left clear.
LeftoverClear(n) == {}

\* bitmap_create: the last word of a bitmap of n bits starts with its leftover
\* bits set, all other words are empty.
Leftover(n) == {j \in Bit : j >= n - (Words(n) - 1) * BitsPerWord}

Created(n) == [ix \in 0 .. Words(n) - 1 |->
                  IF Words(n) > n \div BitsPerWord /\ ix = Words(n) - 1
                  THEN Leftover(n) ELSE {}]

Init == /\ nbits \in 0 .. MaxBits
        /\ v = Created(nbits)
        /\ result = -1
        /\ failed = "none"

\* bitmap_alloc: the first word that is not full, and its lowest clear bit.
OpenWords == {ix \in DOMAIN v : v[ix] # WORD_ALLBITS}
AllocIndex == LET ix == Min(OpenWords)
              IN  ix * BitsPerWord + Min(Bit \ v[ix])

Alloc ==
    /\ failed = "none"
    /\ OpenWords # {}
    /\ v' = [v EXCEPT ![WordOf(AllocIndex)] = @ \union {BitOf(AllocIndex)}]
    /\ result' = AllocIndex
    /\ failed' = IF AllocIndex < nbits THEN "none" ELSE "alloc"
    /\ UNCHANGED nbits

AllocFull ==
    /\ failed = "none"
    /\ OpenWords = {}
    /\ result' = -1
    /\ UNCHANGED <<nbits, v, failed>>

IsSet(index) == BitOf(index) \in v[WordOf(index)]

Mark(index) ==
    /\ failed = "none"
    /\ index < nbits
    /\ ~IsSet(index)
    /\ v' = [v EXCEPT ![WordOf(index)] = @ \union {BitOf(index)}]
    /\ UNCHANGED <<nbits, result, failed>>

Unmark(index) ==
    /\ failed = "none"
    /\ index < nbits
    /\ IsSet(index)
    /\ v' = [v EXCEPT ![WordOf(index)] = @ \ {BitOf(index)}]
    /\ UNCHANGED <<nbits, result, failed>>

\* A caller that marks a set bit, clears a clear one or leaves the bitmap.
MisusedMark(index) ==
    /\ failed = "none"
    /\ index < nbits => IsSet(index)
    /\ failed' = "mark"
    /\ UNCHANGED <<nbits, v, result>>

MisusedUnmark(index) ==
    /\ failed = "none"
    /\ index < nbits => ~IsSet(index)
    /\ failed' = "unmark"
    /\ UNCHANGED <<nbits, v, result>>

Stopped == failed # "none" /\ UNCHANGED vars

Next ==
    \/ Alloc
    \/ AllocFull
    \/ \E index \in 0 .. MaxBits :
        \/ Mark(index) \/ Unmark(index)
        \/ MisusedMark(index) \/ MisusedUnmark(index)
    \/ Stopped

Spec == Init /\ [][Next]_vars
-----------------------------------------------------------------------------
TypeOK ==
    /\ nbits \in 0 .. MaxBits
    /\ v \in [0 .. Words(nbits) - 1 -> SUBSET Bit]
    /\ result \in -1 .. MaxBits
    /\ failed \in {"none", "alloc", "mark", "unmark"}

UsedSlots == {i \in 0 .. nbits - 1 : IsSet(i)}

Allocator == INSTANCE SlotAllocator
                 WITH MaxSlots <- MaxBits, size <- nbits, used <- UsedSlots

\* The words implement the set of used slots after any calls: an allocation that
\* fails found every slot in use, and one that succeeds returned the lowest; the
\* bits past the end are never handed out, as bitmap_alloc asserts (swap.c:79).
ImplementsAllocator == Allocator!Spec
=============================================================================
