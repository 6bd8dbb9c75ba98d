-------------------------- MODULE SwapBitmapProofs --------------------------
(***************************************************************************)
(* Proofs about SwapBitmap, for words and bitmaps of any size.             *)
(***************************************************************************)
EXTENDS SwapBitmap, LeastNumber, TLAPS

\* The bit at position j of word ix.
IndexOf(ix, j) == ix * BitsPerWord + j

\* The invariant: the bits past the end are set, so that no allocation fails
\* its assertion.
LeftoverIsSet ==
    \A ix \in 0 .. Words(nbits) - 1, j \in Bit :
        IndexOf(ix, j) >= nbits => j \in v[ix]

IInv == TypeOK /\ LeftoverIsSet /\ failed # "alloc"

-----------------------------------------------------------------------------
(* Indices and words *)

\* An index is its word and its position in the word.
LEMMA Split ==
    ASSUME NEW index \in Nat
    PROVE  /\ WordOf(index) \in Nat /\ BitOf(index) \in Bit
           /\ index = IndexOf(WordOf(index), BitOf(index))
  BY BitsPerWordAssumption DEF WordOf, BitOf, Bit, IndexOf

\* All of a word comes before the next.
LEMMA WordsInOrder ==
    ASSUME NEW q \in Nat, NEW s \in Nat, q < s
    PROVE  q * BitsPerWord + BitsPerWord <= s * BitsPerWord
<1>1. PICK d \in Nat : s = q + 1 + d
  <2> WITNESS s - q - 1 \in Nat
  <2> QED OBVIOUS
<1>2. s * BitsPerWord = q * BitsPerWord + BitsPerWord + d * BitsPerWord
  BY <1>1, BitsPerWordAssumption
<1>3. d * BitsPerWord \in Nat /\ q * BitsPerWord \in Nat
  BY <1>1, BitsPerWordAssumption
<1>4. QED
  BY <1>2, <1>3, BitsPerWordAssumption

LEMMA IndexIsNat ==
    ASSUME NEW ix \in Nat, NEW j \in Bit
    PROVE  IndexOf(ix, j) \in Nat
  BY BitsPerWordAssumption DEF IndexOf, Bit

LEMMA LaterWordIsLater ==
    ASSUME NEW q \in Nat, NEW s \in Nat, q < s, NEW i \in Bit, NEW j \in Bit
    PROVE  IndexOf(q, i) < IndexOf(s, j)
<1>1. q * BitsPerWord + BitsPerWord <= s * BitsPerWord
  BY WordsInOrder
<1>2. q * BitsPerWord \in Nat /\ s * BitsPerWord \in Nat
  BY BitsPerWordAssumption
<1>3. QED
  BY <1>1, <1>2, BitsPerWordAssumption DEF IndexOf, Bit

\* bitmap_translate undoes IndexOf.
LEMMA Translate ==
    ASSUME NEW ix \in Nat, NEW j \in Bit
    PROVE  WordOf(IndexOf(ix, j)) = ix /\ BitOf(IndexOf(ix, j)) = j
<1> DEFINE k == IndexOf(ix, j)
<1>1. k \in Nat
  BY IndexIsNat
<1>2. /\ WordOf(k) \in Nat /\ BitOf(k) \in Bit
      /\ k = IndexOf(WordOf(k), BitOf(k))
  BY <1>1, Split
<1> HIDE DEF k
<1>3. k = IndexOf(ix, j)
  BY DEF k
<1>4. WordOf(k) = ix
  <2>1. ~ (WordOf(k) < ix)
    BY <1>1, <1>2, <1>3, LaterWordIsLater
  <2>2. ~ (ix < WordOf(k))
    BY <1>1, <1>2, <1>3, LaterWordIsLater
  <2>3. QED
    BY <1>2, <2>1, <2>2
<1>5. BitOf(k) = j
  BY <1>2, <1>3, <1>4, BitsPerWordAssumption DEF IndexOf, Bit
<1>6. QED
  BY <1>4, <1>5 DEF k

\* The words of a bitmap of n bits reach up to n, and the last is needed.
LEMMA EnoughWords ==
    ASSUME NEW n \in Nat
    PROVE  /\ Words(n) \in Nat
           /\ n <= Words(n) * BitsPerWord
           /\ Words(n) * BitsPerWord < n + BitsPerWord
<1> DEFINE m == n + BitsPerWord - 1
<1>1. m \in Nat
  BY BitsPerWordAssumption
<1>2. /\ WordOf(m) \in Nat /\ BitOf(m) \in Bit
      /\ m = WordOf(m) * BitsPerWord + BitOf(m)
  BY <1>1, Split DEF IndexOf
<1>3. Words(n) = WordOf(m)
  BY DEF Words, WordOf
<1>4. WordOf(m) * BitsPerWord \in Nat
  BY <1>2, BitsPerWordAssumption
<1>5. QED
  BY <1>2, <1>3, <1>4, BitsPerWordAssumption DEF Bit

LEMMA WordIsThere ==
    ASSUME NEW n \in Nat, NEW index \in 0 .. n - 1
    PROVE  WordOf(index) \in 0 .. Words(n) - 1
<1>1. /\ WordOf(index) \in Nat /\ BitOf(index) \in Bit
      /\ index = IndexOf(WordOf(index), BitOf(index))
  BY Split
<1>2. Words(n) \in Nat /\ n <= Words(n) * BitsPerWord
  BY EnoughWords
<1>3. ~ (Words(n) <= WordOf(index))
  <2>1. SUFFICES ASSUME Words(n) <= WordOf(index) PROVE FALSE
    OBVIOUS
  <2>2. Words(n) * BitsPerWord <= WordOf(index) * BitsPerWord
    <3>1. CASE Words(n) = WordOf(index)
      BY <1>1, <3>1, BitsPerWordAssumption
    <3>2. CASE Words(n) < WordOf(index)
      <4>1. Words(n) * BitsPerWord + BitsPerWord <= WordOf(index) * BitsPerWord
        BY <1>1, <1>2, <3>2, WordsInOrder
      <4>2. Words(n) * BitsPerWord \in Nat /\ WordOf(index) * BitsPerWord \in Nat
        BY <1>1, <1>2, BitsPerWordAssumption
      <4>3. QED
        BY <4>1, <4>2, BitsPerWordAssumption
    <3>3. QED
      BY <1>1, <1>2, <2>1, <3>1, <3>2
  <2>3. Words(n) * BitsPerWord \in Nat /\ WordOf(index) * BitsPerWord \in Nat
    BY <1>1, <1>2, BitsPerWordAssumption
  <2>4. QED
    BY <1>1, <1>2, <2>2, <2>3 DEF IndexOf, Bit
<1>4. QED
  BY <1>1, <1>2, <1>3

-----------------------------------------------------------------------------
(* The invariant *)

\* bitmap_create sets exactly the bits past the end.
LEMMA CreatedIsEmpty ==
    ASSUME NEW n \in Nat, NEW ix \in 0 .. Words(n) - 1, NEW j \in Bit
    PROVE  j \in Created(n)[ix] <=> IndexOf(ix, j) >= n
<1> DEFINE last == Words(n) - 1
<1>1. /\ Words(n) \in Nat /\ n <= Words(n) * BitsPerWord
      /\ Words(n) * BitsPerWord < n + BitsPerWord
  BY EnoughWords
<1>2. last \in Nat /\ last * BitsPerWord \in Nat
      /\ Words(n) * BitsPerWord = last * BitsPerWord + BitsPerWord
  BY <1>1, BitsPerWordAssumption
<1>3. j \in Int /\ 0 <= j /\ j < BitsPerWord
  BY BitsPerWordAssumption DEF Bit
<1>4. CASE ix # last
  <2>1. ix * BitsPerWord + BitsPerWord <= last * BitsPerWord /\ ix * BitsPerWord \in Nat
    BY <1>2, <1>4, WordsInOrder, BitsPerWordAssumption
  <2>2. IndexOf(ix, j) < n
    BY <1>1, <1>2, <1>3, <2>1, BitsPerWordAssumption DEF IndexOf
  <2>3. Created(n)[ix] = {}
    BY <1>4 DEF Created
  <2>4. IndexOf(ix, j) \in Nat
    BY IndexIsNat
  <2>5. QED
    BY <2>2, <2>3, <2>4
<1>5. CASE ix = last /\ Words(n) > n \div BitsPerWord
  <2>1. Created(n)[ix] = Leftover(n)
    BY <1>5 DEF Created
  <2>2. j \in Leftover(n) <=> j >= n - last * BitsPerWord
    BY DEF Leftover
  <2>3. QED
    BY <1>2, <1>3, <1>5, <2>1, <2>2 DEF IndexOf
<1>6. CASE ix = last /\ ~ (Words(n) > n \div BitsPerWord)
  <2>1. Created(n)[ix] = {}
    BY <1>6 DEF Created
  <2>2. /\ WordOf(n) \in Nat /\ BitOf(n) \in Bit
        /\ n = WordOf(n) * BitsPerWord + BitOf(n)
    BY Split DEF IndexOf
  <2>3. Words(n) <= WordOf(n)
    BY <1>1, <1>6, <2>2 DEF WordOf
  <2>4. Words(n) * BitsPerWord <= WordOf(n) * BitsPerWord
    <3>1. CASE Words(n) = WordOf(n)
      BY <1>1, <3>1, BitsPerWordAssumption
    <3>2. CASE Words(n) < WordOf(n)
      <4>1. Words(n) * BitsPerWord + BitsPerWord <= WordOf(n) * BitsPerWord
        BY <1>1, <2>2, <3>2, WordsInOrder
      <4>2. Words(n) * BitsPerWord \in Nat /\ WordOf(n) * BitsPerWord \in Nat
        BY <1>1, <2>2, BitsPerWordAssumption
      <4>3. QED
        BY <4>1, <4>2, BitsPerWordAssumption
    <3>3. QED
      BY <1>1, <2>2, <2>3, <3>1, <3>2
  <2>5. WordOf(n) * BitsPerWord \in Nat /\ BitOf(n) \in Nat
    BY <2>2, BitsPerWordAssumption DEF Bit
  <2>6. IndexOf(ix, j) < n
    BY <1>2, <1>3, <1>6, <2>2, <2>4, <2>5, BitsPerWordAssumption DEF IndexOf
  <2>7. IndexOf(ix, j) \in Nat
    BY IndexIsNat
  <2>8. QED
    BY <2>1, <2>6, <2>7
<1>7. QED
  BY <1>4, <1>5, <1>6

LEMMA InitInv == Init => IInv
<1>1. SUFFICES ASSUME Init PROVE IInv
  OBVIOUS
<1>2. nbits \in Nat /\ v = Created(nbits)
  BY <1>1, MaxBitsAssumption DEF Init
<1>3. v \in [0 .. Words(nbits) - 1 -> SUBSET Bit]
  BY <1>2 DEF Created, Leftover
<1>4. TypeOK
  BY <1>1, <1>3, MaxBitsAssumption DEF Init, TypeOK
<1>5. LeftoverIsSet
  BY <1>2, CreatedIsEmpty DEF LeftoverIsSet
<1>6. QED
  BY <1>1, <1>4, <1>5 DEF IInv, Init

\* What bitmap_alloc hands out is the lowest clear bit, and inside the bitmap.
LEMMA AllocFacts ==
    ASSUME IInv, OpenWords # {}
    PROVE  /\ AllocIndex \in 0 .. nbits - 1
           /\ ~ IsSet(AllocIndex)
           /\ \A r \in 0 .. nbits - 1 : ~ IsSet(r) => AllocIndex <= r
<1>1. nbits \in Nat /\ Words(nbits) \in Nat /\ v \in [0 .. Words(nbits) - 1 -> SUBSET Bit]
  BY MaxBitsAssumption, EnoughWords DEF IInv, TypeOK
<1> DEFINE ix == Min(OpenWords)
           j  == Min(Bit \ v[ix])
<1>2. OpenWords \subseteq 0 .. Words(nbits) - 1
  BY <1>1 DEF OpenWords
<1>3. ix \in OpenWords /\ \A y \in OpenWords : ix <= y
  <2>1. OpenWords \subseteq Nat
    BY <1>1, <1>2
  <2>2. QED
    BY <2>1, LeastExists
<1>4. ix \in 0 .. Words(nbits) - 1 /\ Bit \ v[ix] # {}
  <2>1. ix \in 0 .. Words(nbits) - 1
    BY <1>2, <1>3
  <2>2. v[ix] # Bit /\ v[ix] \subseteq Bit
    BY <1>1, <1>3, <2>1 DEF OpenWords, WORD_ALLBITS
  <2>3. QED
    BY <2>1, <2>2
<1>5. j \in Bit /\ j \notin v[ix] /\ \A y \in Bit \ v[ix] : j <= y
  <2>1. Bit \ v[ix] \subseteq Nat
    BY DEF Bit
  <2>2. j \in Bit \ v[ix] /\ \A y \in Bit \ v[ix] : j <= y
    BY <1>4, <2>1, LeastExists
  <2>3. QED
    BY <2>2
<1>6. AllocIndex = IndexOf(ix, j)
  BY DEF AllocIndex, IndexOf
<1> HIDE DEF ix, j
<1>7. WordOf(AllocIndex) = ix /\ BitOf(AllocIndex) = j
  BY <1>4, <1>5, <1>6, Translate
<1>8. AllocIndex \in Nat
  BY <1>4, <1>5, <1>6, IndexIsNat
<1>9. AllocIndex < nbits
  BY <1>1, <1>4, <1>5, <1>6, <1>8 DEF IInv, LeftoverIsSet
<1>10. ~ IsSet(AllocIndex)
  BY <1>5, <1>7 DEF IsSet
<1>11. ASSUME NEW r \in 0 .. nbits - 1, ~ IsSet(r)
       PROVE  AllocIndex <= r
  <2>1. /\ WordOf(r) \in Nat /\ BitOf(r) \in Bit
        /\ r = IndexOf(WordOf(r), BitOf(r))
    BY Split
  <2>2. WordOf(r) \in 0 .. Words(nbits) - 1
    BY <1>1, WordIsThere
  <2>3. BitOf(r) \notin v[WordOf(r)]
    BY <1>11 DEF IsSet
  <2>4. WordOf(r) \in OpenWords
    BY <1>1, <2>1, <2>2, <2>3 DEF OpenWords, WORD_ALLBITS
  <2>5. ix <= WordOf(r)
    BY <1>3, <2>4
  <2>6. CASE ix < WordOf(r)
    <3>1. IndexOf(ix, j) < IndexOf(WordOf(r), BitOf(r))
      BY <1>4, <1>5, <2>1, <2>6, LaterWordIsLater
    <3>2. QED
      BY <1>6, <1>8, <2>1, <3>1
  <2>7. CASE ix = WordOf(r)
    <3>1. j <= BitOf(r)
      BY <1>5, <2>1, <2>3, <2>7
    <3>2. ix * BitsPerWord \in Nat
      BY <1>4, BitsPerWordAssumption
    <3>3. QED
      BY <1>5, <1>6, <2>1, <2>7, <3>1, <3>2 DEF IndexOf, Bit
  <2>8. QED
    BY <1>4, <2>1, <2>5, <2>6, <2>7
<1>12. QED
  BY <1>1, <1>8, <1>9, <1>10, <1>11

\* A bit that is set keeps types and the bits past the end.
LEMMA SetKeeps ==
    ASSUME IInv, NEW a \in 0 .. nbits - 1, nbits' = nbits,
           v' = [v EXCEPT ![WordOf(a)] = @ \union {BitOf(a)}]
    PROVE  /\ v' \in [0 .. Words(nbits) - 1 -> SUBSET Bit]
           /\ LeftoverIsSet'
<1>1. nbits \in Nat /\ v \in [0 .. Words(nbits) - 1 -> SUBSET Bit]
  BY MaxBitsAssumption DEF IInv, TypeOK
<1>2. BitOf(a) \in Bit
  BY Split
<1>3. \A ix \in 0 .. Words(nbits) - 1 : v[ix] \subseteq v'[ix]
  BY <1>1
<1>4. LeftoverIsSet'
  BY <1>3 DEF IInv, LeftoverIsSet, Words, Bit, IndexOf
<1>5. QED
  BY <1>1, <1>2, <1>4

LEMMA ClearKeeps ==
    ASSUME IInv, NEW a \in 0 .. nbits - 1, nbits' = nbits,
           v' = [v EXCEPT ![WordOf(a)] = @ \ {BitOf(a)}]
    PROVE  /\ v' \in [0 .. Words(nbits) - 1 -> SUBSET Bit]
           /\ LeftoverIsSet'
<1>1. nbits \in Nat /\ Words(nbits) \in Nat /\ v \in [0 .. Words(nbits) - 1 -> SUBSET Bit]
  BY MaxBitsAssumption, EnoughWords DEF IInv, TypeOK
<1>2. a = IndexOf(WordOf(a), BitOf(a))
  BY Split
<1>3. ASSUME NEW ix \in 0 .. Words(nbits) - 1, NEW j \in Bit, IndexOf(ix, j) >= nbits
      PROVE  j \in v'[ix]
  <2>1. j \in v[ix]
    BY <1>3 DEF IInv, LeftoverIsSet
  <2>2. IndexOf(ix, j) # a
    BY <1>1, <1>3
  <2>3. ~ (ix = WordOf(a) /\ j = BitOf(a))
    BY <1>2, <2>2
  <2>4. QED
    BY <1>1, <2>1, <2>3
<1>4. LeftoverIsSet'
  BY <1>3 DEF LeftoverIsSet, Words, Bit, IndexOf
<1>5. QED
  BY <1>1, <1>4

LEMMA NextInv == IInv /\ [Next]_vars => IInv'
<1> SUFFICES ASSUME IInv, [Next]_vars PROVE IInv'
  OBVIOUS
<1> USE DEF IInv
<1>1. nbits \in Nat /\ nbits \in 0 .. MaxBits
  BY MaxBitsAssumption DEF TypeOK
<1>2. CASE Alloc
  <2>1. AllocIndex \in 0 .. nbits - 1
    BY <1>2, AllocFacts DEF Alloc
  <2>2. failed' = "none" /\ result' \in -1 .. MaxBits /\ nbits' = nbits
    BY <1>1, <1>2, <2>1, MaxBitsAssumption DEF Alloc
  <2>3. v' \in [0 .. Words(nbits) - 1 -> SUBSET Bit] /\ LeftoverIsSet'
    BY <1>2, <2>1, SetKeeps DEF Alloc
  <2>4. QED
    BY <2>2, <2>3 DEF TypeOK, Words, Bit
<1>3. CASE AllocFull
  <2>1. UNCHANGED <<nbits, v, failed>> /\ result' \in -1 .. MaxBits
    BY <1>3, MaxBitsAssumption DEF AllocFull
  <2>2. QED
    BY <2>1 DEF TypeOK, LeftoverIsSet, Words, Bit, IndexOf
<1>4. ASSUME NEW index \in 0 .. MaxBits, Mark(index)
      PROVE  IInv'
  <2>1. index \in 0 .. nbits - 1 /\ nbits' = nbits
    BY <1>1, <1>4 DEF Mark
  <2>2. v' \in [0 .. Words(nbits) - 1 -> SUBSET Bit] /\ LeftoverIsSet'
    BY <1>4, <2>1, SetKeeps DEF Mark
  <2>3. QED
    BY <1>4, <2>1, <2>2 DEF Mark, TypeOK, Words, Bit
<1>5. ASSUME NEW index \in 0 .. MaxBits, Unmark(index)
      PROVE  IInv'
  <2>1. index \in 0 .. nbits - 1 /\ nbits' = nbits
    BY <1>1, <1>5 DEF Unmark
  <2>2. v' \in [0 .. Words(nbits) - 1 -> SUBSET Bit] /\ LeftoverIsSet'
    BY <1>5, <2>1, ClearKeeps DEF Unmark
  <2>3. QED
    BY <1>5, <2>1, <2>2 DEF Unmark, TypeOK, Words, Bit
<1>6. ASSUME NEW index \in 0 .. MaxBits, MisusedMark(index) \/ MisusedUnmark(index)
      PROVE  IInv'
  BY <1>6 DEF MisusedMark, MisusedUnmark, TypeOK, LeftoverIsSet, Words, Bit, IndexOf
<1>7. CASE UNCHANGED vars
  BY <1>7 DEF vars, TypeOK, LeftoverIsSet, Words, Bit, IndexOf
<1>8. QED
  BY <1>2, <1>3, <1>4, <1>5, <1>6, <1>7 DEF Next, Stopped

\* Every step keeps the bits past the end set.
THEOREM Invariance == Spec => []IInv
  BY InitInv, NextInv, PTL DEF Spec

\* Every bitmap keeps as many words as its bits need, and no assertion of
\* bitmap_alloc fails (swap.c:79), for words and bitmaps of any size.
THEOREM TypeCorrect == Spec => [](TypeOK /\ failed # "alloc")
<1>1. IInv => TypeOK /\ failed # "alloc"
  BY DEF IInv
<1>2. QED
  BY Invariance, <1>1, PTL

-----------------------------------------------------------------------------
(* The refinement *)

\* The bit at one index changes, and no other.
LEMMA OthersStay ==
    ASSUME IInv, NEW a \in 0 .. nbits - 1, NEW i \in 0 .. nbits - 1, NEW w,
           v' = [v EXCEPT ![WordOf(a)] = w],
           \A b \in Bit \ {BitOf(a)} : b \in w <=> b \in v[WordOf(a)]
    PROVE  /\ i # a => (IsSet(i)' <=> IsSet(i))
           /\ i = a => (IsSet(i)' <=> BitOf(a) \in w)
<1>1. nbits \in Nat /\ v \in [0 .. Words(nbits) - 1 -> SUBSET Bit]
  BY MaxBitsAssumption DEF IInv, TypeOK
<1>2. WordOf(a) \in 0 .. Words(nbits) - 1 /\ WordOf(i) \in 0 .. Words(nbits) - 1
  BY <1>1, WordIsThere
<1>3. /\ i = IndexOf(WordOf(i), BitOf(i)) /\ a = IndexOf(WordOf(a), BitOf(a))
      /\ BitOf(i) \in Bit
  BY Split
<1>4. IsSet(i)' <=> BitOf(i) \in v'[WordOf(i)]
  BY DEF IsSet, BitOf, WordOf
<1>5. IsSet(i) <=> BitOf(i) \in v[WordOf(i)]
  BY DEF IsSet
<1>6. CASE WordOf(i) # WordOf(a)
  BY <1>1, <1>2, <1>4, <1>5, <1>6
<1>7. CASE WordOf(i) = WordOf(a)
  <2>1. v'[WordOf(i)] = w
    BY <1>1, <1>2, <1>7
  <2>2. i # a => BitOf(i) # BitOf(a)
    BY <1>3, <1>7
  <2>3. QED
    BY <1>3, <1>4, <1>5, <1>7, <2>1, <2>2
<1>8. QED
  BY <1>6, <1>7

LEMMA SetAddsSlot ==
    ASSUME IInv, NEW a \in 0 .. nbits - 1, nbits' = nbits,
           v' = [v EXCEPT ![WordOf(a)] = @ \union {BitOf(a)}]
    PROVE  UsedSlots' = UsedSlots \union {a}
<1>1. ASSUME NEW i \in 0 .. nbits - 1
      PROVE  IsSet(i)' <=> IsSet(i) \/ i = a
  <2> DEFINE w == v[WordOf(a)] \union {BitOf(a)}
  <2>1. v' = [v EXCEPT ![WordOf(a)] = w]
    OBVIOUS
  <2>2. \A b \in Bit \ {BitOf(a)} : b \in w <=> b \in v[WordOf(a)]
    OBVIOUS
  <2>3. BitOf(a) \in w
    OBVIOUS
  <2> HIDE DEF w
  <2>4. /\ i # a => (IsSet(i)' <=> IsSet(i))
        /\ i = a => (IsSet(i)' <=> BitOf(a) \in w)
    BY <2>1, <2>2, OthersStay
  <2>5. QED
    BY <2>3, <2>4
<1>2. QED
  BY <1>1 DEF UsedSlots

LEMMA ClearRemovesSlot ==
    ASSUME IInv, NEW a \in 0 .. nbits - 1, nbits' = nbits,
           v' = [v EXCEPT ![WordOf(a)] = @ \ {BitOf(a)}]
    PROVE  UsedSlots' = UsedSlots \ {a}
<1>1. ASSUME NEW i \in 0 .. nbits - 1
      PROVE  IsSet(i)' <=> IsSet(i) /\ i # a
  <2> DEFINE w == v[WordOf(a)] \ {BitOf(a)}
  <2>1. v' = [v EXCEPT ![WordOf(a)] = w]
    OBVIOUS
  <2>2. \A b \in Bit \ {BitOf(a)} : b \in w <=> b \in v[WordOf(a)]
    OBVIOUS
  <2>3. BitOf(a) \notin w
    OBVIOUS
  <2> HIDE DEF w
  <2>4. /\ i # a => (IsSet(i)' <=> IsSet(i))
        /\ i = a => (IsSet(i)' <=> BitOf(a) \in w)
    BY <2>1, <2>2, OthersStay
  <2>5. QED
    BY <2>3, <2>4
<1>2. QED
  BY <1>1 DEF UsedSlots

LEMMA UnusedIsClear ==
    ASSUME IInv
    PROVE  Allocator!Unused = {i \in 0 .. nbits - 1 : ~ IsSet(i)}
  BY DEF Allocator!Unused, UsedSlots

LEMMA InitMaps == Init => Allocator!Init
<1> SUFFICES ASSUME Init PROVE Allocator!Init
  OBVIOUS
<1>1. nbits \in Nat /\ v = Created(nbits)
  BY MaxBitsAssumption DEF Init
<1>2. ASSUME NEW i \in 0 .. nbits - 1
      PROVE  ~ IsSet(i)
  <2>1. WordOf(i) \in 0 .. Words(nbits) - 1
    BY <1>1, WordIsThere
  <2>2. BitOf(i) \in Bit /\ i = IndexOf(WordOf(i), BitOf(i))
    BY Split
  <2>3. BitOf(i) \in Created(nbits)[WordOf(i)] <=> i >= nbits
    BY <1>1, <2>1, <2>2, CreatedIsEmpty
  <2>4. QED
    BY <1>1, <2>3 DEF IsSet
<1>3. UsedSlots = {}
  BY <1>2 DEF UsedSlots
<1>4. QED
  BY <1>3 DEF Init, Allocator!Init

LEMMA NextMaps ==
    ASSUME IInv, [Next]_vars
    PROVE  [Allocator!Next]_Allocator!allocVars
<1>1. nbits \in Nat /\ v \in [0 .. Words(nbits) - 1 -> SUBSET Bit]
  BY MaxBitsAssumption DEF IInv, TypeOK
<1>2. CASE Alloc
  <2>1. /\ AllocIndex \in 0 .. nbits - 1 /\ ~ IsSet(AllocIndex)
        /\ \A r \in 0 .. nbits - 1 : ~ IsSet(r) => AllocIndex <= r
    BY <1>2, AllocFacts DEF Alloc
  <2>2. UsedSlots' = UsedSlots \union {AllocIndex}
    BY <1>2, <2>1, SetAddsSlot DEF Alloc
  <2>3. AllocIndex \in Allocator!Unused /\ \A r \in Allocator!Unused : AllocIndex <= r
    BY <2>1, UnusedIsClear
  <2>4. nbits' = nbits /\ result' = AllocIndex
    BY <1>2 DEF Alloc
  <2>5. Allocator!Alloc
    BY <2>2, <2>3, <2>4 DEF Allocator!Alloc
  <2>6. QED
    BY <2>5 DEF Allocator!Next
<1>3. CASE AllocFull
  <2>1. ASSUME NEW i \in 0 .. nbits - 1
        PROVE  IsSet(i)
    <3>1. WordOf(i) \in 0 .. Words(nbits) - 1 /\ BitOf(i) \in Bit
      BY <1>1, WordIsThere, Split
    <3>2. v[WordOf(i)] = Bit
      BY <1>1, <1>3, <3>1 DEF AllocFull, OpenWords, WORD_ALLBITS
    <3>3. QED
      BY <3>1, <3>2 DEF IsSet
  <2>2. Allocator!Unused = {}
    BY <2>1, UnusedIsClear
  <2>3. UNCHANGED <<nbits, UsedSlots>> /\ result' = -1
    BY <1>3 DEF AllocFull, UsedSlots, IsSet
  <2>4. QED
    BY <2>2, <2>3 DEF Allocator!Full, Allocator!Next
<1>4. ASSUME NEW index \in 0 .. MaxBits, Mark(index)
      PROVE  Allocator!Mark
  <2>1. index \in 0 .. nbits - 1 /\ ~ IsSet(index)
    BY <1>1, <1>4 DEF Mark
  <2>2. index \in Allocator!Unused
    BY <2>1, UnusedIsClear
  <2>3. UsedSlots' = UsedSlots \union {index}
    BY <1>4, <2>1, SetAddsSlot DEF Mark
  <2>4. QED
    BY <1>4, <2>2, <2>3 DEF Mark, Allocator!Mark
<1>5. ASSUME NEW index \in 0 .. MaxBits, Unmark(index)
      PROVE  Allocator!Unmark
  <2>1. index \in 0 .. nbits - 1 /\ IsSet(index)
    BY <1>1, <1>5 DEF Unmark
  <2>2. index \in UsedSlots
    BY <2>1 DEF UsedSlots
  <2>3. UsedSlots' = UsedSlots \ {index}
    BY <1>5, <2>1, ClearRemovesSlot DEF Unmark
  <2>4. QED
    BY <1>5, <2>2, <2>3 DEF Unmark, Allocator!Unmark
<1>6. CASE /\ UNCHANGED <<nbits, v, result>>
  BY <1>6 DEF Allocator!allocVars, UsedSlots, IsSet
<1>7. QED
  BY <1>2, <1>3, <1>4, <1>5, <1>6
  DEF Next, MisusedMark, MisusedUnmark, Stopped, vars, Allocator!Next

\* The words of swap.c implement a set of used slots: an allocation returns the
\* lowest unused one and fails only when there is none, and mark and unmark
\* change one slot, for words and bitmaps of any size.
THEOREM BitmapImplementsAllocator == Spec => ImplementsAllocator
<1>1. IInv /\ [Next]_vars => [Allocator!Next]_Allocator!allocVars
  BY NextMaps
<1>2. QED
  BY InitMaps, Invariance, <1>1, PTL DEF Spec, ImplementsAllocator, Allocator!Spec
=============================================================================
