--------------------------- MODULE FastSlimProofs ---------------------------
(***************************************************************************)
(* Proofs about the trace reduction, for any trace, buffer size and set of *)
(* pages.  All items are unmarked, so a batch is printed in the order of   *)
(* the list it waited in; and the buffer always holds the pages that the   *)
(* trace has used since the buffer was last emptied, which is what an LRU  *)
(* memory of the same size keeps whatever came before.                     *)
(***************************************************************************)
EXTENDS FastSlim, FiniteSetTheorems, SequenceTheorems, LeastNumber, TLAPS

\* The pages used after the first k references.
Recent(refs, k) == {refs[i] : i \in {j \in DOMAIN refs : j > k}}

Increasing(items) ==
    \A i, j \in DOMAIN items : i < j => items[i].tstamp < items[j].tstamp

\* The items that wait are the items of the buffer, none of them with the mark.
Lists ==
    /\ tracebuffer = Range(toprint)
    /\ IsFiniteSet(tracebuffer)
    /\ \A ti \in tracebuffer : ~ti.marked
    /\ buffersize > 0 => Cardinality(tracebuffer) <= buffersize

\* The items are in the order of the references they stand for.
InOrderOf(items, refs) ==
    /\ Increasing(items)
    /\ \A i \in DOMAIN items : /\ items[i].tstamp < Len(refs)
                              /\ items[i].pg = refs[items[i].tstamp + 1]

Kept == InOrderOf(printed \o toprint, trace)

\* The buffer holds the pages that have been used since it was emptied, and all
\* pages used before are in the output.
Batch ==
    /\ toprint = <<>> => trace = <<>>
    /\ toprint # <<>> => Pages(tracebuffer) = Recent(trace, toprint[1].tstamp)
    /\ Range(trace) \subseteq Range(PagesOf(printed)) \union Pages(tracebuffer)

IInv == TypeOK /\ Lists /\ Kept /\ Batch

-----------------------------------------------------------------------------
\* LruMemory, on any sequence of references.
LEMMA RangeFinite ==
    ASSUME NEW S, NEW refs \in Seq(S)
    PROVE  IsFiniteSet(Range(refs))
<1>1. refs \in [1 .. Len(refs) -> S] /\ DOMAIN refs = 1 .. Len(refs) /\ Len(refs) \in Nat
  BY LenProperties
<1>2. IsFiniteSet(1 .. Len(refs))
  BY <1>1, FS_Interval
<1>3. refs \in Surjection(1 .. Len(refs), Range(refs))
  BY <1>1 DEF Surjection, Range
<1>4. QED
  BY <1>2, <1>3, FS_Surjection

LEMMA LastUseExists ==
    ASSUME NEW S, NEW refs \in Seq(S), NEW p \in Range(refs)
    PROVE  /\ LastUse(refs, p) \in DOMAIN refs
           /\ refs[LastUse(refs, p)] = p
           /\ \A j \in DOMAIN refs : j > LastUse(refs, p) => refs[j] # p
<1> DEFINE Uses == {i \in DOMAIN refs : refs[i] = p}
           T == {Len(refs) - i : i \in Uses}
<1>1. DOMAIN refs = 1 .. Len(refs) /\ Len(refs) \in Nat
  BY LenProperties
<1>2. T \subseteq Nat
  BY <1>1
<1>3. T # {}
  BY DEF Range
<1>4. PICK i \in Uses : Min(T) = Len(refs) - i
  BY <1>2, <1>3, LeastExists
<1>5. \A j \in Uses : Min(T) <= Len(refs) - j
  BY <1>2, <1>3, LeastExists
<1>6. \A j \in DOMAIN refs : j > i => refs[j] # p
  <2> SUFFICES ASSUME NEW j \in DOMAIN refs, j > i, refs[j] = p
               PROVE  FALSE
    OBVIOUS
  <2>1. Len(refs) - i <= Len(refs) - j
    BY <1>4, <1>5
  <2>2. QED
    BY <1>1, <2>1
<1>7. QED
  BY <1>6 DEF LastUse

\* A page has been used recently if and only if its last use is recent.
LEMMA LastUseRecent ==
    ASSUME NEW S, NEW refs \in Seq(S), NEW k \in Nat, NEW p \in Range(refs)
    PROVE  p \in Recent(refs, k) <=> LastUse(refs, p) > k
<1>1. DOMAIN refs = 1 .. Len(refs) /\ Len(refs) \in Nat
  BY LenProperties
<1>2. /\ LastUse(refs, p) \in DOMAIN refs
      /\ refs[LastUse(refs, p)] = p
      /\ \A j \in DOMAIN refs : j > LastUse(refs, p) => refs[j] # p
  BY LastUseExists
<1>3. ASSUME p \in Recent(refs, k)
      PROVE  LastUse(refs, p) > k
  <2>1. PICK j \in DOMAIN refs : j > k /\ refs[j] = p
    BY <1>3 DEF Recent
  <2>2. ~ (j > LastUse(refs, p))
    BY <1>2, <2>1
  <2>3. QED
    BY <1>1, <1>2, <2>1, <2>2
<1>4. ASSUME LastUse(refs, p) > k
      PROVE  p \in Recent(refs, k)
  BY <1>2, <1>4 DEF Recent
<1>5. QED
  BY <1>3, <1>4

LEMMA RecentInRange ==
    ASSUME NEW S, NEW refs \in Seq(S), NEW k \in Nat
    PROVE  /\ Recent(refs, k) \subseteq Range(refs)
           /\ IsFiniteSet(Recent(refs, k))
<1>1. Recent(refs, k) \subseteq Range(refs)
  BY DEF Recent, Range
<1>2. QED
  BY <1>1, RangeFinite, FS_Subset

\* An LRU memory with a frame for every page used recently holds all of them ...
LEMMA RecentStays ==
    ASSUME NEW S, NEW refs \in Seq(S), NEW k \in Nat, NEW n \in Nat,
           Cardinality(Recent(refs, k)) <= n
    PROVE  Recent(refs, k) \subseteq LruMemory(refs, n)
<1> SUFFICES ASSUME NEW p \in Recent(refs, k)
             PROVE  p \in LruMemory(refs, n)
  OBVIOUS
<1> DEFINE Later == {q \in Range(refs) : LastUse(refs, q) > LastUse(refs, p)}
<1>1. p \in Range(refs) /\ IsFiniteSet(Recent(refs, k))
  BY RecentInRange
<1>2. LastUse(refs, p) > k
  BY <1>1, LastUseRecent
<1>3. \A q \in Range(refs) : LastUse(refs, q) \in Nat
  <2> TAKE q \in Range(refs)
  <2>1. LastUse(refs, q) \in DOMAIN refs
    BY LastUseExists
  <2>2. QED
    BY <2>1, LenProperties
<1>4. Later \subseteq Recent(refs, k) \ {p}
  <2> SUFFICES ASSUME NEW q \in Later
               PROVE  q \in Recent(refs, k) /\ q # p
    OBVIOUS
  <2>1. LastUse(refs, q) > k
    BY <1>1, <1>2, <1>3
  <2>2. q \in Recent(refs, k)
    BY <2>1, LastUseRecent
  <2>3. QED
    BY <1>1, <1>3, <2>2
<1>5. /\ IsFiniteSet(Recent(refs, k) \ {p})
      /\ Cardinality(Recent(refs, k) \ {p}) = Cardinality(Recent(refs, k)) - 1
  BY <1>1, FS_RemoveElement
<1>6. IsFiniteSet(Later) /\ Cardinality(Later) <= Cardinality(Recent(refs, k) \ {p})
  BY <1>4, <1>5, FS_Subset
<1>7. Cardinality(Later) \in Nat /\ Cardinality(Recent(refs, k)) \in Nat
  BY <1>1, <1>6, FS_CardinalityType
<1>8. Cardinality(Later) < n
  BY <1>5, <1>6, <1>7
<1>9. QED
  BY <1>1, <1>8 DEF LruMemory

\* ... and no other if it has a frame for each of them only.
LEMMA OthersAreGone ==
    ASSUME NEW S, NEW refs \in Seq(S), NEW k \in Nat
    PROVE  LruMemory(refs, Cardinality(Recent(refs, k))) = Recent(refs, k)
<1> DEFINE n == Cardinality(Recent(refs, k))
<1>1. Recent(refs, k) \subseteq Range(refs) /\ IsFiniteSet(Recent(refs, k))
  BY RecentInRange
<1>2. n \in Nat
  BY <1>1, FS_CardinalityType
<1>3. Recent(refs, k) \subseteq LruMemory(refs, n)
  BY <1>2, RecentStays
<1>4. ASSUME NEW p \in LruMemory(refs, n), p \notin Recent(refs, k)
      PROVE  FALSE
  <2> DEFINE Later == {q \in Range(refs) : LastUse(refs, q) > LastUse(refs, p)}
  <2>1. p \in Range(refs) /\ Cardinality(Later) < n
    BY DEF LruMemory
  <2>2. \A q \in Range(refs) : LastUse(refs, q) \in Nat
    <3> TAKE q \in Range(refs)
    <3>1. LastUse(refs, q) \in DOMAIN refs
      BY LastUseExists
    <3>2. QED
      BY <3>1, LenProperties
  <2>3. ~ (LastUse(refs, p) > k)
    BY <1>4, <2>1, LastUseRecent
  <2>4. Recent(refs, k) \subseteq Later
    <3> SUFFICES ASSUME NEW q \in Recent(refs, k)
                 PROVE  q \in Later
      OBVIOUS
    <3>1. q \in Range(refs) /\ LastUse(refs, q) > k
      BY <1>1, LastUseRecent
    <3>2. QED
      BY <2>1, <2>2, <2>3, <3>1
  <2>5. IsFiniteSet(Later)
    BY RangeFinite, FS_Subset
  <2>6. n <= Cardinality(Later) /\ Cardinality(Later) \in Nat
    BY <2>4, <2>5, FS_Subset, FS_CardinalityType
  <2>7. QED
    BY <1>2, <2>1, <2>6
<1>5. QED
  BY <1>3, <1>4

-----------------------------------------------------------------------------
\* A permutation that keeps the order moves nothing.
LEMMA OrderedPermutation ==
    ASSUME NEW n \in Nat, NEW p \in Bijection(1 .. n, 1 .. n),
           \A i, j \in 1 .. n : i < j => p[i] < p[j]
    PROVE  \A i \in 1 .. n : p[i] = i
<1>1. /\ p \in [1 .. n -> 1 .. n]
      /\ \A v \in 1 .. n : \E w \in 1 .. n : p[w] = v
  BY DEF Bijection, Injection, Surjection
<1> DEFINE Moved == {i \in 1 .. n : p[i] # i}
<1>2. ASSUME Moved # {}
      PROVE  FALSE
  <2>1. Moved \subseteq Nat
    OBVIOUS
  <2>2. PICK i \in Moved : \A j \in Moved : i <= j
    BY <1>2, <2>1, LeastExists
  <2>3. \A j \in 1 .. n : j < i => p[j] = j
    BY <2>2
  <2>4. p[i] > i
    <3>1. ASSUME p[i] < i
          PROVE  FALSE
      <4>1. p[p[i]] = p[i] /\ p[i] \in 1 .. n
        BY <1>1, <2>3, <3>1
      <4>2. p[p[i]] < p[i]
        BY <3>1, <4>1
      <4>3. QED
        BY <4>1, <4>2
    <3>2. QED
      BY <1>1, <3>1
  <2>5. PICK k \in 1 .. n : p[k] = i
    BY <1>1
  <2>6. k > i
    BY <2>2, <2>3, <2>5
  <2>7. p[k] > p[i]
    BY <2>6
  <2>8. QED
    BY <1>1, <2>4, <2>5, <2>7
<1>3. QED
  BY <1>2

LEMMA IdentityBijection ==
    ASSUME NEW S
    PROVE  [i \in S |-> i] \in Bijection(S, S)
  BY DEF Bijection, Injection, Surjection, IsInjective

\* Sorting what is in order already changes nothing.
LEMMA SortedIsItself ==
    ASSUME NEW items \in Seq(Item), Increasing(items)
    PROVE  Sorted(items) = items
<1> DEFINE D == DOMAIN items
           Arranged == {[i \in D |-> items[p[i]]] : p \in Bijection(D, D)}
           InOrder(s) == \A i, j \in D : i < j => s[i].tstamp <= s[j].tstamp
<1>1. D = 1 .. Len(items) /\ Len(items) \in Nat /\ items \in [D -> Item]
  BY LenProperties
<1>2. \A i \in D : items[i].tstamp \in Nat
  BY <1>1 DEF Item
<1>3. items = [i \in D |-> items[[j \in D |-> j][i]]]
  BY <1>1
<1>4. items \in Arranged
  BY <1>3, IdentityBijection
<1>5. InOrder(items)
  BY <1>2 DEF Increasing
<1>6. ASSUME NEW s \in Arranged, InOrder(s)
      PROVE  s = items
  <2>1. PICK p \in Bijection(D, D) : s = [i \in D |-> items[p[i]]]
    OBVIOUS
  <2>2. p \in [D -> D] /\ \A i, j \in D : p[i] = p[j] => i = j
    BY <2>1 DEF Bijection, Injection, IsInjective
  <2>3. ASSUME NEW i \in D, NEW j \in D, i < j
        PROVE  p[i] < p[j]
    <3>1. items[p[i]].tstamp <= items[p[j]].tstamp
      BY <1>6, <2>1, <2>3
    <3>2. p[i] # p[j] /\ p[i] \in D /\ p[j] \in D
      BY <1>1, <2>2, <2>3
    <3>3. ~ (p[j] < p[i])
      BY <1>2, <3>1, <3>2 DEF Increasing
    <3>4. QED
      BY <1>1, <3>2, <3>3
  <2>4. \A i \in D : p[i] = i
    BY <1>1, <2>1, <2>3, OrderedPermutation
  <2>5. QED
    BY <1>1, <2>1, <2>4
<1>7. Sorted(items) = CHOOSE s \in Arranged : InOrder(s)
  BY DEF Sorted
<1>8. QED
  BY <1>4, <1>5, <1>6, <1>7

LEMMA NothingMarked == SetToSeq({}) = <<>>
<1>1. Cardinality({}) = 0
  BY FS_EmptySet
<1>2. <<>> \in [1 .. 0 -> {}] /\ IsInjective(<<>>)
  BY DEF IsInjective
<1>3. \A f \in [1 .. 0 -> {}] : f = <<>>
  OBVIOUS
<1>4. QED
  BY <1>1, <1>2, <1>3 DEF SetToSeq

\* No item has the mark: a full buffer is printed as it has waited.
LEMMA EmissionIsToprint ==
    ASSUME TypeOK, Lists, Kept
    PROVE  Emission = toprint
<1>1. toprint \in Seq(Item) /\ printed \in Seq(Item)
  BY DEF TypeOK
<1>2. {ti \in tracebuffer : ti.marked} = {}
  BY DEF Lists
<1>3. toprint \o SetToSeq({ti \in tracebuffer : ti.marked}) = toprint
  BY <1>1, <1>2, NothingMarked, ConcatEmptySeq
<1>4. Increasing(toprint)
  <2> SUFFICES ASSUME NEW i \in DOMAIN toprint, NEW j \in DOMAIN toprint, i < j
               PROVE  toprint[i].tstamp < toprint[j].tstamp
    BY DEF Increasing
  <2> DEFINE items == printed \o toprint
             a == Len(printed) + i
             b == Len(printed) + j
  <2>1. /\ Len(printed) \in Nat /\ Len(toprint) \in Nat
        /\ i \in 1 .. Len(toprint) /\ j \in 1 .. Len(toprint)
    BY <1>1, LenProperties
  <2>2. /\ items \in Seq(Item) /\ Len(items) = Len(printed) + Len(toprint)
        /\ items[a] = toprint[i] /\ items[b] = toprint[j]
    BY <1>1, <2>1, ConcatProperties
  <2>3. a \in DOMAIN items /\ b \in DOMAIN items /\ a < b
    BY <2>1, <2>2, LenProperties
  <2>4. QED
    BY <2>2, <2>3 DEF Kept, InOrderOf, Increasing
<1>5. QED
  BY <1>1, <1>3, <1>4, SortedIsItself DEF Emission

-----------------------------------------------------------------------------
\* What a new line adds to the histories.
LEMMA RecentAppend ==
    ASSUME NEW S, NEW refs \in Seq(S), NEW e \in S, NEW k \in 0 .. Len(refs)
    PROVE  Recent(Append(refs, e), k) = Recent(refs, k) \union {e}
<1>1. /\ Len(refs) \in Nat /\ DOMAIN refs = 1 .. Len(refs)
      /\ Append(refs, e) \in Seq(S)
      /\ Len(Append(refs, e)) = Len(refs) + 1
      /\ \A i \in 1 .. Len(refs) : Append(refs, e)[i] = refs[i]
      /\ Append(refs, e)[Len(refs) + 1] = e
  BY AppendProperties, LenProperties
<1>2. DOMAIN Append(refs, e) = 1 .. Len(refs) + 1
  BY <1>1, LenProperties
<1>3. QED
  BY <1>1, <1>2 DEF Recent

LEMMA NothingRecent ==
    ASSUME NEW S, NEW refs \in Seq(S)
    PROVE  Recent(refs, Len(refs)) = {}
  BY LenProperties DEF Recent

LEMMA RangeAppend ==
    ASSUME NEW S, NEW s \in Seq(S), NEW e \in S
    PROVE  Range(Append(s, e)) = Range(s) \union {e}
<1>1. /\ Len(s) \in Nat /\ DOMAIN s = 1 .. Len(s)
      /\ Append(s, e) \in Seq(S)
      /\ Len(Append(s, e)) = Len(s) + 1
      /\ \A i \in 1 .. Len(s) : Append(s, e)[i] = s[i]
      /\ Append(s, e)[Len(s) + 1] = e
  BY AppendProperties, LenProperties
<1>2. DOMAIN Append(s, e) = 1 .. Len(s) + 1
  BY <1>1, LenProperties
<1>3. QED
  BY <1>1, <1>2 DEF Range

LEMMA RangeSingle ==
    ASSUME NEW e
    PROVE  <<e>> \in Seq({e}) /\ Len(<<e>>) = 1 /\ <<e>>[1] = e /\ Range(<<e>>) = {e}
  BY DEF Range

LEMMA PagesFinite ==
    ASSUME NEW items, IsFiniteSet(items)
    PROVE  IsFiniteSet(Pages(items))
<1>1. [ti \in items |-> ti.pg] \in Surjection(items, Pages(items))
  BY DEF Surjection, Pages
<1>2. QED
  BY <1>1, FS_Surjection

LEMMA PagesAdd ==
    ASSUME NEW items, NEW ti, IsFiniteSet(items), ti.pg \notin Pages(items),
           Cardinality(Pages(items)) = Cardinality(items)
    PROVE  /\ Pages(items \union {ti}) = Pages(items) \union {ti.pg}
           /\ Cardinality(Pages(items \union {ti})) = Cardinality(items \union {ti})
           /\ IsFiniteSet(items \union {ti})
           /\ Cardinality(items \union {ti}) = Cardinality(items) + 1
<1>1. Pages(items \union {ti}) = Pages(items) \union {ti.pg} /\ ti \notin items
  BY DEF Pages
<1>2. Cardinality(Pages(items) \union {ti.pg}) = Cardinality(Pages(items)) + 1
  BY PagesFinite, FS_AddElement
<1>3. /\ IsFiniteSet(items \union {ti})
      /\ Cardinality(items \union {ti}) = Cardinality(items) + 1
  BY <1>1, FS_AddElement
<1>4. QED
  BY <1>1, <1>2, <1>3

LEMMA PagesOfConcat ==
    ASSUME NEW s \in Seq(Item), NEW t \in Seq(Item)
    PROVE  /\ PagesOf(s \o t) \in Seq(Page)
           /\ Recent(PagesOf(s \o t), Len(s)) = Pages(Range(t))
           /\ Range(PagesOf(s \o t)) = Range(PagesOf(s)) \union Pages(Range(t))
<1>1. /\ Len(s) \in Nat /\ DOMAIN s = 1 .. Len(s) /\ s \in [1 .. Len(s) -> Item]
      /\ Len(t) \in Nat /\ DOMAIN t = 1 .. Len(t) /\ t \in [1 .. Len(t) -> Item]
  BY LenProperties
<1>2. /\ s \o t \in Seq(Item)
      /\ Len(s \o t) = Len(s) + Len(t)
      /\ \A i \in 1 .. Len(s) + Len(t) :
            (s \o t)[i] = IF i <= Len(s) THEN s[i] ELSE t[i - Len(s)]
  BY ConcatProperties
<1>3. DOMAIN (s \o t) = 1 .. Len(s) + Len(t)
  BY <1>2, LenProperties
<1>4. /\ DOMAIN PagesOf(s \o t) = 1 .. Len(s) + Len(t)
      /\ \A i \in 1 .. Len(s) : PagesOf(s \o t)[i] = s[i].pg
      /\ \A i \in 1 .. Len(t) : PagesOf(s \o t)[Len(s) + i] = t[i].pg
  BY <1>1, <1>2, <1>3 DEF PagesOf
<1>5. \A i \in 1 .. Len(s) + Len(t) : PagesOf(s \o t)[i] \in Page
  <2> TAKE i \in 1 .. Len(s) + Len(t)
  <2>1. (s \o t)[i] \in Item
    BY <1>2, ElementOfSeq
  <2>2. (s \o t)[i].pg \in Page
    BY <2>1 DEF Item
  <2>3. QED
    BY <1>3, <2>2 DEF PagesOf
<1>6. PagesOf(s \o t) \in Seq(Page)
  BY <1>1, <1>3, <1>5 DEF PagesOf
<1>7. \A i \in 1 .. Len(s) + Len(t) : i > Len(s) => i - Len(s) \in 1 .. Len(t) /\ i = Len(s) + (i - Len(s))
  BY <1>1
<1>8. Recent(PagesOf(s \o t), Len(s)) = Pages(Range(t))
  <2>1. ASSUME NEW p \in Recent(PagesOf(s \o t), Len(s))
        PROVE  p \in Pages(Range(t))
    <3>1. PICK i \in 1 .. Len(s) + Len(t) : i > Len(s) /\ p = PagesOf(s \o t)[i]
      BY <1>4, <2>1 DEF Recent
    <3>2. PICK j \in 1 .. Len(t) : i = Len(s) + j
      BY <1>7, <3>1
    <3>3. p = t[j].pg
      BY <1>4, <3>1, <3>2
    <3>4. QED
      BY <1>1, <3>3 DEF Pages, Range
  <2>2. ASSUME NEW p \in Pages(Range(t))
        PROVE  p \in Recent(PagesOf(s \o t), Len(s))
    <3>1. PICK i \in 1 .. Len(t) : p = t[i].pg
      BY <1>1 DEF Pages, Range
    <3>2. Len(s) + i \in DOMAIN PagesOf(s \o t) /\ Len(s) + i > Len(s)
      BY <1>1, <1>4
    <3>3. QED
      BY <1>4, <3>1, <3>2 DEF Recent
  <2>3. QED
    BY <2>1, <2>2
<1>9. Range(PagesOf(s \o t)) = Range(PagesOf(s)) \union Pages(Range(t))
  <2>1. Recent(PagesOf(s \o t), Len(s)) \subseteq Range(PagesOf(s \o t))
    BY DEF Recent, Range
  <2>2. DOMAIN PagesOf(s) = 1 .. Len(s) /\ \A i \in 1 .. Len(s) : PagesOf(s)[i] = s[i].pg
    BY <1>1 DEF PagesOf
  <2>3. Range(PagesOf(s)) \subseteq Range(PagesOf(s \o t))
    BY <1>1, <1>4, <2>2 DEF Range
  <2>4. ASSUME NEW i \in DOMAIN PagesOf(s \o t)
        PROVE  PagesOf(s \o t)[i] \in Range(PagesOf(s)) \union Pages(Range(t))
    <3>1. CASE i <= Len(s)
      <4>1. i \in 1 .. Len(s)
        BY <1>1, <1>4, <3>1
      <4>2. PagesOf(s \o t)[i] = PagesOf(s)[i]
        BY <1>4, <2>2, <4>1
      <4>3. QED
        BY <2>2, <4>1, <4>2 DEF Range
    <3>2. CASE i > Len(s)
      <4>1. PagesOf(s \o t)[i] \in Recent(PagesOf(s \o t), Len(s))
        BY <3>2 DEF Recent
      <4>2. QED
        BY <1>8, <4>1
    <3>3. QED
      BY <1>1, <1>4, <3>1, <3>2
  <2>5. Range(PagesOf(s \o t)) \subseteq Range(PagesOf(s)) \union Pages(Range(t))
    BY <2>4 DEF Range
  <2>6. QED
    BY <1>8, <2>1, <2>3, <2>5
<1>10. QED
  BY <1>6, <1>8, <1>9

-----------------------------------------------------------------------------
\* The invariant.
LEMMA InitIInv == Init => IInv
<1> SUFFICES ASSUME Init
             PROVE  IInv
  OBVIOUS
<1>1. /\ printed \o toprint = <<>> /\ Len(trace) = 0 /\ DOMAIN trace = {}
      /\ printed \in Seq(Item) /\ toprint \in Seq(Item) /\ trace \in Seq(Page)
      /\ DOMAIN (printed \o toprint) = {}
  BY DEF Init
<1>2. Cardinality({}) = 0 /\ IsFiniteSet({})
  BY FS_EmptySet
<1>3. Pages(tracebuffer) = {}
  BY DEF Init, Pages
<1>4. TypeOK
  BY <1>1, <1>2, <1>3 DEF Init, TypeOK
<1>5. Lists
  <2>1. buffersize \in Int
    BY BoundsAssumption DEF Init
  <2>2. QED
    BY <1>2, <2>1 DEF Init, Lists, Range
<1>6. Kept
  BY <1>1 DEF Kept, InOrderOf, Increasing
<1>7. Batch
  BY <1>1 DEF Init, Batch, Range
<1>8. QED
  BY <1>4, <1>5, <1>6, <1>7 DEF IInv

LEMMA OrderAppend ==
    ASSUME NEW items \in Seq(Item), NEW refs \in Seq(Page), NEW ti \in Item,
           InOrderOf(items, refs), ti.tstamp = Len(refs)
    PROVE  InOrderOf(Append(items, ti), Append(refs, ti.pg))
<1>1. ti.pg \in Page
  BY DEF Item
<1>2. /\ Len(items) \in Nat /\ DOMAIN items = 1 .. Len(items)
      /\ Append(items, ti) \in Seq(Item)
      /\ Len(Append(items, ti)) = Len(items) + 1
      /\ \A i \in 1 .. Len(items) : Append(items, ti)[i] = items[i]
      /\ Append(items, ti)[Len(items) + 1] = ti
  BY AppendProperties, LenProperties
<1>3. DOMAIN Append(items, ti) = 1 .. Len(items) + 1
  BY <1>2, LenProperties
<1>4. /\ Len(refs) \in Nat
      /\ Len(Append(refs, ti.pg)) = Len(refs) + 1
      /\ \A i \in 1 .. Len(refs) : Append(refs, ti.pg)[i] = refs[i]
      /\ Append(refs, ti.pg)[Len(refs) + 1] = ti.pg
  BY <1>1, AppendProperties, LenProperties
<1>5. \A i \in 1 .. Len(items) : items[i].tstamp \in Nat
  <2> TAKE i \in 1 .. Len(items)
  <2>1. items[i] \in Item
    BY ElementOfSeq
  <2>2. QED
    BY <2>1 DEF Item
<1>6. Increasing(Append(items, ti))
  <2> SUFFICES ASSUME NEW i \in 1 .. Len(items) + 1, NEW j \in 1 .. Len(items) + 1, i < j
               PROVE  Append(items, ti)[i].tstamp < Append(items, ti)[j].tstamp
    BY <1>3 DEF Increasing
  <2>1. i \in 1 .. Len(items)
    BY <1>2
  <2>2. CASE j = Len(items) + 1
    BY <1>2, <2>1, <2>2 DEF InOrderOf
  <2>3. CASE j # Len(items) + 1
    <3>1. j \in 1 .. Len(items)
      BY <1>2, <2>3
    <3>2. QED
      BY <1>2, <2>1, <3>1 DEF InOrderOf, Increasing
  <2>4. QED
    BY <2>2, <2>3
<1>7. ASSUME NEW i \in 1 .. Len(items) + 1
      PROVE  /\ Append(items, ti)[i].tstamp < Len(Append(refs, ti.pg))
             /\ Append(items, ti)[i].pg
                    = Append(refs, ti.pg)[Append(items, ti)[i].tstamp + 1]
  <2>1. CASE i = Len(items) + 1
    BY <1>2, <1>4, <2>1
  <2>2. CASE i # Len(items) + 1
    <3>1. i \in 1 .. Len(items)
      BY <1>2, <2>2
    <3>2. items[i].tstamp < Len(refs) /\ items[i].pg = refs[items[i].tstamp + 1]
      BY <1>2, <3>1 DEF InOrderOf
    <3>3. items[i].tstamp + 1 \in 1 .. Len(refs)
      BY <1>4, <1>5, <3>1, <3>2
    <3>4. QED
      BY <1>2, <1>4, <1>5, <3>1, <3>2, <3>3
  <2>3. QED
    BY <2>1, <2>2
<1>8. QED
  BY <1>3, <1>6, <1>7 DEF InOrderOf

\* A line that is left out is one reference more.
LEMMA OrderLonger ==
    ASSUME NEW items \in Seq(Item), NEW refs \in Seq(Page), NEW pg \in Page,
           InOrderOf(items, refs)
    PROVE  InOrderOf(items, Append(refs, pg))
<1>1. /\ Len(refs) \in Nat
      /\ Len(Append(refs, pg)) = Len(refs) + 1
      /\ \A i \in 1 .. Len(refs) : Append(refs, pg)[i] = refs[i]
  BY AppendProperties, LenProperties
<1>2. ASSUME NEW i \in DOMAIN items
      PROVE  /\ items[i].tstamp < Len(Append(refs, pg))
             /\ items[i].pg = Append(refs, pg)[items[i].tstamp + 1]
  <2>1. items[i].tstamp \in Nat
    <3>1. items[i] \in Item
      BY LenProperties, ElementOfSeq
    <3>2. QED
      BY <3>1 DEF Item
  <2>2. items[i].tstamp < Len(refs) /\ items[i].pg = refs[items[i].tstamp + 1]
    BY DEF InOrderOf
  <2>3. items[i].tstamp + 1 \in 1 .. Len(refs)
    BY <1>1, <2>1, <2>2
  <2>4. QED
    BY <1>1, <2>1, <2>2, <2>3
<1>3. QED
  BY <1>2 DEF InOrderOf

\* The first item of a batch is older than the next line.
LEMMA FirstIsOld ==
    ASSUME IInv, toprint # <<>>
    PROVE  toprint[1] \in Item /\ toprint[1].tstamp \in 0 .. Len(trace)
<1>1. printed \in Seq(Item) /\ toprint \in Seq(Item) /\ trace \in Seq(Page)
  BY DEF IInv, TypeOK
<1>2. Len(printed) \in Nat /\ Len(toprint) \in Nat /\ Len(toprint) # 0 /\ Len(trace) \in Nat
  BY <1>1, LenProperties, EmptySeq
<1>3. toprint[1] \in Item
  BY <1>1, <1>2, ElementOfSeq
<1>4. /\ (printed \o toprint)[Len(printed) + 1] = toprint[1]
      /\ Len(printed) + 1 \in DOMAIN (printed \o toprint)
  BY <1>1, <1>2, ConcatProperties, LenProperties
<1>5. toprint[1].tstamp < Len(trace)
  BY <1>4 DEF IInv, Kept, InOrderOf
<1>6. toprint[1].tstamp \in Nat
  BY <1>3 DEF Item
<1>7. QED
  BY <1>2, <1>3, <1>5, <1>6

LEMMA AgainIInv ==
    ASSUME IInv, NEW pg \in Page, pg \in Pages(tracebuffer),
           trace' = Append(trace, pg), ts' = ts + 1,
           UNCHANGED <<buffersize, keepcode, ended, tracebuffer, toprint, printed>>
    PROVE  IInv'
<1>1. /\ printed \in Seq(Item) /\ toprint \in Seq(Item) /\ trace \in Seq(Page)
      /\ ts = Len(trace)
  BY DEF IInv, TypeOK
<1>2. trace' \in Seq(Page) /\ Len(trace') = Len(trace) + 1
  BY <1>1, AppendProperties
<1>3. TypeOK'
  BY <1>1, <1>2 DEF IInv, TypeOK
<1>4. Lists'
  BY DEF IInv, Lists
<1>5. Kept'
  <2>1. printed \o toprint \in Seq(Item)
    BY <1>1, ConcatProperties
  <2>2. QED
    BY <1>1, <2>1, OrderLonger DEF IInv, Kept
<1>6. Batch'
  <2>1. toprint # <<>>
    BY DEF Pages, Range, IInv, Lists
  <2>2. Recent(trace', toprint[1].tstamp) = Recent(trace, toprint[1].tstamp) \union {pg}
    BY <1>1, <2>1, FirstIsOld, RecentAppend
  <2>3. Range(trace') = Range(trace) \union {pg}
    BY <1>1, RangeAppend
  <2>4. Pages(tracebuffer) = Recent(trace', toprint[1].tstamp)
    BY <2>1, <2>2 DEF IInv, Batch
  <2>5. Range(trace') \subseteq Range(PagesOf(printed)) \union Pages(tracebuffer)
    BY <2>3 DEF IInv, Batch
  <2>6. QED
    BY <2>1, <2>4, <2>5 DEF Batch
<1>7. QED
  BY <1>3, <1>4, <1>5, <1>6 DEF IInv

\* A page is kept: the buffer is emptied first, or has room for it.
LEMMA KeepIInv ==
    ASSUME IInv, NEW reftype \in RefType, NEW pg \in Page, Keep(reftype, pg),
           trace' = Append(trace, pg), ts' = ts + 1,
           UNCHANGED <<buffersize, keepcode, ended>>
    PROVE  IInv'
<1> DEFINE ti == TraceItem(reftype, pg)
<1>1. /\ printed \in Seq(Item) /\ toprint \in Seq(Item) /\ trace \in Seq(Page)
      /\ ts = Len(trace) /\ Len(trace) \in Nat
      /\ tracebuffer \subseteq Item /\ buffersize \in Int
      /\ Cardinality(Pages(tracebuffer)) = Cardinality(tracebuffer)
      /\ IsFiniteSet(tracebuffer) /\ tracebuffer = Range(toprint)
  BY BoundsAssumption, LenProperties DEF IInv, TypeOK, Lists
<1>2. ti \in Item /\ ti.pg = pg /\ ti.tstamp = Len(trace) /\ ~ ti.marked
  BY <1>1 DEF TraceItem, Item
<1> HIDE DEF ti
<1>3. /\ trace' \in Seq(Page) /\ Len(trace') = Len(trace) + 1
      /\ Range(trace') = Range(trace) \union {pg}
  BY <1>1, AppendProperties, RangeAppend
<1>4. Cardinality(tracebuffer) \in Nat
  BY <1>1, FS_CardinalityType
<1>5. pg \notin Pages(tracebuffer)
  BY DEF Keep, InBuffer
<1>6. CASE ~Full
  <2>1. /\ printed' = printed /\ toprint' = Append(toprint, ti)
        /\ tracebuffer' = tracebuffer \union {ti}
        /\ Cardinality(tracebuffer) # buffersize
    BY <1>6 DEF Keep, Waiting, Rest, Full, ti
  <2>2. /\ Pages(tracebuffer') = Pages(tracebuffer) \union {pg}
        /\ Cardinality(Pages(tracebuffer')) = Cardinality(tracebuffer')
        /\ IsFiniteSet(tracebuffer')
        /\ Cardinality(tracebuffer') = Cardinality(tracebuffer) + 1
    BY <1>1, <1>2, <1>5, <2>1, PagesAdd
  <2>3. toprint' \in Seq(Item) /\ Range(toprint') = Range(toprint) \union {ti}
    BY <1>1, <1>2, <2>1, AppendProperties, RangeAppend
  <2>4. printed' \o toprint' = Append(printed \o toprint, ti)
    <3>1. toprint' = toprint \o <<ti>> /\ <<ti>> \in Seq(Item)
      BY <1>1, <1>2, <2>1, AppendIsConcat
    <3>2. printed \o toprint \in Seq(Item)
      BY <1>1, ConcatProperties
    <3>3. Append(printed \o toprint, ti) = (printed \o toprint) \o <<ti>>
      BY <1>2, <3>2, AppendIsConcat
    <3>4. QED
      BY <1>1, <2>1, <3>1, <3>3, ConcatAssociative
  <2>5. TypeOK'
    BY <1>1, <1>2, <1>3, <2>1, <2>2, <2>3 DEF IInv, TypeOK
  <2>6. Lists'
    <3>1. buffersize > 0 => Cardinality(tracebuffer') <= buffersize
      BY <1>1, <1>4, <2>1, <2>2 DEF IInv, Lists
    <3>2. \A t \in tracebuffer' : ~ t.marked
      BY <1>2, <2>1 DEF IInv, Lists
    <3>3. QED
      BY <1>1, <2>1, <2>2, <2>3, <3>1, <3>2 DEF Lists
  <2>7. Kept'
    <3>1. printed \o toprint \in Seq(Item)
      BY <1>1, ConcatProperties
    <3>2. QED
      BY <1>1, <1>2, <2>4, <3>1, OrderAppend DEF IInv, Kept
  <2>8. Batch'
    <3>1. toprint' # <<>>
      <4>1. Append(toprint, ti) # <<>>
        BY <1>1, <1>2, AppendProperties
      <4>2. QED
        BY <2>1, <4>1
    <3>2. Recent(trace', toprint'[1].tstamp) = Pages(tracebuffer')
      <4>1. CASE toprint = <<>>
        <5>1. Len(trace) = 0 /\ Len(toprint) = 0
          BY <4>1 DEF IInv, Batch
        <5>2. toprint'[1] = ti
          BY <1>1, <1>2, <2>1, <5>1, AppendProperties
        <5>3. Recent(trace', Len(trace)) = {pg}
          BY <1>1, RecentAppend, NothingRecent
        <5>4. Pages(tracebuffer) = {}
          BY <1>1, <4>1 DEF Range, Pages
        <5>5. QED
          BY <1>2, <2>2, <5>2, <5>3, <5>4
      <4>2. CASE toprint # <<>>
        <5>1. 1 \in 1 .. Len(toprint)
          BY <1>1, <4>2, EmptySeq
        <5>2. toprint'[1] = toprint[1]
          BY <1>1, <1>2, <2>1, <5>1, AppendProperties
        <5>3. Recent(trace', toprint[1].tstamp)
                = Recent(trace, toprint[1].tstamp) \union {pg}
          BY <1>1, <4>2, FirstIsOld, RecentAppend
        <5>4. QED
          BY <2>2, <4>2, <5>2, <5>3 DEF IInv, Batch
      <4>3. QED
        BY <4>1, <4>2
    <3>3. Range(trace') \subseteq Range(PagesOf(printed')) \union Pages(tracebuffer')
      BY <1>3, <2>1, <2>2 DEF IInv, Batch
    <3>4. QED
      BY <3>1, <3>2, <3>3 DEF Batch
  <2>9. QED
    BY <2>5, <2>6, <2>7, <2>8 DEF IInv
<1>7. CASE Full
  <2>1. /\ printed' = printed \o toprint /\ toprint' = <<ti>>
        /\ tracebuffer' = {ti}
    BY <1>7, EmissionIsToprint DEF IInv, Keep, Waiting, Rest, ti
  <2>2. /\ Pages(tracebuffer') = {pg} /\ IsFiniteSet(tracebuffer')
        /\ Cardinality(Pages(tracebuffer')) = 1 /\ Cardinality(tracebuffer') = 1
    <3>1. Pages(tracebuffer') = {pg}
      BY <1>2, <2>1 DEF Pages
    <3>2. QED
      BY <2>1, <3>1, FS_Singleton
  <2>3. /\ printed' \in Seq(Item) /\ toprint' \in Seq(Item)
        /\ Range(toprint') = {ti} /\ toprint'[1] = ti /\ toprint' # <<>>
    <3>1. printed' \in Seq(Item)
      BY <1>1, <2>1, ConcatProperties
    <3>2. QED
      BY <1>2, <2>1, <3>1, RangeSingle
  <2>4. TypeOK'
    BY <1>1, <1>2, <1>3, <2>1, <2>2, <2>3 DEF IInv, TypeOK
  <2>5. Lists'
    <3>1. buffersize > 0 => Cardinality(tracebuffer') <= buffersize
      BY <1>1, <2>2
    <3>2. \A t \in tracebuffer' : ~ t.marked
      BY <1>2, <2>1
    <3>3. QED
      BY <1>1, <2>1, <2>2, <2>3, <3>1, <3>2 DEF Lists
  <2>6. Kept'
    <3>1. printed \o toprint \in Seq(Item)
      BY <1>1, ConcatProperties
    <3>2. printed' \o toprint' = Append(printed \o toprint, ti)
      BY <1>2, <2>1, <3>1, AppendIsConcat
    <3>3. QED
      BY <1>1, <1>2, <3>1, <3>2, OrderAppend DEF IInv, Kept
  <2>7. Batch'
    <3>1. Recent(trace', toprint'[1].tstamp) = Pages(tracebuffer')
      BY <1>1, <1>2, <2>2, <2>3, RecentAppend, NothingRecent
    <3>2. Range(PagesOf(printed')) = Range(PagesOf(printed)) \union Pages(tracebuffer)
      BY <1>1, <2>1, PagesOfConcat
    <3>3. Range(trace') \subseteq Range(PagesOf(printed')) \union Pages(tracebuffer')
      BY <1>3, <2>2, <3>2 DEF IInv, Batch
    <3>4. QED
      BY <2>3, <3>1, <3>3 DEF Batch
  <2>8. QED
    BY <2>4, <2>5, <2>6, <2>7 DEF IInv
<1>8. QED
  BY <1>6, <1>7

LEMMA NextIInv == IInv /\ [Next]_vars => IInv'
<1> SUFFICES ASSUME IInv, [Next]_vars
             PROVE  IInv'
  OBVIOUS
<1>1. CASE Line
  <2>1. PICK reftype \in RefType, pg \in Page :
            /\ Again(reftype, pg) \/ Keep(reftype, pg)
            /\ trace' = Append(trace, pg)
    BY <1>1 DEF Line
  <2>2. ts' = ts + 1 /\ UNCHANGED <<buffersize, keepcode, ended>>
    BY <1>1 DEF Line
  <2>3. CASE Again(reftype, pg)
    BY <2>1, <2>2, <2>3, AgainIInv DEF Again, InBuffer
  <2>4. CASE Keep(reftype, pg)
    BY <2>1, <2>2, <2>4, KeepIInv
  <2>5. QED
    BY <2>1, <2>3, <2>4
<1>2. CASE ended' \in BOOLEAN /\
           UNCHANGED <<buffersize, keepcode, ts, tracebuffer, toprint, printed, trace>>
  <2>1. TypeOK'
    BY <1>2 DEF IInv, TypeOK
  <2>2. Lists' /\ Kept' /\ Batch'
    BY <1>2 DEF IInv, Lists, Kept, Batch
  <2>3. QED
    BY <2>1, <2>2 DEF IInv
<1>3. ended \in BOOLEAN
  BY DEF IInv, TypeOK
<1>4. QED
  BY <1>1, <1>2, <1>3 DEF Next, EndOfInput, vars

\* The invariant holds for any trace, buffer size and set of pages.
THEOREM Invariance == Spec => []IInv
  BY InitIInv, NextIInv, PTL DEF Spec

\* The buffer and both lists keep their types, and no page is in the buffer twice
\* (fastslim.py:80).
THEOREM TypeCorrect == Spec => []TypeOK
<1>1. IInv => TypeOK
  BY DEF IInv
<1>2. QED
  BY <1>1, Invariance, PTL

\* Over all batches the output is in the order of the trace, and nothing is there
\* twice: sorting each batch (fastslim.py:48) is enough to sort the whole.
THEOREM OutputIsInOrder == Spec => []OutputInOrder
<1>1. IInv => OutputInOrder
  BY DEF IInv, Kept, InOrderOf, Increasing, OutputInOrder
<1>2. QED
  BY <1>1, Invariance, PTL

-----------------------------------------------------------------------------
\* The buffer and an LRU memory of the same size.
LEMMA BufferIsRecent ==
    ASSUME IInv, toprint # <<>>
    PROVE  /\ Pages(tracebuffer) = Recent(trace, toprint[1].tstamp)
           /\ trace \in Seq(Page) /\ toprint[1].tstamp \in Nat
           /\ Cardinality(Pages(tracebuffer)) = Cardinality(tracebuffer)
<1>1. toprint[1].tstamp \in 0 .. Len(trace)
  BY FirstIsOld
<1>2. QED
  BY <1>1 DEF IInv, Batch, TypeOK

\* What is in the buffer is in the memory.
LEMMA BufferIsInMemory ==
    ASSUME IInv, buffersize > 0
    PROVE  Pages(tracebuffer) \subseteq LruMemory(trace, buffersize)
<1>1. CASE toprint = <<>>
  <2>1. Pages(tracebuffer) = {}
    BY <1>1 DEF IInv, Lists, Range, Pages
  <2>2. QED
    BY <2>1
<1>2. CASE toprint # <<>>
  <2>1. buffersize \in Nat
    BY BoundsAssumption DEF IInv, TypeOK
  <2>2. Cardinality(tracebuffer) <= buffersize
    BY DEF IInv, Lists
  <2>3. QED
    BY <1>2, <2>1, <2>2, BufferIsRecent, RecentStays
<1>3. QED
  BY <1>1, <1>2

\* Nothing is lost but pages of the last batch, all of which are among the last
\* buffersize pages of the trace (fastslim.py:62, where the loop ends).
THEOREM OnlyLastBatchIsEverLost == Spec => []OnlyLastBatchIsLost
<1>1. IInv => OnlyLastBatchIsLost
  BY BufferIsInMemory DEF IInv, Batch, OnlyLastBatchIsLost
<1>2. QED
  BY <1>1, Invariance, PTL

LEMMA LineLeftOut ==
    ASSUME IInv, [Next]_vars, buffersize > 0, trace' # trace, tracebuffer' = tracebuffer
    PROVE  trace'[ts'] \in LruMemory(trace, buffersize)
<1>1. Line
  BY DEF Next, EndOfInput, vars
<1>2. PICK reftype \in RefType, pg \in Page :
            /\ Again(reftype, pg) \/ Keep(reftype, pg)
            /\ trace' = Append(trace, pg)
  BY <1>1 DEF Line
<1>3. ts' = Len(trace) + 1 /\ trace \in Seq(Page)
  BY <1>1 DEF Line, IInv, TypeOK
<1>4. trace'[ts'] = pg
  BY <1>2, <1>3, AppendProperties
<1>5. ASSUME Keep(reftype, pg)
      PROVE  FALSE
  <2>1. TraceItem(reftype, pg) \in tracebuffer
    BY <1>5 DEF Keep
  <2>2. pg \in Pages(tracebuffer)
    BY <2>1 DEF Pages, TraceItem
  <2>3. QED
    BY <1>5, <2>2 DEF Keep, InBuffer
<1>6. pg \in Pages(tracebuffer)
  BY <1>2, <1>5 DEF Again, InBuffer
<1>7. QED
  BY <1>4, <1>6, BufferIsInMemory

\* Every reference that is left out would have been a hit in an LRU memory with
\* buffersize frames (fastslim.py:80), although the mark is set on the wrong item.
THEOREM LeftOutAlwaysHits == Spec => LeftOutWouldHit
<1>1. IInv /\ [Next]_vars
        => [buffersize > 0 /\ trace' # trace /\ tracebuffer' = tracebuffer
              => trace'[ts'] \in LruMemory(trace, buffersize)]_vars
  BY LineLeftOut
<1>2. QED
  BY <1>1, Invariance, PTL DEF Spec, LeftOutWouldHit

LEMMA BatchPrinted ==
    ASSUME IInv, [Next]_vars, printed' # printed
    PROVE  LruMemory(PagesOf(printed'), buffersize) = LruMemory(trace, buffersize)
<1>1. Line
  BY DEF Next, EndOfInput, vars
<1>2. PICK reftype \in RefType, pg \in Page : Keep(reftype, pg)
  BY <1>1 DEF Line, Again
<1>3. Full /\ printed' = printed \o toprint
  BY <1>2, EmissionIsToprint DEF Keep, IInv
<1>4. /\ printed \in Seq(Item) /\ toprint \in Seq(Item)
      /\ tracebuffer = Range(toprint)
  BY DEF IInv, TypeOK, Lists
<1>5. toprint # <<>>
  BY <1>3, <1>4, ConcatEmptySeq
<1>6. buffersize = Cardinality(Pages(tracebuffer))
  BY <1>3, <1>5, BufferIsRecent DEF Full
<1>7. LruMemory(trace, buffersize) = Pages(tracebuffer)
  BY <1>5, <1>6, BufferIsRecent, OthersAreGone
<1>8. /\ PagesOf(printed') \in Seq(Page) /\ Len(printed) \in Nat
      /\ Recent(PagesOf(printed'), Len(printed)) = Pages(tracebuffer)
  BY <1>3, <1>4, PagesOfConcat, LenProperties
<1>9. LruMemory(PagesOf(printed'), buffersize) = Pages(tracebuffer)
  BY <1>6, <1>8, OthersAreGone
<1>10. QED
  BY <1>7, <1>9

\* At the end of every batch an LRU memory with buffersize frames that replays the
\* reduced trace holds what it would hold after the whole trace (fastslim.py:85).
THEOREM MemoryAlwaysAgrees == Spec => MemoryAgrees
<1>1. IInv /\ [Next]_vars
        => [printed' # printed
              => LruMemory(PagesOf(printed'), buffersize)
                    = LruMemory(trace, buffersize)]_vars
  BY BatchPrinted
<1>2. QED
  BY <1>1, Invariance, PTL DEF Spec, MemoryAgrees
=============================================================================
