----------------------------- MODULE Ext2Proofs -----------------------------
(***************************************************************************)
(* Theorems about Ext2: what the free counts promise on an image of any    *)
(* size, and what the commands leave alone as long as fewer are run than   *)
(* the link count of a copied file, which starts at 0, takes to wrap.      *)
(***************************************************************************)
EXTENDS Ext2, LeastNumber, FiniteSetTheorems, TLAPS

Running(op) == pc # "idle" /\ cmd.op = op

Command == [op : {"mkdir", "cp"}, dir : Ino, name : Name, parts : Nat,
            ino : FirstIno + 1 .. NumInodes, at : Block]

InodeRecord == [links : 0 .. MaxLinks, sized : BOOLEAN, i_block : [Spot -> Block]]

Typed ==
    /\ block_bitmap \subseteq Bit
    /\ inode_bitmap \subseteq Ino
    /\ counts \in [blocks : Int, inodes : Int, dirs : Nat]
    /\ inode \in [Ino -> InodeRecord]
    /\ DOMAIN block = Block
    /\ \A b \in Block : block[b].kind = "meta" => b \in 1 .. Meta - 1
    /\ block[0].kind = "numbers" => block[0].words \in Seq(Block)
    /\ pc \in {"idle", "entry", "data"}
    /\ pc # "idle" => cmd \in Command
    /\ ncommands \in 0 .. MaxCommands

\* The inodes that entries name, and that commands take, are behind the directory's.
Inodes ==
    /\ DirIno \in inode_bitmap
    /\ \A b \in Block : block[b].kind = "listing" =>
           \A e \in block[b].entries : e.ino \in FirstIno + 1 .. NumInodes
    /\ Running("mkdir") => cmd.ino \notin inode_bitmap

\* Between its two steps a command has used what it has not yet counted.
Counts ==
    /\ counts.blocks >= Cardinality(FreeBits) + (IF pc = "data" THEN 1 ELSE 0)
    /\ counts.inodes >= Cardinality(Ino \ inode_bitmap) + (IF Running("cp") THEN 1 ELSE 0)

CountInv == Typed /\ Inodes /\ Counts
-----------------------------------------------------------------------------
(* The constants and the searches *)

LEMMA Sizes ==
    /\ NumBlocks \in Nat /\ Meta \in Nat /\ Reserved \in Nat /\ StrayBit \in Nat
    /\ NumInodes \in Nat /\ FirstIno \in Nat /\ Direct \in Nat /\ SizeAt \in Nat
    /\ LinksAt \in Nat /\ InodeWords \in Nat /\ MaxLinks \in Nat /\ 3 <= MaxLinks /\ MaxCommands \in Nat
    /\ 2 <= StrayBit /\ StrayBit < Meta /\ Meta + 2 <= Reserved /\ Reserved + 3 <= NumBlocks
    /\ 2 < FirstIno /\ FirstIno < FileIno /\ FileIno <= NumInodes /\ FileIno \in Nat
    /\ StrayIno \in FirstIno + 1 .. NumInodes
    /\ 1 <= Direct /\ Direct < SizeAt /\ SizeAt < LinksAt /\ LinksAt < InodeWords
    /\ FileParts \subseteq Nat /\ \A p \in FileParts : 1 <= p
    /\ FileName \in Name
  BY SizeAssumption, BoundAssumption, NameAssumption

LEMMA Finite ==
    /\ IsFiniteSet(Bit) /\ IsFiniteSet(Ino)
    /\ IsFiniteSet(FreeBits) /\ IsFiniteSet(Ino \ inode_bitmap)
    /\ Cardinality(FreeBits) \in Nat /\ Cardinality(Ino \ inode_bitmap) \in Nat
<1>1. IsFiniteSet(Bit) /\ IsFiniteSet(Ino)
  BY Sizes, FS_Interval DEF Bit, Ino
<1>2. IsFiniteSet(FreeBits) /\ IsFiniteSet(Ino \ inode_bitmap)
  BY <1>1, FS_Difference DEF FreeBits
<1>3. QED
  BY <1>1, <1>2, FS_CardinalityType

\* The block that find_free_block returns.
LEMMA FreeBit ==
    ASSUME FreeBits # {}
    PROVE  Min(FreeBits) \in Bit \ block_bitmap
<1>1. FreeBits \subseteq Nat
  BY Sizes DEF FreeBits, Bit
<1>2. QED
  BY <1>1, LeastExists DEF FreeBits

\* The inode that find_free_inode returns.
LEMMA FreeInode ==
    ASSUME FreeInodes # {}, DirIno \in inode_bitmap
    PROVE  /\ NewIno \in (FirstIno + 1 .. NumInodes) \ inode_bitmap
           /\ \A k \in FirstIno + 1 .. NewIno - 1 : k \in inode_bitmap
<1>1. FreeInodes \subseteq Nat
  BY Sizes DEF FreeInodes
<1>2. NewIno \in FreeInodes /\ \A k \in FreeInodes : NewIno <= k
  BY <1>1, LeastExists DEF NewIno
<1>3. NewIno # FirstIno
  BY <1>2 DEF FreeInodes, DirIno
<1>4. NewIno \in (FirstIno + 1 .. NumInodes) \ inode_bitmap
  BY <1>2, <1>3, Sizes DEF FreeInodes
<1>5. QED
  BY <1>2, <1>4, Sizes DEF FreeInodes

LEMMA CommandType ==
    ASSUME Typed, pc # "idle"
    PROVE  /\ cmd \in Command
           /\ cmd.op \in {"mkdir", "cp"} /\ cmd.dir \in Ino /\ cmd.parts \in Nat
           /\ cmd.ino \in FirstIno + 1 .. NumInodes /\ cmd.at \in Block
<1>1. cmd \in Command
  BY DEF Typed
<1>2. QED
  BY <1>1 DEF Command

LEMMA InodeType ==
    ASSUME Typed, NEW i \in Ino
    PROVE  /\ inode[i] \in InodeRecord
           /\ inode[i].links \in 0 .. MaxLinks /\ inode[i].i_block \in [Spot -> Block]
           /\ \A s \in Spot : inode[i].i_block[s] \in Block
<1>1. inode[i] \in InodeRecord
  BY DEF Typed
<1>2. QED
  BY <1>1 DEF InodeRecord

LEMMA IndirectType ==
    ASSUME Typed
    PROVE  Indirect \in Seq(Block) /\ Len(Indirect) \in Nat
<1>1. CASE block[0].kind = "numbers"
  <2>1. block[0].words \in Seq(Block)
    BY <1>1 DEF Typed
  <2>2. QED
    BY <1>1, <2>1 DEF Indirect
<1>2. CASE block[0].kind # "numbers"
  BY <1>2 DEF Indirect
<1>3. QED
  BY <1>1, <1>2

\* The place that find_spot_for_inode_entry returns.
LEMMA Spots ==
    ASSUME Typed, pc # "idle"
    PROVE  /\ OpenSpot \in OpenSpots
           /\ OpenSpot \in Nat
           /\ \A s \in OpenSpots : OpenSpot <= s
           /\ NumberAt(OpenSpot) \in Block
<1> DEFINE end == Direct + Len(Indirect)
<1>1. end \in Nat
  BY IndirectType, Sizes
<1>2. end \in OpenSpots
  <2>1. NumberAt(end) = 0
    BY <1>1, IndirectType, Sizes DEF NumberAt
  <2>2. QED
    BY <1>1, <2>1, Sizes DEF OpenSpots
<1>3. OpenSpots \subseteq Nat
  BY <1>1 DEF OpenSpots
<1>4. OpenSpot \in OpenSpots /\ \A s \in OpenSpots : OpenSpot <= s
  BY <1>2, <1>3, LeastExists DEF OpenSpot
<1>5. \A s \in Nat : NumberAt(s) \in Block
  <2> TAKE s \in Nat
  <2>1. CASE s < Direct
    <3>1. s \in Spot
      BY <2>1, Sizes DEF Spot
    <3>2. inode[cmd.dir].i_block[s] \in Block
      BY <3>1, CommandType, InodeType
    <3>3. QED
      BY <2>1, <3>2 DEF NumberAt
  <2>2. CASE s >= Direct /\ s < end
    <3>1. s - Direct + 1 \in 1 .. Len(Indirect)
      BY <2>2, IndirectType, Sizes
    <3>2. Indirect[s - Direct + 1] \in Block
      BY <3>1, IndirectType
    <3>3. QED
      BY <2>2, <3>2, Sizes DEF NumberAt
  <2>3. CASE s >= end
    <3>1. NumberAt(s) = 0
      BY <2>3, IndirectType, Sizes DEF NumberAt
    <3>2. QED
      BY <3>1, Sizes DEF Block
  <2>4. QED
    BY <2>1, <2>2, <2>3, <1>1, Sizes
<1>6. QED
  BY <1>3, <1>4, <1>5
-----------------------------------------------------------------------------
(* The counts *)

LEMMA OneInodeLess ==
    ASSUME NEW i \in Ino \ inode_bitmap, inode_bitmap' = inode_bitmap \union {i}
    PROVE  Cardinality(Ino \ inode_bitmap') = Cardinality(Ino \ inode_bitmap) - 1
<1>1. Ino \ inode_bitmap' = (Ino \ inode_bitmap) \ {i}
  OBVIOUS
<1>2. QED
  BY <1>1, Finite, FS_RemoveElement

LEMMA OneBlockLess ==
    ASSUME NEW b \in FreeBits, block_bitmap' = block_bitmap \union {b}
    PROVE  Cardinality(FreeBits') = Cardinality(FreeBits) - 1
<1>1. FreeBits' = FreeBits \ {b}
  BY DEF FreeBits
<1>2. QED
  BY <1>1, Finite, FS_RemoveElement

\* An inode has no more blocks than rm counts, the bit of unused spots included.
LEMMA FewerThanReleased ==
    ASSUME Typed, NEW i \in Ino, NEW stray \in FreedByShift(i),
           block_bitmap' = block_bitmap \ (FreedBits(i) \union stray)
    PROVE  Cardinality(FreeBits') <= Cardinality(FreeBits) + Direct
<1> DEFINE bit == [s \in Spot |-> IF inode[i].i_block[s] = 0 THEN StrayBit
                                  ELSE inode[i].i_block[s] - 1]
           Freed == {bit[s] : s \in Spot}
<1>1. IsFiniteSet(Freed) /\ Cardinality(Freed) <= Direct
  <2>1. IsFiniteSet(Spot) /\ Cardinality(Spot) = Direct
    BY Sizes, FS_Interval DEF Spot
  <2>2. bit \in Surjection(Spot, Freed)
    BY DEF Surjection
  <2>3. QED
    BY <2>1, <2>2, FS_Surjection
<1>2. FreedBits(i) \union stray \subseteq Freed
  <2>1. ASSUME NEW b \in FreedBits(i)
        PROVE  b \in Freed
    BY <2>1 DEF FreedBits
  <2>2. ASSUME NEW b \in stray
        PROVE  b \in Freed
    BY <2>2 DEF FreedByShift
  <2>3. QED
    BY <2>1, <2>2
<1>3. FreeBits' \subseteq FreeBits \union Freed
  BY <1>2 DEF FreeBits
<1> HIDE DEF Freed
<1>4. /\ IsFiniteSet(FreeBits \union Freed)
      /\ Cardinality(FreeBits \union Freed) <= Cardinality(FreeBits) + Cardinality(Freed)
  <2>1. IsFiniteSet(FreeBits) /\ Cardinality(FreeBits) \in Nat
    BY Finite
  <2>2. /\ IsFiniteSet(FreeBits \union Freed)
        /\ Cardinality(FreeBits \union Freed) =
             Cardinality(FreeBits) + Cardinality(Freed) - Cardinality(FreeBits \cap Freed)
    BY <1>1, <2>1, FS_Union
  <2>3. IsFiniteSet(FreeBits \cap Freed)
    BY <2>1, FS_Intersection
  <2>4. Cardinality(FreeBits \cap Freed) \in Nat /\ Cardinality(Freed) \in Nat
    BY <1>1, <2>3, FS_CardinalityType
  <2>5. QED
    BY <2>1, <2>2, <2>4
<1>5. Cardinality(FreeBits') <= Cardinality(FreeBits \union Freed)
  BY <1>3, <1>4, FS_Subset
<1>6. /\ Cardinality(FreeBits') \in Nat /\ Cardinality(Freed) \in Nat
      /\ Cardinality(FreeBits \union Freed) \in Nat
  <2>1. IsFiniteSet(FreeBits')
    BY <1>3, <1>4, FS_Subset
  <2>2. QED
    BY <2>1, <1>1, <1>4, FS_CardinalityType
<1>7. QED
  BY <1>1, <1>4, <1>5, <1>6, Finite, Sizes

LEMMA OneInodeMore ==
    ASSUME NEW i, inode_bitmap' = inode_bitmap \ {i}
    PROVE  Cardinality(Ino \ inode_bitmap') <= Cardinality(Ino \ inode_bitmap) + 1
<1>1. Ino \ inode_bitmap' \subseteq (Ino \ inode_bitmap) \union {i}
  OBVIOUS
<1>2. /\ IsFiniteSet((Ino \ inode_bitmap) \union {i})
      /\ Cardinality((Ino \ inode_bitmap) \union {i}) <= Cardinality(Ino \ inode_bitmap) + 1
  <2>1. IsFiniteSet(Ino \ inode_bitmap) /\ Cardinality(Ino \ inode_bitmap) \in Nat
    BY Finite
  <2>2. /\ IsFiniteSet((Ino \ inode_bitmap) \union {i})
        /\ Cardinality((Ino \ inode_bitmap) \union {i}) =
             IF i \in Ino \ inode_bitmap THEN Cardinality(Ino \ inode_bitmap)
             ELSE Cardinality(Ino \ inode_bitmap) + 1
    BY <2>1, FS_AddElement, Zenon
  <2>3. QED
    BY <2>1, <2>2
<1>3. /\ IsFiniteSet(Ino \ inode_bitmap')
      /\ Cardinality(Ino \ inode_bitmap') <= Cardinality((Ino \ inode_bitmap) \union {i})
  BY <1>1, <1>2, FS_Subset
<1>4. Cardinality(Ino \ inode_bitmap') \in Nat /\ Cardinality((Ino \ inode_bitmap) \union {i}) \in Nat
  BY <1>2, <1>3, FS_CardinalityType
<1>5. QED
  BY <1>2, <1>3, <1>4, Finite
-----------------------------------------------------------------------------
(* The free counts *)

LEMMA InitCounts == Init => CountInv
<1> SUFFICES ASSUME Init PROVE CountInv
  OBVIOUS
<1>1. PICK d \in Reserved + 1 .. NumBlocks - 1, f \in Reserved + 1 .. NumBlocks - 1, nul \in BOOLEAN :
        /\ block_bitmap = (0 .. Reserved - 1) \union {d - 1, f - 1, NumBlocks - 1}
        /\ inode_bitmap = (1 .. DirIno) \union {FileIno}
        /\ counts = [blocks |-> Cardinality(Bit \ block_bitmap),
                     inodes |-> Cardinality(Ino \ inode_bitmap), dirs |-> 2]
        /\ inode = [i \in Ino |-> CASE i = RootIno -> Inode(3, TRUE, OneBlock(Meta))
                                    [] i = DirIno  -> Inode(2, TRUE, OneBlock(d))
                                    [] i = FileIno -> Inode(1, TRUE, OneBlock(f))
                                    [] OTHER       -> ZeroInode]
        /\ block = [b \in Block |->
                      CASE b = 0 -> Zeros
                        [] b = Meta -> Listing({}, TRUE)
                        [] b \in 1 .. Meta - 1 -> MetaData
                        [] b = d -> Listing({EntryOf(FileName, FileIno, "file", nul)}, TRUE)
                        [] b = f -> Data(FileIno, 1)
                        [] OTHER -> Zeros]
        /\ pc = "idle" /\ cmd = NoCommand /\ ncommands = 0 /\ made = {}
  BY DEF Init
<1>a. /\ block_bitmap = (0 .. Reserved - 1) \union {d - 1, f - 1, NumBlocks - 1}
      /\ inode_bitmap = (1 .. DirIno) \union {FileIno}
  BY <1>1, Zenon
<1>b. inode = [i \in Ino |-> CASE i = RootIno -> Inode(3, TRUE, OneBlock(Meta))
                               [] i = DirIno  -> Inode(2, TRUE, OneBlock(d))
                               [] i = FileIno -> Inode(1, TRUE, OneBlock(f))
                               [] OTHER       -> ZeroInode]
  BY <1>1, Zenon
<1>c. block = [b \in Block |->
                 CASE b = 0 -> Zeros
                   [] b = Meta -> Listing({}, TRUE)
                   [] b \in 1 .. Meta - 1 -> MetaData
                   [] b = d -> Listing({EntryOf(FileName, FileIno, "file", nul)}, TRUE)
                   [] b = f -> Data(FileIno, 1)
                   [] OTHER -> Zeros]
  BY <1>1, Zenon
<1>d. /\ counts = [blocks |-> Cardinality(Bit \ block_bitmap),
                   inodes |-> Cardinality(Ino \ inode_bitmap), dirs |-> 2]
      /\ pc = "idle" /\ ncommands = 0
  BY <1>1, Zenon
<1>2. Counts
  BY <1>d, Finite DEF Counts, Running, FreeBits
<1>3. Typed
  <2>1. block_bitmap \subseteq Bit /\ inode_bitmap \subseteq Ino
    BY <1>a, Sizes DEF Bit, Ino, DirIno
  <2>2. counts \in [blocks : Int, inodes : Int, dirs : Nat]
    BY <1>d, Finite DEF FreeBits
  <2>3. inode \in [Ino -> InodeRecord]
    <3>1. \A b \in Block : OneBlock(b) \in [Spot -> Block]
      BY Sizes DEF OneBlock, Block
    <3>3. ZeroInode \in InodeRecord
      BY Sizes DEF ZeroInode, Inode, InodeRecord, Block
    <3>4. Meta \in Block /\ d \in Block /\ f \in Block
      BY Sizes DEF Block
    <3>5. /\ Inode(3, TRUE, OneBlock(Meta)) \in InodeRecord
          /\ Inode(2, TRUE, OneBlock(d)) \in InodeRecord
          /\ Inode(1, TRUE, OneBlock(f)) \in InodeRecord
      BY <3>1, <3>4, Sizes DEF Inode, InodeRecord
    <3>6. QED
      BY <1>b, <3>3, <3>5, Zenon
  <2>4. DOMAIN block = Block /\ block[0].kind # "numbers"
    <3>1. 0 \in Block
      BY Sizes DEF Block
    <3>2. DOMAIN block = Block
      BY <1>c, Zenon
    <3>3. 0 # Meta /\ 0 \notin 1 .. Meta - 1 /\ 0 # d /\ 0 # f
      BY Sizes
    <3>4. block[0] = Zeros
      BY <1>c, <3>1, <3>3
    <3>5. QED
      BY <3>2, <3>4 DEF Zeros, Listing
  <2>5. \A b \in Block : block[b].kind = "meta" => b \in 1 .. Meta - 1
    BY <1>c DEF Zeros, Listing, Data
  <2>6. QED
    BY <1>d, <2>1, <2>2, <2>3, <2>4, <2>5, Sizes DEF Typed
<1>4. Inodes
  <2>1. DirIno \in inode_bitmap
    BY <1>a, Sizes DEF DirIno
  <2>2. ASSUME NEW b \in Block, block[b].kind = "listing", NEW e \in block[b].entries
        PROVE  e.ino \in FirstIno + 1 .. NumInodes
    <3>1. \/ block[b].entries = {}
          \/ block[b].entries = {EntryOf(FileName, FileIno, "file", nul)}
      BY <1>c, <2>2 DEF Zeros, Listing, MetaData, Data
    <3>2. e = EntryOf(FileName, FileIno, "file", nul)
      BY <2>2, <3>1
    <3>3. QED
      BY <3>2, Sizes DEF EntryOf
  <2>3. QED
    BY <1>d, <2>1, <2>2 DEF Inodes, Running
<1>5. QED
  BY <1>2, <1>3, <1>4 DEF CountInv
-----------------------------------------------------------------------------
(* What the steps do *)

LEMMA Takes ==
    ASSUME Typed, DirIno \in inode_bitmap,
           NEW op \in {"mkdir", "cp"}, NEW d \in Ino, NEW n \in Name, NEW parts \in Nat,
           TakeInode(op, d, n, parts)
    PROVE  /\ NewIno \in (FirstIno + 1 .. NumInodes) \ inode_bitmap
           /\ NewIno \in Ino
           /\ \A k \in FirstIno + 1 .. NewIno - 1 : k \in inode_bitmap
           /\ inode' = [inode EXCEPT ![NewIno] = ZeroInode]
           /\ inode' \in [Ino -> InodeRecord]
           /\ cmd' \in Command
           /\ cmd'.op = op /\ cmd'.ino = NewIno /\ cmd'.dir = d
           /\ pc' = "entry"
<1>1. /\ FreeInodes # {}
      /\ inode' = [inode EXCEPT ![NewIno] = ZeroInode]
      /\ cmd' = [op |-> op, dir |-> d, name |-> n, parts |-> parts, ino |-> NewIno, at |-> 0]
      /\ pc' = "entry"
  BY DEF TakeInode
<1>2. /\ NewIno \in (FirstIno + 1 .. NumInodes) \ inode_bitmap
      /\ \A k \in FirstIno + 1 .. NewIno - 1 : k \in inode_bitmap
  BY <1>1, FreeInode
<1>3. NewIno \in Ino
  BY <1>2, Sizes DEF Ino
<1>4. ZeroInode \in InodeRecord
  BY Sizes DEF ZeroInode, Inode, InodeRecord, Block
<1>5. inode \in [Ino -> InodeRecord]
  BY DEF Typed
<1>6. inode' \in [Ino -> InodeRecord]
  BY <1>1, <1>3, <1>4, <1>5
<1>7. 0 \in Block
  BY Sizes DEF Block
<1>8. cmd' \in Command
  BY <1>1, <1>2, <1>7 DEF Command
<1>9. QED
  BY <1>1, <1>2, <1>3, <1>6, <1>8

\* The step that writes the entry of a command.
Entering(b) ==
    /\ pc = "entry" /\ pc' = "data"
    /\ cmd' = [cmd EXCEPT !.at = b]
    /\ block_bitmap' = block_bitmap \union {b}
    /\ UNCHANGED <<inode_bitmap, counts, ncommands, made>>
    /\ \/ inode' = inode
       \/ \E s \in Spot : /\ inode[cmd.dir].i_block[s] = 0
                          /\ inode' = [inode EXCEPT ![cmd.dir].i_block[s] = b]
    /\ DOMAIN block' = Block
    /\ block'[b].kind = "listing"
    /\ \E nul \in BOOLEAN :
         /\ NewEntry(nul) \in block'[b].entries
         /\ \A e \in block'[b].entries :
               e = NewEntry(nul) \/ (block[b].kind = "listing" /\ e \in block[b].entries)
    /\ \A x \in Block \ {b, 0} : block'[x] = block[x]
    /\ \/ b = 0
       \/ block'[0] = block[0]
       \/ block'[0].kind = "numbers" /\ block'[0].words \in Seq(Block)

LEMMA NewBlockEnters ==
    ASSUME Typed, EnterInNewBlock
    PROVE  \E b \in FreeBits : Entering(b)
<1> DEFINE b == Min(FreeBits)
           direct == OpenSpot < Direct
           disk == IF direct THEN block
                   ELSE [block EXCEPT ![0] = Numbers(Append(Indirect, b))]
<1>1. /\ pc = "entry" /\ NumberAt(OpenSpot) = 0 /\ FreeBits # {}
      /\ inode' = IF direct THEN [inode EXCEPT ![cmd.dir].i_block[OpenSpot] = b] ELSE inode
      /\ block' = [disk EXCEPT ![b] = Listing({NewEntry(TRUE)}, FALSE)]
      /\ block_bitmap' = block_bitmap \union {b}
      /\ cmd' = [cmd EXCEPT !.at = b]
      /\ pc' = "data"
      /\ UNCHANGED <<inode_bitmap, counts, ncommands, made>>
  BY DEF EnterInNewBlock, IsNewSpot, WriteEntry, MarkOf
<1>2. b \in FreeBits /\ b \in Block
  BY <1>1, FreeBit DEF FreeBits, Bit, Block
<1> HIDE DEF b
<1>3. \/ inode' = inode
      \/ \E s \in Spot : /\ inode[cmd.dir].i_block[s] = 0
                         /\ inode' = [inode EXCEPT ![cmd.dir].i_block[s] = b]
  <2>1. CASE direct
    <3>1. OpenSpot \in Spot
      BY <1>1, <2>1, Spots, Sizes DEF Spot
    <3>2. inode[cmd.dir].i_block[OpenSpot] = 0
      BY <1>1, <2>1 DEF NumberAt
    <3>3. QED
      BY <1>1, <2>1, <3>1, <3>2
  <2>2. CASE ~direct
    BY <1>1, <2>2
  <2>3. QED
    BY <2>1, <2>2
<1>4. Append(Indirect, b) \in Seq(Block)
  BY <1>2, IndirectType
<1>5. DOMAIN block = Block /\ 0 \in Block
  BY Sizes DEF Typed, Block
<1>6. /\ DOMAIN disk = Block
      /\ \A x \in Block \ {0} : disk[x] = block[x]
      /\ disk[0] = block[0] \/ disk[0] = Numbers(Append(Indirect, b))
  BY <1>5
<1> HIDE DEF disk
<1>7. /\ DOMAIN block' = Block
      /\ block'[b] = Listing({NewEntry(TRUE)}, FALSE)
      /\ \A x \in Block \ {b} : block'[x] = disk[x]
  BY <1>1, <1>2, <1>6
<1>8. /\ block'[b].kind = "listing" /\ NewEntry(TRUE) \in block'[b].entries
      /\ \A e \in block'[b].entries : e = NewEntry(TRUE)
  <2>1. block'[b].entries = {NewEntry(TRUE)} /\ block'[b].kind = "listing"
    BY <1>7 DEF Listing
  <2>2. QED
    BY <2>1
<1>9. \/ b = 0
      \/ block'[0] = block[0]
      \/ block'[0].kind = "numbers" /\ block'[0].words \in Seq(Block)
  BY <1>4, <1>5, <1>6, <1>7 DEF Numbers
<1>10. \A x \in Block \ {b, 0} : block'[x] = block[x]
  BY <1>6, <1>7
<1>11. Entering(b)
  BY <1>1, <1>3, <1>7, <1>8, <1>9, <1>10 DEF Entering
<1>12. QED
  BY <1>2, <1>11

LEMMA OldBlockEnters ==
    ASSUME Typed, EnterInOldBlock
    PROVE  \E b \in FreeBits : Entering(b)
<1> DEFINE b == NumberAt(OpenSpot) - 1
<1>1. PICK nul \in BOOLEAN :
        \/ WriteEntry(block, b, Listing({NewEntry(nul)}, FALSE))
        \/ /\ block[b].kind = "listing"
           /\ WriteEntry(block, b, Listing(block[b].entries \union {NewEntry(nul)}, TRUE))
  BY DEF EnterInOldBlock
<1>2. PICK c : /\ WriteEntry(block, b, c)
               /\ c.kind = "listing"
               /\ NewEntry(nul) \in c.entries
               /\ \A e \in c.entries :
                     e = NewEntry(nul) \/ (block[b].kind = "listing" /\ e \in block[b].entries)
  BY <1>1 DEF Listing
<1>3. b \in FreeBits /\ b \in Block
  <2>1. /\ OpenSpot \in OpenSpots
        /\ NumberAt(OpenSpot) \in Block
        /\ NumberAt(OpenSpot) # 0
    BY Spots DEF EnterInOldBlock, IsNewSpot
  <2>2. b \notin block_bitmap
    BY <2>1 DEF OpenSpots
  <2>3. QED
    BY <2>1, <2>2, Sizes DEF FreeBits, Bit, Block
<1>4. pc = "entry" /\ UNCHANGED inode
  BY DEF EnterInOldBlock
<1> HIDE DEF b
<1>5. /\ block' = [block EXCEPT ![b] = c]
      /\ block_bitmap' = block_bitmap \union {b}
      /\ cmd' = [cmd EXCEPT !.at = b]
      /\ pc' = "data"
      /\ UNCHANGED <<inode_bitmap, counts, ncommands, made>>
  BY <1>2 DEF WriteEntry, MarkOf
<1>6. DOMAIN block = Block /\ 0 \in Block
  BY Sizes DEF Typed, Block
<1>7. /\ DOMAIN block' = Block
      /\ block'[b] = c
      /\ \A x \in Block \ {b} : block'[x] = block[x]
  BY <1>3, <1>5, <1>6
<1>8. Entering(b)
  BY <1>2, <1>4, <1>5, <1>6, <1>7 DEF Entering
<1>9. QED
  BY <1>3, <1>8

LEMMA Enters ==
    ASSUME Typed, EnterInNewBlock \/ EnterInOldBlock
    PROVE  \E b \in FreeBits : Entering(b)
  BY NewBlockEnters, OldBlockEnters

\* The inodes after a copy: the file's own and, if it is large, the next one.
CopiedTo(b) ==
    [i \in Ino |->
        CASE i = cmd.ino -> [inode[i] EXCEPT !.i_block =
                               [s \in Spot |-> IF s < cmd.parts THEN b ELSE @[s]]]
          [] i = cmd.ino + 1 -> Overrun(inode[i], cmd.parts - Direct, b)
          [] OTHER -> inode[i]]

LEMMA CopiedType ==
    ASSUME Typed, pc # "idle", NEW b \in Block
    PROVE  CopiedTo(b) \in [Ino -> InodeRecord]
<1> SUFFICES ASSUME NEW i \in Ino PROVE CopiedTo(b)[i] \in InodeRecord
  BY DEF CopiedTo
<1>1. inode[i] \in InodeRecord
  BY InodeType
<1>2. [inode[i] EXCEPT !.i_block = [s \in Spot |-> IF s < cmd.parts THEN b ELSE @[s]]] \in InodeRecord
  BY <1>1 DEF InodeRecord
<1>3. Overrun(inode[i], cmd.parts - Direct, b) \in InodeRecord
  <2>1. 0 \in 0 .. MaxLinks
    BY Sizes
  <2>2. QED
    BY <1>1, <2>1 DEF InodeRecord, Overrun, Inode
<1>4. QED
  BY <1>1, <1>2, <1>3 DEF CopiedTo

LEMMA IndirectNumbersType ==
    ASSUME Typed, NEW n \in Nat, NEW b \in Block
    PROVE  /\ IndirectNumbers(n, b).kind = "numbers"
           /\ IndirectNumbers(n, b).words \in Seq(Block)
<1> DEFINE last == Max({n, Len(Indirect)})
<1>1. IndirectNumbers(n, b) = Numbers([k \in 1 .. last |-> IF k <= n THEN b ELSE Indirect[k]])
  BY DEF IndirectNumbers
<1>2. last \in {n, Len(Indirect)} /\ last >= n /\ last >= Len(Indirect) /\ last \in Nat
  <2>1. \E m \in {n, Len(Indirect)} : \A y \in {n, Len(Indirect)} : m >= y
    BY IndirectType
  <2>2. last \in {n, Len(Indirect)} /\ \A y \in {n, Len(Indirect)} : last >= y
    BY <2>1 DEF Max
  <2>3. QED
    BY <2>2, IndirectType
<1> HIDE DEF last
<1>3. \A k \in 1 .. last : (IF k <= n THEN b ELSE Indirect[k]) \in Block
  <2> TAKE k \in 1 .. last
  <2>1. CASE k <= n
    BY <2>1
  <2>2. CASE ~(k <= n)
    <3>1. k \in 1 .. Len(Indirect)
      BY <1>2, <2>2
    <3>2. QED
      BY <2>2, <3>1, IndirectType
  <2>3. QED
    BY <2>1, <2>2
<1>4. [k \in 1 .. last |-> IF k <= n THEN b ELSE Indirect[k]] \in Seq(Block)
  BY <1>2, <1>3
<1>5. QED
  BY <1>1, <1>4 DEF Numbers

\* The step that writes the file of a cp.
Copying(b) ==
    /\ pc = "data" /\ pc' = "idle" /\ cmd.op = "cp"
    /\ counts' = [counts EXCEPT !.blocks = @ - 1, !.inodes = @ - 1, !.dirs = @ + 1]
    /\ UNCHANGED <<block_bitmap, inode_bitmap, ncommands, made>>
    /\ inode' = CopiedTo(b)
    /\ DOMAIN block' = Block
    /\ block'[b].kind \in {"data", "numbers"}
    /\ \A x \in Block \ {b, 0} : block'[x] = block[x]
    /\ \/ block'[0] = block[0]
       \/ /\ block'[0].kind \in {"data", "numbers"}
          /\ block'[0].kind = "numbers" => block'[0].words \in Seq(Block)

LEMMA Copies ==
    ASSUME Typed, CopyFile
    PROVE  \E b \in FreeBits : Copying(b)
<1> DEFINE b == Min(FreeBits)
           n == cmd.parts - Direct
<1>1. /\ pc = "data" /\ cmd.op = "cp" /\ FreeBits # {}
      /\ block' = [block EXCEPT ![b] = Data(cmd.ino, cmd.parts),
                                ![0] = IF n > 0 THEN IndirectNumbers(n, b) ELSE @]
      /\ inode' = CopiedTo(b)
      /\ counts' = [counts EXCEPT !.blocks = @ - 1, !.inodes = @ - 1, !.dirs = @ + 1]
      /\ UNCHANGED <<block_bitmap, inode_bitmap, made>>
      /\ pc' = "idle" /\ UNCHANGED ncommands
  BY DEF CopyFile, CopiedTo, Finish
<1>2. b \in FreeBits /\ b \in Block
  BY <1>1, FreeBit DEF FreeBits, Bit, Block
<1>3. n \in Int
  BY <1>1, CommandType, Sizes
<1> HIDE DEF b
<1>4. DOMAIN block = Block /\ 0 \in Block
  BY Sizes DEF Typed, Block
<1>5. Data(cmd.ino, cmd.parts).kind = "data"
  BY DEF Data
<1>6. n > 0 => /\ IndirectNumbers(n, b).kind = "numbers"
               /\ IndirectNumbers(n, b).words \in Seq(Block)
  BY <1>2, <1>3, IndirectNumbersType
<1> HIDE DEF n
<1>7. /\ DOMAIN block' = Block
      /\ \A x \in Block \ {b, 0} : block'[x] = block[x]
      /\ b # 0 => block'[b] = Data(cmd.ino, cmd.parts)
      /\ b # 0 => block'[0] = block[0] \/ (n > 0 /\ block'[0] = IndirectNumbers(n, b))
      /\ b = 0 => \/ block'[0] = Data(cmd.ino, cmd.parts)
                  \/ n > 0 /\ block'[0] = IndirectNumbers(n, b)
  BY <1>1, <1>2, <1>4
<1>8. Copying(b)
  BY <1>1, <1>5, <1>6, <1>7 DEF Copying
<1>9. QED
  BY <1>2, <1>8

\* What the step of rm does, for the entry of inode i in the block at, apart from
\* the inode table.
Releasing(at, i) ==
    /\ pc = "idle" /\ UNCHANGED <<pc, cmd, made>>
    /\ ncommands < MaxCommands /\ ncommands' = ncommands + 1
    /\ \E s \in Spot : at = inode[DirIno].i_block[s]
    /\ block[at].kind = "listing" /\ block[at].entries # {}
    /\ \/ /\ Unlinked(i) = 0
          /\ \E stray \in FreedByShift(i) :
                 block_bitmap' = block_bitmap \ (FreedBits(i) \union stray)
          /\ inode_bitmap' = inode_bitmap \ {i}
          /\ counts' = Released
       \/ Unlinked(i) # 0 /\ UNCHANGED <<block_bitmap, inode_bitmap, counts>>
    /\ DOMAIN block' = Block
    /\ \A x \in Block : x # at - 1 => block'[x] = block[x]
    /\ \A x \in Block : \/ block'[x] = block[x]
                        \/ block[x].kind \in {"data", "meta"} /\ block'[x] = Damaged

\* The inode table after it, if rm writes in front of an entry whose block is not
\* the first after the table, and one of those it may have if it is.
Removed(i) == [inode EXCEPT ![i].links = Unlinked(i)]
Removing(at, i) == Releasing(at, i) /\ inode' = Removed(i)
Straying(at, i) ==
    /\ Releasing(at, i)
    /\ at - 1 \in 1 .. Meta - 1 /\ block[at - 1].kind = "meta" /\ block'[at - 1] = Damaged
    /\ \E k \in StrayInodes, s \in Spot, b \in 1 .. NumBlocks :
          inode' = [Removed(i) EXCEPT ![k].i_block[s] = b]

LEMMA Removes ==
    ASSUME Typed, Inodes, NEW n \in Name, Rm(n)
    PROVE  \E at \in Block, i \in FirstIno + 1 .. NumInodes : Removing(at, i) \/ Straying(at, i)
<1> DEFINE at == inode[DirIno].i_block[Min(Found(n))]
           entry == CHOOSE e \in block[at].entries : e.name = n /\ e.type = "file" /\ e.nul
           i == entry.ino
<1>1. /\ pc = "idle" /\ UNCHANGED <<pc, cmd, made>>
      /\ ncommands < MaxCommands /\ ncommands' = ncommands + 1
      /\ Found(n) # {}
      /\ inode' \in StrayedTable(at, Removed(i))
      /\ \/ /\ Unlinked(i) = 0
            /\ \E stray \in FreedByShift(i) :
                   block_bitmap' = block_bitmap \ (FreedBits(i) \union stray)
            /\ inode_bitmap' = inode_bitmap \ {i}
            /\ counts' = Released
         \/ Unlinked(i) # 0 /\ UNCHANGED <<block_bitmap, inode_bitmap, counts>>
      /\ \E c \in Strayed(at) : block' = [block EXCEPT ![at - 1] = c]
  BY DEF Rm, Starts, Removed
<1>2. Min(Found(n)) \in Found(n)
  <2>1. Found(n) \subseteq Nat
    BY Sizes DEF Found, Spot
  <2>2. QED
    BY <1>1, <2>1, LeastExists
<1>3. Min(Found(n)) \in Spot /\ Lists(at, n)
  BY <1>2 DEF Found
<1>4. at \in Block
  <2>1. DirIno \in Ino
    BY Sizes DEF DirIno, Ino
  <2>2. QED
    BY <1>3, <2>1, InodeType
<1>5. i \in FirstIno + 1 .. NumInodes /\ block[at].kind = "listing" /\ block[at].entries # {}
  <2>1. /\ block[at].kind = "listing"
        /\ \E e \in block[at].entries : e.name = n /\ e.type = "file" /\ e.nul
    BY <1>3 DEF Lists
  <2>2. entry \in block[at].entries
    BY <2>1
  <2>3. QED
    BY <1>4, <2>1, <2>2 DEF Inodes
<1>6. \E s \in Spot : at = inode[DirIno].i_block[s]
  BY <1>3
<1> HIDE DEF at, i
<1>7. DOMAIN block = Block
  BY DEF Typed
<1>8. PICK c \in Strayed(at) : block' = [block EXCEPT ![at - 1] = c]
  BY <1>1
<1>9. /\ DOMAIN block' = Block
      /\ \A x \in Block : x # at - 1 => block'[x] = block[x]
      /\ \A x \in Block : \/ block'[x] = block[x]
                          \/ block[x].kind \in {"data", "meta"} /\ block'[x] = Damaged
  <2>1. at = 0 => at - 1 \notin Block
    BY Sizes DEF Block
  <2>2. at # 0 => c = block[at - 1] \/ (block[at - 1].kind \in {"data", "meta"} /\ c = Damaged)
    BY <1>8 DEF Strayed, InFront
  <2>3. QED
    BY <1>7, <1>8, <2>1, <2>2
<1>10. Releasing(at, i)
  BY <1>1, <1>5, <1>6, <1>9 DEF Releasing
<1>11. CASE inode' = Removed(i)
  BY <1>4, <1>5, <1>10, <1>11 DEF Removing
<1>12. CASE inode' # Removed(i)
  <2>1. /\ InFront(at).kind = "meta"
        /\ \E k \in StrayInodes, s \in Spot, b \in 1 .. NumBlocks :
              inode' = [Removed(i) EXCEPT ![k].i_block[s] = b]
    BY <1>1, <1>12 DEF StrayedTable
  <2>2. at # 0 /\ InFront(at) = block[at - 1]
    BY <2>1 DEF InFront, Zeros, Listing
  <2>3. at - 1 \in Block
    BY <1>4, <2>2, Sizes DEF Block
  <2>4. at - 1 \in 1 .. Meta - 1 /\ block'[at - 1] = Damaged
    BY <1>7, <1>8, <2>1, <2>2, <2>3 DEF Strayed, Typed
  <2>5. QED
    BY <1>4, <1>5, <1>10, <2>1, <2>2, <2>4 DEF Straying
<1>13. QED
  BY <1>11, <1>12
-----------------------------------------------------------------------------
(* Every step preserves CountInv *)

LEMMA MkdirCounts ==
    ASSUME CountInv, NEW d \in Ino, NEW n \in Name, Mkdir(d, n)
    PROVE  CountInv'
<1> USE DEF CountInv
<1>1. /\ TakeInode("mkdir", d, n, 0) /\ pc = "idle"
      /\ ncommands < MaxCommands /\ ncommands' = ncommands + 1
      /\ UNCHANGED <<block_bitmap, inode_bitmap, counts, block, made>>
  BY DEF Mkdir, Starts
<1>2. DirIno \in inode_bitmap
  BY DEF Inodes
<1>3. /\ NewIno \notin inode_bitmap
      /\ inode' \in [Ino -> InodeRecord]
      /\ cmd' \in Command
      /\ cmd'.op = "mkdir" /\ cmd'.ino = NewIno
      /\ pc' = "entry"
  BY <1>1, <1>2, Takes
<1>4. Typed'
  BY <1>1, <1>3, Sizes DEF Typed
<1>5. Inodes'
  BY <1>1, <1>3 DEF Inodes, Running
<1>6. Counts'
  BY <1>1, <1>3 DEF Counts, FreeBits, Running
<1>7. QED
  BY <1>4, <1>5, <1>6

LEMMA CopyCounts ==
    ASSUME CountInv, NEW d \in Ino, NEW n \in Name, NEW parts \in FileParts, Copy(d, n, parts)
    PROVE  CountInv'
<1> USE DEF CountInv
<1>1. /\ TakeInode("cp", d, n, parts) /\ pc = "idle"
      /\ ncommands < MaxCommands /\ ncommands' = ncommands + 1
      /\ inode_bitmap' = inode_bitmap \union {NewIno}
      /\ UNCHANGED <<block_bitmap, counts, block, made>>
  BY DEF Copy, Starts
<1>2. DirIno \in inode_bitmap /\ parts \in Nat
  BY Sizes DEF Inodes
<1>3. /\ NewIno \in Ino \ inode_bitmap
      /\ inode' \in [Ino -> InodeRecord]
      /\ cmd' \in Command
      /\ cmd'.op = "cp"
      /\ pc' = "entry"
  BY <1>1, <1>2, Takes
<1>4. Typed'
  BY <1>1, <1>3, Sizes DEF Typed
<1>5. Inodes'
  BY <1>1, <1>3 DEF Inodes, Running
<1>6. Counts'
  <2>1. Cardinality(Ino \ inode_bitmap') = Cardinality(Ino \ inode_bitmap) - 1
    BY <1>1, <1>3, OneInodeLess
  <2>2. counts \in [blocks : Int, inodes : Int, dirs : Nat]
    BY DEF Typed
  <2>3. QED
    BY <1>1, <1>3, <2>1, <2>2, Finite DEF Counts, FreeBits, Running
<1>7. QED
  BY <1>4, <1>5, <1>6

LEMMA EnterCounts ==
    ASSUME CountInv, NEW b \in FreeBits, Entering(b)
    PROVE  CountInv'
<1> USE DEF CountInv
<1>1. /\ pc = "entry" /\ pc' = "data"
      /\ cmd' = [cmd EXCEPT !.at = b]
      /\ block_bitmap' = block_bitmap \union {b}
      /\ UNCHANGED <<inode_bitmap, counts, ncommands, made>>
      /\ DOMAIN block' = Block
  BY DEF Entering
<1>2. b \in Bit /\ b \in Block
  BY DEF FreeBits, Bit, Block
<1>3. cmd \in Command /\ cmd' \in Command /\ cmd'.op = cmd.op /\ cmd'.ino = cmd.ino
  <2>1. cmd \in Command
    BY <1>1 DEF Typed
  <2>2. QED
    BY <1>1, <1>2, <2>1 DEF Command
<1>4. inode' \in [Ino -> InodeRecord]
  <2>1. inode \in [Ino -> InodeRecord]
    BY DEF Typed
  <2>2. ASSUME NEW s \in Spot, inode' = [inode EXCEPT ![cmd.dir].i_block[s] = b]
        PROVE  inode' \in [Ino -> InodeRecord]
    <3>1. cmd.dir \in Ino
      BY <1>3 DEF Command
    <3>2. inode[cmd.dir] \in InodeRecord
      BY <2>1, <3>1
    <3>3. [inode[cmd.dir] EXCEPT !.i_block[s] = b] \in InodeRecord
      BY <1>2, <2>2, <3>2 DEF InodeRecord
    <3>4. QED
      BY <2>1, <2>2, <3>1, <3>3
  <2>3. QED
    BY <2>1, <2>2 DEF Entering
<1>5. block'[0].kind = "numbers" => block'[0].words \in Seq(Block)
  <2>1. CASE b = 0
    BY <2>1 DEF Entering
  <2>2. CASE b # 0
    BY <2>2 DEF Entering, Typed
  <2>3. QED
    BY <2>1, <2>2
<1>a. \A x \in Block : block'[x].kind = "meta" => x \in 1 .. Meta - 1
  BY DEF Entering, Typed
<1>6. Typed'
  BY <1>1, <1>2, <1>3, <1>4, <1>5, <1>a DEF Typed
<1>7. Inodes'
  <2>1. ASSUME NEW x \in Block, block'[x].kind = "listing", NEW e \in block'[x].entries
        PROVE  e.ino \in FirstIno + 1 .. NumInodes
    <3>1. CASE x = b
      <4>1. PICK nul \in BOOLEAN :
              e = NewEntry(nul) \/ (block[b].kind = "listing" /\ e \in block[b].entries)
        BY <2>1, <3>1 DEF Entering
      <4>2. NewEntry(nul).ino \in FirstIno + 1 .. NumInodes
        BY <1>3 DEF NewEntry, EntryOf, Command
      <4>3. QED
        BY <1>2, <4>1, <4>2 DEF Inodes
    <3>2. CASE x # b
      <4>1. block'[x] = block[x]
        BY <2>1, <3>2 DEF Entering
      <4>2. QED
        BY <2>1, <4>1 DEF Inodes
    <3>3. QED
      BY <3>1, <3>2
  <2>2. QED
    BY <1>1, <1>3, <2>1 DEF Inodes, Running
<1>8. Counts'
  <2>1. Cardinality(FreeBits') = Cardinality(FreeBits) - 1
    BY <1>1, OneBlockLess
  <2>2. counts \in [blocks : Int, inodes : Int, dirs : Nat]
    BY DEF Typed
  <2>3. counts.blocks >= Cardinality(FreeBits)
    BY <1>1, <2>2, Finite DEF Counts
  <2>4. counts.inodes >= Cardinality(Ino \ inode_bitmap) + (IF Running("cp") THEN 1 ELSE 0)
    BY DEF Counts
  <2>5. Running("cp") <=> Running("cp")'
    BY <1>1, <1>3 DEF Running
  <2>6. QED
    BY <1>1, <2>1, <2>2, <2>3, <2>4, <2>5, Finite DEF Counts
<1>9. QED
  BY <1>6, <1>7, <1>8

LEMMA NoFreeBlockCounts ==
    ASSUME CountInv, NoFreeBlock
    PROVE  CountInv'
<1> USE DEF CountInv
<1>1. /\ pc' = "idle" /\ cmd' = NoCommand
      /\ UNCHANGED <<block_bitmap, inode_bitmap, counts, inode, block, ncommands, made>>
  BY DEF NoFreeBlock
<1>2. Typed'
  BY <1>1 DEF Typed
<1>3. Inodes'
  BY <1>1 DEF Inodes, Running
<1>4. Counts'
  BY <1>1, Finite DEF Counts, Running, FreeBits, Typed
<1>5. QED
  BY <1>2, <1>3, <1>4

LEMMA CountsLowered ==
    ASSUME NEW c \in [blocks : Int, inodes : Int, dirs : Nat], NEW d,
           d = [c EXCEPT !.blocks = @ - 1, !.inodes = @ - 1, !.dirs = @ + 1]
    PROVE  /\ d \in [blocks : Int, inodes : Int, dirs : Nat]
           /\ d.blocks = c.blocks - 1
           /\ d.inodes = c.inodes - 1
<1>1. c.blocks \in Int /\ c.inodes \in Int /\ c.dirs \in Nat
  OBVIOUS
<1>2. d = [blocks |-> c.blocks - 1, inodes |-> c.inodes - 1, dirs |-> c.dirs + 1]
  OBVIOUS
<1>3. QED
  BY <1>1, <1>2

LEMMA CountsRaised ==
    ASSUME NEW c \in [blocks : Int, inodes : Int, dirs : Nat], NEW d, NEW k \in Int,
           d = [c EXCEPT !.blocks = @ + k, !.inodes = @ + 1]
    PROVE  /\ d \in [blocks : Int, inodes : Int, dirs : Nat]
           /\ d.blocks = c.blocks + k
           /\ d.inodes = c.inodes + 1
<1>1. c.blocks \in Int /\ c.inodes \in Int /\ c.dirs \in Nat
  OBVIOUS
<1>2. d = [blocks |-> c.blocks + k, inodes |-> c.inodes + 1, dirs |-> c.dirs]
  OBVIOUS
<1>3. QED
  BY <1>1, <1>2

LEMMA MakeDirectoryCounts ==
    ASSUME CountInv, MakeDirectory
    PROVE  CountInv'
<1> USE DEF CountInv
<1> DEFINE b == Min(FreeBits)
<1>1. /\ pc = "data" /\ cmd.op = "mkdir" /\ FreeBits # {}
      /\ block' = [block EXCEPT ![b] = Listing({EntryOf(Dot, cmd.ino, "dir", TRUE)}, FALSE)]
      /\ block_bitmap' = block_bitmap \union {b}
      /\ inode' = [inode EXCEPT ![cmd.ino].i_block[0] = b]
      /\ inode_bitmap' = inode_bitmap \union {cmd.ino}
      /\ counts' = [counts EXCEPT !.blocks = @ - 1, !.inodes = @ - 1, !.dirs = @ + 1]
      /\ pc' = "idle" /\ cmd' = NoCommand /\ UNCHANGED ncommands
  BY DEF MakeDirectory, MarkOf, Finish
<1>2. b \in FreeBits /\ b \in Bit /\ b \in Block
  BY <1>1, FreeBit DEF FreeBits, Bit, Block
<1> HIDE DEF b
<1>3. cmd.ino \in FirstIno + 1 .. NumInodes /\ cmd.ino \in Ino \ inode_bitmap
  <2>1. cmd.ino \in FirstIno + 1 .. NumInodes
    BY <1>1, CommandType
  <2>2. QED
    BY <1>1, <2>1, Sizes DEF Ino, Inodes, Running
<1>4. inode' \in [Ino -> InodeRecord]
  <2>1. inode \in [Ino -> InodeRecord] /\ inode[cmd.ino] \in InodeRecord
    BY <1>3 DEF Typed
  <2>2. 0 \in Spot
    BY Sizes DEF Spot
  <2>3. [inode[cmd.ino] EXCEPT !.i_block[0] = b] \in InodeRecord
    BY <1>2, <2>1, <2>2 DEF InodeRecord
  <2>4. QED
    BY <1>1, <1>3, <2>1, <2>3
<1>5. /\ DOMAIN block' = Block
      /\ block'[b] = Listing({EntryOf(Dot, cmd.ino, "dir", TRUE)}, FALSE)
      /\ \A x \in Block \ {b} : block'[x] = block[x]
  BY <1>1, <1>2 DEF Typed
<1>6. block'[b].kind = "listing" /\ block'[b].entries = {EntryOf(Dot, cmd.ino, "dir", TRUE)}
  BY <1>5 DEF Listing
<1>7. block'[0].kind = "numbers" => block'[0].words \in Seq(Block)
  <2>1. CASE b = 0
    BY <1>6, <2>1
  <2>2. CASE b # 0
    <3>1. block'[0] = block[0]
      BY <1>5, <2>2, Sizes DEF Block
    <3>2. QED
      BY <3>1 DEF Typed
  <2>3. QED
    BY <2>1, <2>2
<1>8. /\ counts \in [blocks : Int, inodes : Int, dirs : Nat]
      /\ counts' \in [blocks : Int, inodes : Int, dirs : Nat]
      /\ counts'.blocks = counts.blocks - 1
      /\ counts'.inodes = counts.inodes - 1
  <2>1. counts \in [blocks : Int, inodes : Int, dirs : Nat]
    BY DEF Typed
  <2>2. QED
    BY <1>1, <2>1, CountsLowered
<1>a. \A x \in Block : block'[x].kind = "meta" => x \in 1 .. Meta - 1
  BY <1>5, <1>6 DEF Typed
<1>9. Typed'
  BY <1>1, <1>2, <1>3, <1>4, <1>5, <1>7, <1>8, <1>a DEF Typed
<1>10. Inodes'
  <2>1. EntryOf(Dot, cmd.ino, "dir", TRUE).ino \in FirstIno + 1 .. NumInodes
    BY <1>3 DEF EntryOf
  <2>2. ASSUME NEW x \in Block, block'[x].kind = "listing", NEW e \in block'[x].entries
        PROVE  e.ino \in FirstIno + 1 .. NumInodes
    <3>1. CASE x = b
      BY <1>6, <2>1, <2>2, <3>1
    <3>2. CASE x # b
      BY <1>5, <2>2, <3>2 DEF Inodes
    <3>3. QED
      BY <3>1, <3>2
  <2>3. QED
    BY <1>1, <2>2 DEF Inodes, Running
<1>11. Counts'
  <2>1. Cardinality(FreeBits') = Cardinality(FreeBits) - 1
    BY <1>1, <1>2, OneBlockLess
  <2>2. Cardinality(Ino \ inode_bitmap') = Cardinality(Ino \ inode_bitmap) - 1
    BY <1>1, <1>3, OneInodeLess
  <2>3. counts.blocks >= Cardinality(FreeBits) + 1 /\ counts.inodes >= Cardinality(Ino \ inode_bitmap)
    BY <1>1, <1>8, Finite DEF Counts, Running
  <2>4. QED
    BY <1>1, <1>8, <2>1, <2>2, <2>3, Finite DEF Counts, Running
<1>12. QED
  BY <1>9, <1>10, <1>11

LEMMA CopyFileCounts ==
    ASSUME CountInv, NEW b \in FreeBits, Copying(b)
    PROVE  CountInv'
<1> USE DEF CountInv
<1>1. /\ pc = "data" /\ pc' = "idle" /\ cmd.op = "cp"
      /\ counts' = [counts EXCEPT !.blocks = @ - 1, !.inodes = @ - 1, !.dirs = @ + 1]
      /\ UNCHANGED <<block_bitmap, inode_bitmap, ncommands, made>>
      /\ inode' = CopiedTo(b)
      /\ DOMAIN block' = Block
  BY DEF Copying
<1>2. b \in Block
  BY DEF FreeBits, Bit, Block
<1>3. inode' \in [Ino -> InodeRecord]
  BY <1>1, <1>2, CopiedType
<1>4. block'[0].kind = "numbers" => block'[0].words \in Seq(Block)
  BY DEF Copying, Typed
<1>5. /\ counts \in [blocks : Int, inodes : Int, dirs : Nat]
      /\ counts' \in [blocks : Int, inodes : Int, dirs : Nat]
      /\ counts'.blocks = counts.blocks - 1
      /\ counts'.inodes = counts.inodes - 1
  <2>1. counts \in [blocks : Int, inodes : Int, dirs : Nat]
    BY DEF Typed
  <2>2. QED
    BY <1>1, <2>1, CountsLowered
<1>a. \A x \in Block : block'[x].kind = "meta" => x \in 1 .. Meta - 1
  BY DEF Copying, Typed
<1>6. Typed'
  BY <1>1, <1>3, <1>4, <1>5, <1>a DEF Typed
<1>7. Inodes'
  <2>1. ASSUME NEW x \in Block, block'[x].kind = "listing"
        PROVE  block'[x] = block[x]
    BY <2>1 DEF Copying
  <2>2. QED
    BY <1>1, <2>1 DEF Inodes, Running
<1>8. Counts'
  <2>1. counts.blocks >= Cardinality(FreeBits) + 1 /\ counts.inodes >= Cardinality(Ino \ inode_bitmap) + 1
    BY <1>1, <1>5, Finite DEF Counts, Running
  <2>2. FreeBits' = FreeBits /\ (Ino \ inode_bitmap)' = Ino \ inode_bitmap
    BY <1>1 DEF FreeBits
  <2>3. QED
    BY <1>1, <1>5, <2>1, <2>2, Finite DEF Counts, Running
<1>9. QED
  BY <1>6, <1>7, <1>8

\* rm, apart from the inode table.
LEMMA ReleaseCounts ==
    ASSUME CountInv, NEW at \in Block, NEW i \in FirstIno + 1 .. NumInodes, Releasing(at, i)
    PROVE  /\ Counts' /\ counts' \in [blocks : Int, inodes : Int, dirs : Nat]
           /\ block_bitmap' \subseteq block_bitmap /\ inode_bitmap' \subseteq inode_bitmap
           /\ DirIno \in inode_bitmap'
           /\ pc' = "idle" /\ ncommands' \in 0 .. MaxCommands /\ DOMAIN block' = Block
           /\ \A x \in Block : block'[x].kind \in {"listing", "numbers", "meta"} => block'[x] = block[x]
           /\ Removed(i) \in [Ino -> InodeRecord]
<1> USE DEF CountInv
<1>1. /\ pc = "idle" /\ UNCHANGED <<pc, cmd, made>>
      /\ ncommands < MaxCommands /\ ncommands' = ncommands + 1
      /\ DOMAIN block' = Block
  BY DEF Releasing
<1>2. i \in Ino /\ i # DirIno
  BY Sizes DEF Ino, DirIno
<1>3. Unlinked(i) \in 0 .. MaxLinks
  <2>1. inode[i].links \in 0 .. MaxLinks
    BY <1>2, InodeType
  <2>2. QED
    BY <2>1, Sizes DEF Unlinked
<1>4. Removed(i) \in [Ino -> InodeRecord]
  <2>1. inode \in [Ino -> InodeRecord] /\ inode[i] \in InodeRecord
    BY <1>2 DEF Typed
  <2>2. [inode[i] EXCEPT !.links = Unlinked(i)] \in InodeRecord
    BY <1>3, <2>1 DEF InodeRecord
  <2>3. QED
    BY <1>2, <2>1, <2>2 DEF Removed
<1>5. /\ counts \in [blocks : Int, inodes : Int, dirs : Nat]
      /\ Released \in [blocks : Int, inodes : Int, dirs : Nat]
      /\ Released.blocks = counts.blocks + Direct
      /\ Released.inodes = counts.inodes + 1
  <2>1. counts \in [blocks : Int, inodes : Int, dirs : Nat]
    BY DEF Typed
  <2>2. Released = [counts EXCEPT !.blocks = @ + Direct, !.inodes = @ + 1] /\ Direct \in Int
    BY Sizes DEF Released
  <2>3. QED
    BY <2>1, <2>2, CountsRaised
<1>6. block_bitmap' \subseteq block_bitmap /\ inode_bitmap' \subseteq inode_bitmap
      /\ counts' \in [blocks : Int, inodes : Int, dirs : Nat] /\ DirIno \in inode_bitmap'
  BY <1>2, <1>5 DEF Releasing, Inodes
<1>7. \A x \in Block : block'[x].kind \in {"listing", "numbers", "meta"} => block'[x] = block[x]
  BY DEF Releasing, Damaged
<1>8. ncommands' \in 0 .. MaxCommands
  <2>1. ncommands \in 0 .. MaxCommands
    BY DEF Typed
  <2>2. QED
    BY <1>1, <2>1, Sizes
<1>9. Counts'
  <2>1. counts.blocks >= Cardinality(FreeBits) /\ counts.inodes >= Cardinality(Ino \ inode_bitmap)
    BY <1>1, <1>5, Finite DEF Counts, Running
  <2>2. /\ Cardinality(FreeBits') \in Nat /\ Cardinality(Ino \ inode_bitmap') \in Nat
    <3>1. IsFiniteSet(FreeBits') /\ IsFiniteSet(Ino \ inode_bitmap')
      BY Finite, FS_Difference DEF FreeBits
    <3>2. QED
      BY <3>1, FS_CardinalityType
  <2>3. CASE Unlinked(i) = 0
    <3>1. PICK stray \in FreedByShift(i) :
            block_bitmap' = block_bitmap \ (FreedBits(i) \union stray)
      BY <2>3 DEF Releasing
    <3>2. inode_bitmap' = inode_bitmap \ {i} /\ counts' = Released
      BY <2>3 DEF Releasing
    <3>3. Cardinality(FreeBits') <= Cardinality(FreeBits) + Direct
      BY <1>2, <3>1, FewerThanReleased
    <3>4. Cardinality(Ino \ inode_bitmap') <= Cardinality(Ino \ inode_bitmap) + 1
      BY <3>2, OneInodeMore
    <3>5. QED
      BY <1>1, <1>5, <2>1, <2>2, <3>2, <3>3, <3>4, Finite, Sizes DEF Counts, Running
  <2>4. CASE Unlinked(i) # 0
    <3>1. UNCHANGED <<block_bitmap, inode_bitmap, counts>>
      BY <2>4 DEF Releasing
    <3>2. QED
      BY <1>1, <2>1, <3>1, Finite DEF Counts, Running, FreeBits
  <2>5. QED
    BY <2>3, <2>4
<1>10. QED
  BY <1>1, <1>4, <1>6, <1>7, <1>8, <1>9

LEMMA RemoveCounts ==
    ASSUME CountInv, NEW at \in Block, NEW i \in FirstIno + 1 .. NumInodes, Removing(at, i)
    PROVE  CountInv'
<1>1. Releasing(at, i) /\ inode' = Removed(i)
  BY DEF Removing
<1>2. /\ Counts' /\ counts' \in [blocks : Int, inodes : Int, dirs : Nat]
      /\ block_bitmap' \subseteq block_bitmap /\ inode_bitmap' \subseteq inode_bitmap
      /\ DirIno \in inode_bitmap'
      /\ pc' = "idle" /\ ncommands' \in 0 .. MaxCommands /\ DOMAIN block' = Block
      /\ \A x \in Block : block'[x].kind \in {"listing", "numbers", "meta"} => block'[x] = block[x]
      /\ Removed(i) \in [Ino -> InodeRecord]
  BY <1>1, ReleaseCounts
<1>3. Typed'
  <2>1. block'[0].kind = "numbers" => block'[0].words \in Seq(Block)
    <3>1. 0 \in Block
      BY Sizes DEF Block
    <3>2. block'[0].kind = "numbers" => block'[0] = block[0]
      BY <1>2, <3>1
    <3>3. QED
      BY <3>2 DEF CountInv, Typed
  <2>2. \A b \in Block : block'[b].kind = "meta" => b \in 1 .. Meta - 1
    BY <1>2 DEF CountInv, Typed
  <2>3. QED
    BY <1>1, <1>2, <2>1, <2>2 DEF CountInv, Typed
<1>4. Inodes'
  BY <1>2 DEF CountInv, Inodes, Running
<1>5. QED
  BY <1>2, <1>3, <1>4 DEF CountInv

\* The image after rm has written into its inode table: no command is run on it.
Halted == pc = "idle" /\ ~TableIsIntact /\ TypeOK /\ CountsOnlyOverstate

LEMMA StrayHalts ==
    ASSUME CountInv, NEW at \in Block, NEW i \in FirstIno + 1 .. NumInodes, Straying(at, i)
    PROVE  Halted'
<1>1. /\ Counts' /\ counts' \in [blocks : Int, inodes : Int, dirs : Nat]
      /\ block_bitmap' \subseteq block_bitmap /\ inode_bitmap' \subseteq inode_bitmap
      /\ pc' = "idle" /\ ncommands' \in 0 .. MaxCommands /\ DOMAIN block' = Block
      /\ Removed(i) \in [Ino -> InodeRecord]
  BY ReleaseCounts DEF Straying
<1>2. ~TableIsIntact'
  BY DEF Straying, TableIsIntact
<1>3. /\ DOMAIN inode' = Ino
      /\ \A k \in Ino : /\ inode'[k].links \in 0 .. MaxLinks
                        /\ inode'[k].sized \in BOOLEAN
                        /\ inode'[k].i_block \in [Spot -> 0 .. NumBlocks]
  <2>1. PICK k \in StrayInodes, s \in Spot, b \in 1 .. NumBlocks :
          inode' = [Removed(i) EXCEPT ![k].i_block[s] = b]
    BY DEF Straying
  <2>2. DOMAIN inode' = Ino /\ \A j \in Ino : j # k => inode'[j] = Removed(i)[j]
    BY <1>1, <2>1
  <2>3. \A j \in Ino : /\ Removed(i)[j] \in InodeRecord
                       /\ Removed(i)[j].i_block \in [Spot -> 0 .. NumBlocks]
    <3>1. Block \subseteq 0 .. NumBlocks
      BY Sizes DEF Block
    <3>2. \A j \in Ino : Removed(i)[j].i_block \in [Spot -> Block]
      BY <1>1 DEF InodeRecord
    <3>3. QED
      BY <1>1, <3>1, <3>2
  <2>4. k \in Ino
    BY Sizes DEF StrayInodes, Ino
  <2>5. inode'[k] = [Removed(i)[k] EXCEPT !.i_block[s] = b]
    BY <1>1, <2>1, <2>4
  <2>6. /\ inode'[k].links = Removed(i)[k].links /\ inode'[k].sized = Removed(i)[k].sized
        /\ inode'[k].i_block = [Removed(i)[k].i_block EXCEPT ![s] = b]
    BY <2>3, <2>4, <2>5 DEF InodeRecord
  <2>7. b \in 0 .. NumBlocks
    BY Sizes
  <2>8. inode'[k].i_block \in [Spot -> 0 .. NumBlocks]
    BY <2>3, <2>4, <2>6, <2>7
  <2>9. \A j \in Ino : Removed(i)[j].links \in 0 .. MaxLinks /\ Removed(i)[j].sized \in BOOLEAN
    BY <2>3 DEF InodeRecord
  <2>10. QED
    BY <2>2, <2>3, <2>4, <2>6, <2>8, <2>9
<1>4. /\ counts'.blocks >= Cardinality(FreeBits') /\ counts'.inodes >= Cardinality(Ino \ inode_bitmap')
      /\ counts' \in [blocks : Nat, inodes : Nat, dirs : Nat]
  <2>1. counts'.blocks \in Int /\ counts'.inodes \in Int /\ counts'.dirs \in Nat
    BY <1>1
  <2>2. /\ Cardinality(FreeBits') \in Nat /\ Cardinality(Ino \ inode_bitmap') \in Nat
    <3>1. IsFiniteSet(FreeBits') /\ IsFiniteSet(Ino \ inode_bitmap')
      BY Finite, FS_Difference DEF FreeBits
    <3>2. QED
      BY <3>1, FS_CardinalityType
  <2>3. counts'.blocks >= Cardinality(FreeBits') /\ counts'.inodes >= Cardinality(Ino \ inode_bitmap')
    BY <1>1, <2>1, <2>2 DEF Counts, Running
  <2>4. QED
    BY <1>1, <2>1, <2>2, <2>3
<1>5. TypeOK'
  BY <1>1, <1>3, <1>4 DEF CountInv, Typed, TypeOK
<1>6. QED
  BY <1>1, <1>2, <1>4, <1>5 DEF Halted, CountsOnlyOverstate

LEMMA IdleCounts ==
    ASSUME CountInv, UNCHANGED <<block_bitmap, inode_bitmap, counts, inode, block, pc, cmd, made>>,
           ncommands' \in 0 .. MaxCommands
    PROVE  CountInv'
<1>1. Typed'
  BY DEF CountInv, Typed
<1>2. Inodes' /\ Counts'
  BY DEF CountInv, Inodes, Counts, Running, FreeBits
<1>3. QED
  BY <1>1, <1>2 DEF CountInv

\* The steps of Next, by what they do.
LEMMA Cases ==
    ASSUME Typed, Inodes, [Next]_vars
    PROVE  \/ \E d \in Ino, n \in Name : Mkdir(d, n)
           \/ \E d \in Ino, n \in Name, parts \in FileParts : Copy(d, n, parts)
           \/ \E b \in FreeBits : Entering(b)
           \/ NoFreeBlock
           \/ MakeDirectory
           \/ \E b \in FreeBits : Copying(b)
           \/ \E at \in Block, i \in FirstIno + 1 .. NumInodes : Removing(at, i) \/ Straying(at, i)
           \/ /\ UNCHANGED <<block_bitmap, inode_bitmap, counts, inode, block, pc, cmd, made>>
              /\ ncommands' \in ncommands .. MaxCommands
              /\ pc = "idle" \/ ncommands' = ncommands
<1>0. ncommands \in 0 .. MaxCommands /\ MaxCommands \in Nat
  BY Sizes DEF Typed
<1>1. CASE \E n \in Name : Rm(n)
  BY <1>1, Removes
<1>2. CASE \E n \in Name : Refused(n)
  BY <1>0, <1>2 DEF Refused, Starts
<1>3. CASE EnterInNewBlock \/ EnterInOldBlock
  BY <1>3, Enters
<1>4. CASE CopyFile
  BY <1>4, Copies
<1>5. CASE Done \/ UNCHANGED vars
  BY <1>0, <1>5 DEF Done, vars
<1>6. QED
  BY <1>1, <1>2, <1>3, <1>4, <1>5 DEF Next

\* Nothing happens on a halted image.
LEMMA HaltedStays == Halted /\ [Next]_vars => UNCHANGED vars
<1> SUFFICES ASSUME Halted, [Next]_vars PROVE UNCHANGED vars
  OBVIOUS
<1>1. ~Starts /\ pc = "idle"
  BY DEF Halted, Starts
<1>2. QED
  BY <1>1 DEF Next, Mkdir, Copy, Rm, Refused, EnterInNewBlock, EnterInOldBlock, NoFreeBlock,
              MakeDirectory, CopyFile, Done

LEMMA HaltedPrimed == Halted /\ UNCHANGED vars => Halted'
  BY DEF Halted, vars, TableIsIntact, TypeOK, CountsOnlyOverstate, FreeBits

LEMMA NextCounts == (CountInv \/ Halted) /\ [Next]_vars => (CountInv \/ Halted)'
<1>1. ASSUME CountInv, [Next]_vars PROVE CountInv' \/ Halted'
  <2>1. Typed /\ Inodes
    BY <1>1 DEF CountInv
  <2>2. ncommands' \in ncommands .. MaxCommands => ncommands' \in 0 .. MaxCommands
    BY <2>1, Sizes DEF Typed
  <2>3. QED
    BY <1>1, <2>1, <2>2, Cases, MkdirCounts, CopyCounts, EnterCounts, NoFreeBlockCounts, MakeDirectoryCounts,
       CopyFileCounts, RemoveCounts, StrayHalts, IdleCounts
<1>2. ASSUME Halted, [Next]_vars PROVE Halted'
  BY <1>2, HaltedStays, HaltedPrimed
<1>3. QED
  BY <1>1, <1>2

LEMMA CountInvariance == Spec => [](CountInv \/ Halted)
  BY InitCounts, NextCounts, PTL DEF Spec

\* Every variable keeps its type; above all the free counts, which the commands
\* lower without looking, never fall below zero.
THEOREM TypeCorrect == Spec => []TypeOK
<1>1. CountInv => TypeOK
  <2> SUFFICES ASSUME CountInv PROVE TypeOK
    OBVIOUS
  <2>1. Typed /\ Counts
    BY DEF CountInv
  <2>2. counts \in [blocks : Nat, inodes : Nat, dirs : Nat]
    <3>1. counts \in [blocks : Int, inodes : Int, dirs : Nat]
      BY <2>1 DEF Typed
    <3>2. counts.blocks \in Nat /\ counts.inodes \in Nat
      BY <2>1, <3>1, Finite DEF Counts
    <3>3. QED
      BY <3>1, <3>2
  <2>3. \A i \in Ino : /\ inode[i].links \in 0 .. MaxLinks
                       /\ inode[i].sized \in BOOLEAN
                       /\ inode[i].i_block \in [Spot -> 0 .. NumBlocks]
    <3>1. Block \subseteq 0 .. NumBlocks
      BY Sizes DEF Block
    <3>2. \A i \in Ino : /\ inode[i].links \in 0 .. MaxLinks
                         /\ inode[i].sized \in BOOLEAN
                         /\ inode[i].i_block \in [Spot -> Block]
      BY <2>1, InodeType DEF InodeRecord
    <3>3. QED
      BY <3>1, <3>2
  <2>4. DOMAIN inode = Ino
    BY <2>1 DEF Typed
  <2>5. QED
    BY <2>1, <2>2, <2>3, <2>4 DEF Typed, TypeOK
<1>2. Halted => TypeOK
  BY DEF Halted
<1>3. QED
  BY <1>1, <1>2, CountInvariance, PTL

\* The free counts never promise less than the bitmaps have, whatever commands are
\* run, refused or stopped for want of a block, on an image of any size.
THEOREM CountsNeverUnderstate == Spec => []CountsOnlyOverstate
<1>1. CountInv => CountsOnlyOverstate
  <2> SUFFICES ASSUME CountInv PROVE CountsOnlyOverstate
    OBVIOUS
  <2>1. counts \in [blocks : Int, inodes : Int, dirs : Nat]
    BY DEF CountInv, Typed
  <2>2. QED
    BY <2>1, Finite DEF CountInv, Counts, CountsOnlyOverstate
<1>2. Halted => CountsOnlyOverstate
  BY DEF Halted
<1>3. QED
  BY <1>1, <1>2, CountInvariance, PTL
-----------------------------------------------------------------------------
\* A block that is not free and that no rm will free.
Kept(b) == /\ b \in block_bitmap \ {0}
           /\ FileIsThere => b \notin {StrayBit, FileBlock - 1}

\* The image's own file has one block and one link, and only it loses its last
\* link: a copied file is created with none.
OwnFile ==
    /\ \A i \in FirstIno + 1 .. NumInodes :
           \/ inode[i].links = 0
           \/ inode[i].links > MaxLinks - ncommands
           \/ i = FileIno /\ inode[i].links = 1
    /\ FileIsThere =>
           /\ FileIno \in inode_bitmap
           /\ FileBlock \in Reserved + 1 .. NumBlocks - 1
           /\ {StrayBit, FileBlock - 1} \subseteq block_bitmap
           /\ inode[FileIno].i_block = OneBlock(FileBlock)
           /\ pc # "idle" => cmd.ino # FileIno /\ cmd.dir # FileIno
           /\ \A b \in Block : block[b].kind = "listing" =>
                  \A e \in block[b].entries : e.type = "dir" => e.ino # FileIno

\* Inodes are taken in order, but for the one of the image's own file.
Others == (FirstIno + 1 .. NumInodes) \ {FileIno}
InOrder ==
    /\ \A i \in Others : i \notin inode_bitmap =>
           \A k \in Others : k >= i => k \notin inode_bitmap
    /\ pc # "idle" => \A k \in FirstIno + 1 .. cmd.ino - 1 : k \in inode_bitmap
    /\ Running("cp") =>
           /\ cmd.ino \in inode_bitmap
           /\ cmd.ino = FileIno \/ \A k \in Others : k > cmd.ino => k \notin inode_bitmap

\* No file in front of the inode of the image's own file will run into it any more.
Settled == /\ \A k \in FirstIno + 1 .. FileIno - 1 : k \in inode_bitmap
           /\ Running("cp") => cmd.ino >= FileIno

\* The bits that no rm clears.
FixedBits == (0 .. Reserved - 1) \ {StrayBit} \subseteq block_bitmap

Entered == pc = "data" =>
    /\ Kept(cmd.at)
    /\ block[cmd.at].kind = "listing"
    /\ Running("mkdir") => \E nul \in BOOLEAN : EntryOf(cmd.name, cmd.ino, "dir", nul) \in block[cmd.at].entries

DirectoryStays(m) ==
    /\ m.ino \in inode_bitmap \cap (FirstIno + 1 .. NumInodes)
    /\ FileIsThere => m.ino # FileIno
    /\ m.ino >= FileIno => Settled
    /\ pc # "idle" => cmd.ino # m.ino
    /\ inode[m.ino].i_block[0] # 0
    /\ \/ inode[m.ino].i_block[0] = m.block
       \/ IsOverrun(m.ino) /\ FileIno \in inode_bitmap /\ ~ (Running("cp") /\ cmd.ino = FileIno)
    /\ Kept(m.at) /\ Kept(m.block)
    /\ block[m.block] = Listing({EntryOf(Dot, m.ino, "dir", TRUE)}, FALSE)
    /\ block[m.at].kind = "listing"
    /\ \E nul \in BOOLEAN : EntryOf(m.name, m.ino, "dir", nul) \in block[m.at].entries

StayInv == /\ CountInv /\ OwnFile /\ InOrder /\ FixedBits /\ Entered
           /\ MetadataIsIntact
           /\ block[StrayBit - 1] \in {MetaData, Damaged}
           /\ \A m \in made : DirectoryStays(m)

\* Without the bound a copied file is given back after MaxLinks + 1 removals.
FewCommands == MaxCommands < MaxLinks

LEMMA Places ==
    /\ FileIno \in Ino /\ DirIno \in Ino /\ FileIno # DirIno /\ FileIno \in Nat
    /\ 0 \in Spot /\ 0 \in Block /\ Meta \in Block
    /\ StrayBit - 1 \in Block /\ StrayBit - 1 # 0 /\ StrayBit - 1 # Meta
  BY Sizes DEF DirIno, Ino, Spot, Block

\* A block that a command is given holds nothing that must stay.
LEMMA FreeBlock ==
    ASSUME StayInv, NEW b \in FreeBits
    PROVE  /\ b \in Block /\ b # 0 /\ b \notin block_bitmap
           /\ ~ Kept(b)
           /\ FileIsThere => b \notin {StrayBit, FileBlock - 1}
           /\ b \in 1 .. Meta => b = StrayBit /\ ~FileIsThere
           /\ b # StrayBit - 1
           /\ \A m \in made : b # m.at /\ b # m.block
           /\ pc = "data" => b # cmd.at
<1>1. b \in Bit \ block_bitmap
  BY DEF FreeBits
<1>2. ~ Kept(b)
  BY <1>1 DEF Kept
<1>3. FileIsThere => b \notin {StrayBit, FileBlock - 1}
  BY <1>1 DEF StayInv, OwnFile
<1>4. b \notin (0 .. Reserved - 1) \ {StrayBit}
  BY <1>1 DEF StayInv, FixedBits
<1>5. b # 0 /\ (b \in 1 .. Meta => b = StrayBit) /\ b # StrayBit - 1
  BY <1>4, Sizes
<1>6. \A m \in made : b # m.at /\ b # m.block
  BY <1>2 DEF StayInv, DirectoryStays
<1>7. pc = "data" => b # cmd.at
  BY <1>2 DEF StayInv, Entered
<1>8. QED
  BY <1>1, <1>2, <1>3, <1>5, <1>6, <1>7 DEF Bit, Block

\* A step leaves the inode of the image's own file alone, or takes its link.
OwnStays == FileIsThere' => FileIsThere /\ inode'[FileIno].i_block = inode[FileIno].i_block

LEMMA KeptStays ==
    ASSUME OwnStays, NEW b, Kept(b), b \in block_bitmap'
    PROVE  Kept(b)'
  BY DEF OwnStays, Kept, FileBlock

LEMMA InitStays == Init => StayInv
<1> SUFFICES ASSUME Init PROVE StayInv
  OBVIOUS
<1>0. CountInv
  BY InitCounts
<1>1. PICK d \in Reserved + 1 .. NumBlocks - 1, f \in Reserved + 1 .. NumBlocks - 1, nul \in BOOLEAN :
        /\ block_bitmap = (0 .. Reserved - 1) \union {d - 1, f - 1, NumBlocks - 1}
        /\ inode_bitmap = (1 .. DirIno) \union {FileIno}
        /\ inode = [i \in Ino |-> CASE i = RootIno -> Inode(3, TRUE, OneBlock(Meta))
                                    [] i = DirIno  -> Inode(2, TRUE, OneBlock(d))
                                    [] i = FileIno -> Inode(1, TRUE, OneBlock(f))
                                    [] OTHER       -> ZeroInode]
        /\ block = [b \in Block |->
                      CASE b = 0 -> Zeros
                        [] b = Meta -> Listing({}, TRUE)
                        [] b \in 1 .. Meta - 1 -> MetaData
                        [] b = d -> Listing({EntryOf(FileName, FileIno, "file", nul)}, TRUE)
                        [] b = f -> Data(FileIno, 1)
                        [] OTHER -> Zeros]
        /\ pc = "idle" /\ made = {}
  BY DEF Init
<1>a. /\ block_bitmap = (0 .. Reserved - 1) \union {d - 1, f - 1, NumBlocks - 1}
      /\ inode_bitmap = (1 .. DirIno) \union {FileIno}
  BY <1>1, Zenon
<1>b. inode = [i \in Ino |-> CASE i = RootIno -> Inode(3, TRUE, OneBlock(Meta))
                               [] i = DirIno  -> Inode(2, TRUE, OneBlock(d))
                               [] i = FileIno -> Inode(1, TRUE, OneBlock(f))
                               [] OTHER       -> ZeroInode]
  BY <1>1, Zenon
<1>c. block = [b \in Block |->
                 CASE b = 0 -> Zeros
                   [] b = Meta -> Listing({}, TRUE)
                   [] b \in 1 .. Meta - 1 -> MetaData
                   [] b = d -> Listing({EntryOf(FileName, FileIno, "file", nul)}, TRUE)
                   [] b = f -> Data(FileIno, 1)
                   [] OTHER -> Zeros]
  BY <1>1, Zenon
<1>d. pc = "idle" /\ made = {}
  BY <1>1, Zenon
<1>2. FixedBits
  BY <1>a DEF FixedBits
<1>3. Entered /\ \A m \in made : DirectoryStays(m)
  BY <1>d DEF Entered
<1>4. InOrder
  BY <1>a, <1>d, Sizes DEF InOrder, Others, Running, DirIno
<1>5. /\ inode[FileIno] = Inode(1, TRUE, OneBlock(f))
      /\ \A i \in Others : inode[i] = ZeroInode
  <2>1. /\ FileIno \in Ino /\ FileIno # DirIno /\ FileIno # RootIno
        /\ \A i \in Others : i \in Ino /\ i # FileIno /\ i # DirIno /\ i # RootIno
    BY Sizes DEF DirIno, RootIno, Ino, Others
  <2>2. inode[FileIno] = Inode(1, TRUE, OneBlock(f))
    BY <1>b, <2>1
  <2>3. \A i \in Others : inode[i] = ZeroInode
    BY <1>b, <2>1
  <2>4. QED
    BY <2>2, <2>3
<1>6. OwnFile
  <2>1. inode[FileIno].links = 1 /\ inode[FileIno].i_block = OneBlock(f)
    BY <1>5 DEF Inode
  <2>2. \A i \in Others : inode[i].links = 0
    BY <1>5 DEF ZeroInode, Inode
  <2>3. FileBlock = f
    BY <2>1, Places DEF FileBlock, OneBlock
  <2>4. {StrayBit, f - 1} \subseteq block_bitmap /\ FileIno \in inode_bitmap
    BY <1>a, Sizes
  <2>5. ASSUME NEW b \in Block, block[b].kind = "listing", NEW e \in block[b].entries
        PROVE  e.type # "dir"
    <3>1. \/ block[b].entries = {}
          \/ block[b].entries = {EntryOf(FileName, FileIno, "file", nul)}
      BY <1>c, <2>5 DEF Zeros, Listing, MetaData, Data
    <3>2. e = EntryOf(FileName, FileIno, "file", nul)
      BY <2>5, <3>1
    <3>3. QED
      BY <3>2 DEF EntryOf
  <2>6. \A i \in FirstIno + 1 .. NumInodes : \/ inode[i].links = 0
                                             \/ i = FileIno /\ inode[i].links = 1
    BY <2>1, <2>2 DEF Others
  <2>7. QED
    BY <1>d, <2>1, <2>3, <2>4, <2>5, <2>6 DEF OwnFile
<1>7. MetadataIsIntact
  <2>1. ASSUME NEW b \in 1 .. Meta
        PROVE  block[b] = IF b = Meta THEN Listing({}, TRUE) ELSE MetaData
    <3>1. b \in Block /\ b # 0 /\ (b # Meta => b \in 1 .. Meta - 1) /\ b # d /\ b # f
      BY Sizes DEF Block
    <3>2. CASE b = Meta
      <4>1. b \notin 1 .. Meta - 1
        BY <3>2, Sizes
      <4>2. QED
        BY <1>c, <3>1, <3>2, <4>1
    <3>3. CASE b # Meta
      BY <1>c, <3>1, <3>3
    <3>4. QED
      BY <3>2, <3>3
  <2>2. QED
    BY <2>1 DEF MetadataIsIntact
<1>8. block[StrayBit - 1] = MetaData
  <2>1. ASSUME NEW x \in 1 .. Meta - 1
        PROVE  block[x] = MetaData
    <3>1. x \in Block /\ x # 0 /\ x # Meta /\ x # d /\ x # f
      BY Sizes DEF Block
    <3>2. QED
      BY <1>c, <3>1
  <2>2. StrayBit - 1 \in 1 .. Meta - 1
    BY Sizes
  <2>3. QED
    BY <2>1, <2>2
<1>9. QED
  BY <1>8, <1>0, <1>2, <1>3, <1>4, <1>6, <1>7 DEF StayInv
-----------------------------------------------------------------------------
(* Every step preserves StayInv *)

\* A command that is about to start: of the inodes it changes only a free one.
LEMMA TakingStays ==
    ASSUME StayInv, CountInv', pc = "idle",
           NEW op \in {"mkdir", "cp"}, NEW d \in Ino, NEW n \in Name, NEW parts \in Nat,
           FileIsThere => d # FileIno,
           TakeInode(op, d, n, parts), ncommands' = ncommands + 1,
           inode_bitmap' = IF op = "cp" THEN inode_bitmap \union {NewIno} ELSE inode_bitmap,
           UNCHANGED <<block_bitmap, block, made>>
    PROVE  StayInv' /\ OwnStays
<1> DEFINE ino == NewIno
<1>1. Typed /\ DirIno \in inode_bitmap
  BY DEF StayInv, CountInv, Inodes
<1>2. /\ ino \in (FirstIno + 1 .. NumInodes) \ inode_bitmap
      /\ ino \in Ino
      /\ \A k \in FirstIno + 1 .. ino - 1 : k \in inode_bitmap
      /\ inode' = [inode EXCEPT ![ino] = ZeroInode]
      /\ cmd'.op = op /\ cmd'.ino = ino /\ cmd'.dir = d
      /\ pc' = "entry"
  BY <1>1, Takes
<1> HIDE DEF ino
<1>b. inode_bitmap' = IF op = "cp" THEN inode_bitmap \union {ino} ELSE inode_bitmap
  BY DEF ino
<1>3. DOMAIN inode = Ino
  BY <1>1 DEF Typed
<1>4. /\ \A i \in Ino : i # ino => inode'[i] = inode[i]
      /\ inode'[ino].links = 0
  BY <1>2, <1>3 DEF ZeroInode, Inode
<1>5. FileIsThere => ino # FileIno
  BY <1>2 DEF StayInv, OwnFile
<1>6. OwnStays /\ (FileIsThere' <=> FileIsThere)
  <2>1. CASE ino = FileIno
    BY <1>4, <1>5, <2>1, Places DEF OwnStays, FileIsThere
  <2>2. CASE ino # FileIno
    BY <1>4, <2>2, Places DEF OwnStays, FileIsThere
  <2>3. QED
    BY <2>1, <2>2
<1>7. OwnFile'
  <2>1. \A i \in FirstIno + 1 .. NumInodes :
           \/ inode'[i].links = 0
           \/ inode'[i].links > MaxLinks - ncommands'
           \/ i = FileIno /\ inode'[i].links = 1
    <3> TAKE i \in FirstIno + 1 .. NumInodes
    <3>1. i \in Ino
      BY Sizes DEF Ino
    <3>2. CASE i = ino
      BY <1>4, <3>2
    <3>3. CASE i # ino
      <4>1. inode'[i] = inode[i]
        BY <1>4, <3>1, <3>3
      <4>2. inode[i].links \in Nat /\ ncommands \in Nat
        <5>1. inode[i].links \in 0 .. MaxLinks
          BY <1>1, <3>1, InodeType
        <5>2. ncommands \in 0 .. MaxCommands
          BY <1>1 DEF Typed
        <5>3. QED
          BY <5>1, <5>2, Sizes
      <4>3. \/ inode[i].links = 0
            \/ inode[i].links > MaxLinks - ncommands
            \/ i = FileIno /\ inode[i].links = 1
        BY DEF StayInv, OwnFile
      <4>4. QED
        BY <4>1, <4>2, <4>3, Sizes
    <3>4. QED
      BY <3>2, <3>3
  <2>2. ASSUME FileIsThere'
        PROVE  /\ FileIno \in inode_bitmap'
               /\ FileBlock' \in Reserved + 1 .. NumBlocks - 1
               /\ {StrayBit, FileBlock' - 1} \subseteq block_bitmap'
               /\ inode'[FileIno].i_block = OneBlock(FileBlock')
               /\ cmd'.ino # FileIno /\ cmd'.dir # FileIno
               /\ \A b \in Block : block'[b].kind = "listing" =>
                      \A e \in block'[b].entries : e.type = "dir" => e.ino # FileIno
    <3>1. FileIsThere /\ inode'[FileIno].i_block = inode[FileIno].i_block
      BY <1>6, <2>2 DEF OwnStays
    <3>2. FileBlock' = FileBlock
      BY <3>1 DEF FileBlock
    <3>3. QED
      BY <1>2, <1>b, <1>5, <3>1, <3>2 DEF StayInv, OwnFile
  <2>3. QED
    BY <2>1, <2>2 DEF OwnFile
<1>8. InOrder'
  <2>1. ASSUME NEW i \in Others, i \notin inode_bitmap', NEW k \in Others, k >= i
        PROVE  k \notin inode_bitmap'
    <3>1. i \notin inode_bitmap /\ k \notin inode_bitmap
      BY <1>b, <2>1 DEF StayInv, InOrder
    <3>2. i \in FirstIno + 1 .. NumInodes /\ k \in FirstIno + 1 .. NumInodes
      BY <2>1 DEF Others
    <3>3. ~(i < ino)
      BY <1>2, <3>1, <3>2, Sizes
    <3>4. op = "cp" => i > ino
      BY <1>2, <1>b, <2>1, <3>2, <3>3, Sizes
    <3>5. QED
      BY <1>2, <1>b, <2>1, <3>1, <3>2, <3>4, Sizes
  <2>2. \A k \in FirstIno + 1 .. cmd'.ino - 1 : k \in inode_bitmap'
    BY <1>2, <1>b
  <2>3. ASSUME Running("cp")'
        PROVE  /\ cmd'.ino \in inode_bitmap'
               /\ cmd'.ino = FileIno \/ \A k \in Others : k > cmd'.ino => k \notin inode_bitmap'
    <3>1. op = "cp" /\ inode_bitmap' = inode_bitmap \union {ino}
      BY <1>2, <1>b, <2>3 DEF Running
    <3>2. ASSUME ino # FileIno, NEW k \in Others, k > ino
          PROVE  k \notin inode_bitmap'
      <4>1. ino \in Others /\ k >= ino /\ k # ino
        BY <1>2, <3>2, Sizes DEF Others
      <4>2. k \notin inode_bitmap
        BY <1>2, <3>2, <4>1 DEF StayInv, InOrder
      <4>3. QED
        BY <3>1, <4>1, <4>2
    <3>3. QED
      BY <1>2, <3>1, <3>2
  <2>4. QED
    BY <2>1, <2>2, <2>3 DEF InOrder
<1>9. FixedBits' /\ Entered'
  BY <1>2 DEF StayInv, FixedBits, Entered
<1>10. MetadataIsIntact'
  BY <1>6 DEF StayInv, MetadataIsIntact
<1>a. Settled => Settled'
  <2>1. Settled => ~(ino < FileIno)
    BY <1>2, Sizes DEF Settled
  <2>2. QED
    BY <1>2, <1>b, <2>1, Sizes DEF Settled, Running
<1>11. ASSUME NEW m \in made
       PROVE  DirectoryStays(m)'
  <2>1. DirectoryStays(m)
    BY DEF StayInv
  <2>2. /\ m.ino \in inode_bitmap \cap (FirstIno + 1 .. NumInodes)
        /\ m.ino # ino /\ m.ino \in Ino
    BY <1>2, <2>1, Sizes DEF DirectoryStays, Ino
  <2>3. inode'[m.ino] = inode[m.ino]
    BY <1>4, <2>2
  <2>4. m.ino \in inode_bitmap'
    BY <1>b, <2>2
  <2>5. \/ inode'[m.ino].i_block[0] = m.block
        \/ IsOverrun(m.ino)' /\ FileIno \in inode_bitmap' /\ ~ (Running("cp") /\ cmd.ino = FileIno)'
    <3>1. CASE inode[m.ino].i_block[0] = m.block
      BY <2>3, <3>1
    <3>2. CASE IsOverrun(m.ino) /\ FileIno \in inode_bitmap
      <4>1. ino # FileIno
        BY <1>2, <3>2
      <4>2. inode'[FileIno] = inode[FileIno]
        BY <1>4, <4>1, Places
      <4>3. QED
        BY <1>2, <1>b, <2>3, <3>2, <4>1, <4>2 DEF IsOverrun
    <3>3. QED
      BY <2>1, <3>1, <3>2 DEF DirectoryStays
  <2>6. Kept(m.at)' /\ Kept(m.block)'
    BY <1>6, <2>1, KeptStays DEF DirectoryStays, Kept
  <2>7. QED
    BY <1>2, <1>6, <1>a, <2>1, <2>2, <2>3, <2>4, <2>5, <2>6 DEF DirectoryStays
<1>12. QED
  BY <1>6, <1>7, <1>8, <1>9, <1>10, <1>11 DEF StayInv

\* mkdir and cp are not led to the inode of the image's own file.
LEMMA OwnIsNoDirectory ==
    ASSUME StayInv, FileIsThere, NEW d \in SubDirs
    PROVE  d # FileIno
<1> DEFINE b == inode[DirIno].i_block[0]
<1>1. /\ block[b].kind = "listing"
      /\ \E e \in block[b].entries : e.type = "dir" /\ d = e.ino
  BY DEF SubDirs, FirstBlock
<1>2. b \in Block
  BY Places, InodeType DEF StayInv, CountInv
<1>3. QED
  BY <1>1, <1>2 DEF StayInv, OwnFile

LEMMA MkdirStays ==
    ASSUME StayInv, NEW d \in Ino, NEW n \in Name, Mkdir(d, n)
    PROVE  StayInv' /\ OwnStays
<1>1. /\ TakeInode("mkdir", d, n, 0) /\ pc = "idle" /\ ncommands' = ncommands + 1
      /\ d \in {DirIno} \union SubDirs
      /\ UNCHANGED <<block_bitmap, inode_bitmap, counts, block, made>>
  BY DEF Mkdir, Starts
<1>2. FileIsThere => d # FileIno
  BY <1>1, OwnIsNoDirectory, Places
<1>3. CountInv'
  BY MkdirCounts DEF StayInv
<1>4. QED
  BY <1>1, <1>2, <1>3, TakingStays

LEMMA CopyStays ==
    ASSUME StayInv, NEW d \in Ino, NEW n \in Name, NEW parts \in FileParts, Copy(d, n, parts)
    PROVE  StayInv' /\ OwnStays
<1>1. /\ TakeInode("cp", d, n, parts) /\ pc = "idle" /\ ncommands' = ncommands + 1
      /\ d \in {RootIno, DirIno} \union SubDirs
      /\ inode_bitmap' = inode_bitmap \union {NewIno}
      /\ UNCHANGED <<block_bitmap, counts, block, made>>
  BY DEF Copy, Starts
<1>2. FileIsThere => d # FileIno
  BY <1>1, OwnIsNoDirectory, Places, Sizes DEF RootIno
<1>3. CountInv' /\ parts \in Nat
  BY CopyCounts, Sizes DEF StayInv
<1>4. QED
  BY <1>1, <1>2, <1>3, TakingStays

\* The link counts and the wrap that they are away from.
LEMMA SameLinks ==
    ASSUME StayInv, ncommands' \in ncommands .. MaxCommands,
           \A i \in FirstIno + 1 .. NumInodes : inode'[i].links \in {0, inode[i].links}
    PROVE  \A i \in FirstIno + 1 .. NumInodes :
              \/ inode'[i].links = 0
              \/ inode'[i].links > MaxLinks - ncommands'
              \/ i = FileIno /\ inode'[i].links = 1
<1> TAKE i \in FirstIno + 1 .. NumInodes
<1>1. i \in Ino
  BY Sizes DEF Ino
<1>2. inode[i].links \in 0 .. MaxLinks
  BY <1>1, InodeType DEF StayInv, CountInv
<1>3. ncommands \in 0 .. MaxCommands
  BY DEF StayInv, CountInv, Typed
<1>4. \/ inode[i].links = 0
      \/ inode[i].links > MaxLinks - ncommands
      \/ i = FileIno /\ inode[i].links = 1
  BY DEF StayInv, OwnFile
<1>5. inode'[i].links \in {0, inode[i].links}
  OBVIOUS
<1>6. QED
  BY <1>2, <1>3, <1>4, <1>5, Sizes

LEMMA EnterStays ==
    ASSUME StayInv, NEW b \in FreeBits, Entering(b)
    PROVE  StayInv' /\ OwnStays
<1>0. CountInv'
  BY EnterCounts DEF StayInv
<1>1. /\ pc = "entry" /\ pc' = "data"
      /\ cmd' = [cmd EXCEPT !.at = b]
      /\ block_bitmap' = block_bitmap \union {b}
      /\ inode_bitmap' = inode_bitmap /\ ncommands' = ncommands /\ made' = made
      /\ block'[b].kind = "listing"
      /\ \A x \in Block \ {b, 0} : block'[x] = block[x]
  BY DEF Entering
<1>2. /\ b \in Block /\ b # 0 /\ b \notin block_bitmap
      /\ FileIsThere => b \notin {StrayBit, FileBlock - 1}
      /\ b \in 1 .. Meta => b = StrayBit /\ ~FileIsThere
      /\ b # StrayBit - 1
      /\ \A m \in made : b # m.at /\ b # m.block
  BY FreeBlock
<1>3. Typed /\ cmd \in Command /\ cmd.dir \in Ino /\ cmd.ino \in FirstIno + 1 .. NumInodes
  BY <1>1, CommandType DEF StayInv, CountInv
<1>4. /\ cmd'.at = b /\ cmd'.ino = cmd.ino /\ cmd'.dir = cmd.dir
      /\ cmd'.op = cmd.op /\ cmd'.name = cmd.name
  BY <1>1, <1>3 DEF Command
<1>5. /\ \A op : Running(op)' <=> Running(op)
      /\ \A op : Running(op) <=> cmd.op = op
  BY <1>1, <1>4 DEF Running
<1>6. /\ \A i \in Ino : inode'[i].links = inode[i].links
      /\ \A i \in Ino : i # cmd.dir => inode'[i].i_block = inode[i].i_block
      /\ \A i \in Ino : inode[i].i_block[0] # 0 => inode'[i].i_block[0] = inode[i].i_block[0]
  <2>1. inode \in [Ino -> InodeRecord]
    BY <1>3 DEF Typed
  <2>2. CASE inode' = inode
    BY <2>2
  <2>3. ASSUME NEW s \in Spot, inode[cmd.dir].i_block[s] = 0,
               inode' = [inode EXCEPT ![cmd.dir].i_block[s] = b]
        PROVE  /\ \A i \in Ino : inode'[i].links = inode[i].links
               /\ \A i \in Ino : i # cmd.dir => inode'[i].i_block = inode[i].i_block
               /\ \A i \in Ino : inode[i].i_block[0] # 0 => inode'[i].i_block[0] = inode[i].i_block[0]
    <3>1. inode'[cmd.dir] = [inode[cmd.dir] EXCEPT !.i_block[s] = b]
      BY <1>3, <2>1, <2>3
    <3>2. \A i \in Ino : i # cmd.dir => inode'[i] = inode[i]
      BY <2>1, <2>3
    <3>3. inode[cmd.dir] \in InodeRecord
      BY <1>3, <2>1
    <3>4. /\ inode'[cmd.dir].links = inode[cmd.dir].links
          /\ inode'[cmd.dir].i_block = [inode[cmd.dir].i_block EXCEPT ![s] = b]
      BY <3>1, <3>3 DEF InodeRecord
    <3>5. inode[cmd.dir].i_block \in [Spot -> Block]
      BY <3>3 DEF InodeRecord
    <3>6. inode[cmd.dir].i_block[0] # 0 => inode'[cmd.dir].i_block[0] = inode[cmd.dir].i_block[0]
      BY <2>3, <3>4, <3>5
    <3>7. QED
      BY <3>2, <3>4, <3>6
  <2>4. QED
    BY <2>2, <2>3 DEF Entering
<1>7. OwnStays /\ (FileIsThere' <=> FileIsThere)
  <2>1. FileIsThere => cmd.dir # FileIno
    BY <1>1 DEF StayInv, OwnFile
  <2>2. QED
    BY <1>6, <2>1, Places DEF OwnStays, FileIsThere
<1>8. PICK nul \in BOOLEAN :
         /\ NewEntry(nul) \in block'[b].entries
         /\ \A e \in block'[b].entries :
               e = NewEntry(nul) \/ (block[b].kind = "listing" /\ e \in block[b].entries)
  BY DEF Entering
<1>9. OwnFile'
  <2>1. \A i \in FirstIno + 1 .. NumInodes : inode'[i].links \in {0, inode[i].links}
    BY <1>6, Sizes DEF Ino
  <2>2. ncommands' \in ncommands .. MaxCommands
    <3>1. ncommands \in 0 .. MaxCommands
      BY <1>3 DEF Typed
    <3>2. QED
      BY <1>1, <3>1, Sizes
  <2>3. ASSUME FileIsThere'
        PROVE  /\ FileIno \in inode_bitmap'
               /\ FileBlock' \in Reserved + 1 .. NumBlocks - 1
               /\ {StrayBit, FileBlock' - 1} \subseteq block_bitmap'
               /\ inode'[FileIno].i_block = OneBlock(FileBlock')
               /\ cmd'.ino # FileIno /\ cmd'.dir # FileIno
    <3>1. FileIsThere /\ inode'[FileIno].i_block = inode[FileIno].i_block
      BY <1>7, <2>3 DEF OwnStays
    <3>2. FileBlock' = FileBlock
      BY <3>1 DEF FileBlock
    <3>3. QED
      BY <1>1, <1>4, <3>1, <3>2 DEF StayInv, OwnFile
  <2>4. ASSUME FileIsThere, NEW x \in Block, block'[x].kind = "listing",
               NEW e \in block'[x].entries, e.type = "dir"
        PROVE  e.ino # FileIno
    <3>1. CASE x = b
      <4>1. cmd.ino # FileIno
        BY <1>1, <2>4 DEF StayInv, OwnFile
      <4>2. NewEntry(nul).ino # FileIno
        BY <4>1 DEF NewEntry, EntryOf
      <4>3. e = NewEntry(nul) \/ (block[b].kind = "listing" /\ e \in block[b].entries)
        BY <1>8, <2>4, <3>1
      <4>4. QED
        BY <1>2, <2>4, <4>2, <4>3 DEF StayInv, OwnFile
    <3>2. CASE x # b
      <4>1. block'[x] = block[x]
        BY <1>1, <1>2, <2>4, <3>2 DEF Entering
      <4>2. QED
        BY <2>4, <4>1 DEF StayInv, OwnFile
    <3>3. QED
      BY <3>1, <3>2
  <2>5. QED
    BY <1>7, <2>1, <2>2, <2>3, <2>4, SameLinks DEF OwnFile
<1>10. InOrder' /\ (Settled' <=> Settled)
  BY <1>1, <1>4, <1>5 DEF StayInv, InOrder, Settled
<1>11. FixedBits'
  BY <1>1 DEF StayInv, FixedBits
<1>12. Entered'
  <2>1. Kept(b)'
    <3>1. FileIsThere' => FileIsThere /\ FileBlock' = FileBlock
      BY <1>7 DEF OwnStays, FileBlock
    <3>2. QED
      BY <1>1, <1>2, <3>1 DEF Kept
  <2>2. cmd.op = "mkdir" => NewEntry(nul) = EntryOf(cmd.name, cmd.ino, "dir", nul)
    BY DEF NewEntry
  <2>3. QED
    BY <1>1, <1>4, <1>5, <1>8, <2>1, <2>2 DEF Entered
<1>13. MetadataIsIntact'
  <2>1. ASSUME NEW x \in 1 .. Meta, x \notin {StrayBit - 1, StrayBit} \/ FileIsThere
        PROVE  block'[x] = block[x]
    <3>1. x \in Block \ {b, 0}
      BY <1>2, <2>1, Sizes DEF Block
    <3>2. QED
      BY <1>1, <3>1
  <2>2. QED
    BY <1>7, <2>1 DEF StayInv, MetadataIsIntact
<1>14. ASSUME NEW m \in made
       PROVE  DirectoryStays(m)'
  <2>1. DirectoryStays(m)
    BY DEF StayInv
  <2>2. m.ino \in Ino
    BY <2>1, Sizes DEF DirectoryStays, Ino
  <2>3. inode'[m.ino].i_block[0] = inode[m.ino].i_block[0]
    BY <1>6, <2>1, <2>2 DEF DirectoryStays
  <2>4. m.at \in Block \ {b, 0} /\ m.block \in Block \ {b, 0}
    BY <1>2, <1>3, <2>1 DEF DirectoryStays, Kept, Typed, Bit, Block
  <2>5. block'[m.at] = block[m.at] /\ block'[m.block] = block[m.block]
    BY <1>1, <2>4
  <2>6. \/ inode'[m.ino].i_block[0] = m.block
        \/ IsOverrun(m.ino)' /\ FileIno \in inode_bitmap' /\ ~ (Running("cp") /\ cmd.ino = FileIno)'
    <3>1. ASSUME IsOverrun(m.ino)
          PROVE  IsOverrun(m.ino)'
      <4>1. inode[FileIno].i_block[0] # 0
        BY <2>1, <3>1 DEF IsOverrun, DirectoryStays
      <4>2. inode'[FileIno].i_block[0] = inode[FileIno].i_block[0] /\ inode'[FileIno].links = inode[FileIno].links
        BY <1>6, <4>1, Places
      <4>3. QED
        BY <2>3, <3>1, <4>2 DEF IsOverrun
    <3>2. QED
      BY <1>1, <1>4, <1>5, <2>1, <2>3, <3>1 DEF DirectoryStays
  <2>7. Kept(m.at)' /\ Kept(m.block)'
    BY <1>1, <1>7, <2>1, KeptStays DEF DirectoryStays, Kept
  <2>8. QED
    BY <1>1, <1>4, <1>7, <1>10, <2>1, <2>3, <2>5, <2>6, <2>7 DEF DirectoryStays
<1>a. block'[StrayBit - 1] = block[StrayBit - 1]
  BY <1>1, <1>2, Places
<1>15. QED
  BY <1>a, <1>0, <1>1, <1>7, <1>9, <1>10, <1>11, <1>12, <1>13, <1>14 DEF StayInv

LEMMA NoFreeBlockStays ==
    ASSUME StayInv, NoFreeBlock
    PROVE  StayInv' /\ OwnStays
<1>0. CountInv'
  BY NoFreeBlockCounts DEF StayInv
<1>1. /\ pc' = "idle"
      /\ UNCHANGED <<block_bitmap, inode_bitmap, counts, inode, block, ncommands, made>>
  BY DEF NoFreeBlock
<1>2. FileIsThere' = FileIsThere /\ FileBlock' = FileBlock
  BY <1>1 DEF FileIsThere, FileBlock
<1>3. OwnFile'
  BY <1>1, <1>2 DEF StayInv, OwnFile
<1>4. InOrder' /\ FixedBits' /\ Entered' /\ MetadataIsIntact'
  BY <1>1, <1>2 DEF StayInv, InOrder, Running, FixedBits, Entered, MetadataIsIntact
<1>5. ASSUME NEW m \in made PROVE DirectoryStays(m)'
  BY <1>1, <1>2 DEF StayInv, DirectoryStays, Settled, Running, Kept, IsOverrun
<1>6. QED
  BY <1>0, <1>1, <1>2, <1>3, <1>4, <1>5 DEF StayInv, OwnStays

LEMMA MakeDirectoryStays ==
    ASSUME StayInv, MakeDirectory
    PROVE  StayInv' /\ OwnStays
<1>0. CountInv'
  BY MakeDirectoryCounts DEF StayInv
<1>a. PICK b, at : b = Min(FreeBits) /\ at = cmd.at
  OBVIOUS
<1>b. PICK new : new = [ino |-> cmd.ino, name |-> cmd.name, at |-> at, block |-> b]
  OBVIOUS
<1>1. /\ pc = "data" /\ cmd.op = "mkdir" /\ FreeBits # {}
      /\ block' = [block EXCEPT ![b] = Listing({EntryOf(Dot, cmd.ino, "dir", TRUE)}, FALSE)]
      /\ block_bitmap' = block_bitmap \union {b}
      /\ inode' = [inode EXCEPT ![cmd.ino].i_block[0] = b]
      /\ inode_bitmap' = inode_bitmap \union {cmd.ino}
      /\ made' = made \union {new}
      /\ pc' = "idle" /\ ncommands' = ncommands
  BY <1>a, <1>b DEF MakeDirectory, MarkOf, Finish
<1>2. b \in FreeBits
  BY <1>1, <1>a, FreeBit DEF FreeBits
<1>3. /\ b \in Block /\ b # 0 /\ b \notin block_bitmap
      /\ FileIsThere => b \notin {StrayBit, FileBlock - 1}
      /\ b \in 1 .. Meta => b = StrayBit /\ ~FileIsThere
      /\ b # StrayBit - 1
      /\ \A m \in made : b # m.at /\ b # m.block
      /\ b # cmd.at
  BY <1>1, <1>2, FreeBlock
<1>4. /\ Typed /\ cmd.ino \in FirstIno + 1 .. NumInodes /\ cmd.at \in Block
      /\ cmd.ino \notin inode_bitmap /\ cmd.ino \in Ino
      /\ FileIsThere => cmd.ino # FileIno
      /\ \A k \in FirstIno + 1 .. cmd.ino - 1 : k \in inode_bitmap
  <2>1. Typed /\ cmd.ino \in FirstIno + 1 .. NumInodes /\ cmd.at \in Block
    BY <1>1, CommandType DEF StayInv, CountInv
  <2>2. cmd.ino \in Ino
    BY <2>1, Sizes DEF Ino
  <2>3. cmd.ino \notin inode_bitmap
    BY <1>1 DEF StayInv, CountInv, Inodes, Running
  <2>4. FileIsThere => cmd.ino # FileIno
    BY <1>1 DEF StayInv, OwnFile
  <2>5. \A k \in FirstIno + 1 .. cmd.ino - 1 : k \in inode_bitmap
    BY <1>1 DEF StayInv, InOrder
  <2>6. QED
    BY <2>1, <2>2, <2>3, <2>4, <2>5
<1>5. /\ \A i \in Ino : i # cmd.ino => inode'[i] = inode[i]
      /\ inode'[cmd.ino].links = inode[cmd.ino].links
      /\ inode'[cmd.ino].i_block[0] = b
  <2>1. inode \in [Ino -> InodeRecord] /\ inode[cmd.ino] \in InodeRecord
    BY <1>4 DEF Typed
  <2>2. inode'[cmd.ino] = [inode[cmd.ino] EXCEPT !.i_block[0] = b]
    BY <1>1, <1>4, <2>1
  <2>3. \A i \in Ino : i # cmd.ino => inode'[i] = inode[i]
    BY <1>1, <2>1
  <2>4. /\ inode'[cmd.ino].links = inode[cmd.ino].links
        /\ inode'[cmd.ino].i_block = [inode[cmd.ino].i_block EXCEPT ![0] = b]
    BY <2>1, <2>2 DEF InodeRecord
  <2>5. inode[cmd.ino].i_block \in [Spot -> Block]
    BY <2>1 DEF InodeRecord
  <2>6. inode'[cmd.ino].i_block[0] = b
    BY <2>4, <2>5, Places
  <2>7. QED
    BY <2>3, <2>4, <2>6
<1>6. /\ \A x \in Block \ {b} : block'[x] = block[x]
      /\ block'[b] = Listing({EntryOf(Dot, cmd.ino, "dir", TRUE)}, FALSE)
  BY <1>1, <1>3, <1>4 DEF Typed
<1>7. OwnStays /\ (FileIsThere' <=> FileIsThere)
  <2>1. CASE cmd.ino = FileIno
    BY <1>4, <1>5, <2>1 DEF OwnStays, FileIsThere
  <2>2. CASE cmd.ino # FileIno
    BY <1>5, <2>2, Places DEF OwnStays, FileIsThere
  <2>3. QED
    BY <2>1, <2>2
<1>8. OwnFile'
  <2>1. \A i \in FirstIno + 1 .. NumInodes : inode'[i].links \in {0, inode[i].links}
    BY <1>5, Sizes DEF Ino
  <2>2. ncommands' \in ncommands .. MaxCommands
    <3>1. ncommands \in 0 .. MaxCommands
      BY <1>4 DEF Typed
    <3>2. QED
      BY <1>1, <3>1, Sizes
  <2>3. ASSUME FileIsThere'
        PROVE  /\ FileIno \in inode_bitmap'
               /\ FileBlock' \in Reserved + 1 .. NumBlocks - 1
               /\ {StrayBit, FileBlock' - 1} \subseteq block_bitmap'
               /\ inode'[FileIno].i_block = OneBlock(FileBlock')
    <3>1. FileIsThere /\ inode'[FileIno].i_block = inode[FileIno].i_block
      BY <1>7, <2>3 DEF OwnStays
    <3>2. FileBlock' = FileBlock
      BY <3>1 DEF FileBlock
    <3>3. QED
      BY <1>1, <3>1, <3>2 DEF StayInv, OwnFile
  <2>4. ASSUME FileIsThere, NEW x \in Block, block'[x].kind = "listing",
               NEW e \in block'[x].entries, e.type = "dir"
        PROVE  e.ino # FileIno
    <3>1. CASE x = b
      <4>1. block'[b].entries = {EntryOf(Dot, cmd.ino, "dir", TRUE)}
        BY <1>6 DEF Listing
      <4>2. QED
        BY <1>4, <2>4, <3>1, <4>1 DEF EntryOf
    <3>2. CASE x # b
      BY <1>6, <2>4, <3>2 DEF StayInv, OwnFile
    <3>3. QED
      BY <3>1, <3>2
  <2>5. QED
    BY <1>1, <1>7, <2>1, <2>2, <2>3, <2>4, SameLinks DEF OwnFile
<1>9. InOrder'
  <2>1. ASSUME NEW i \in Others, i \notin inode_bitmap', NEW k \in Others, k >= i
        PROVE  k \notin inode_bitmap'
    <3>1. i \notin inode_bitmap /\ k \notin inode_bitmap /\ i # cmd.ino
      BY <1>1, <2>1 DEF StayInv, InOrder
    <3>2. i \in FirstIno + 1 .. NumInodes /\ k \in FirstIno + 1 .. NumInodes
      BY <2>1 DEF Others
    <3>3. ~(i < cmd.ino)
      BY <1>4, <3>1, <3>2, Sizes
    <3>4. k # cmd.ino
      BY <1>4, <2>1, <3>1, <3>2, <3>3, Sizes
    <3>5. QED
      BY <1>1, <3>1, <3>4
  <2>2. QED
    BY <1>1, <2>1 DEF InOrder, Running
<1>10. FixedBits' /\ Entered'
  BY <1>1 DEF StayInv, FixedBits, Entered
<1>11. MetadataIsIntact'
  <2>1. ASSUME NEW x \in 1 .. Meta, x \notin {StrayBit - 1, StrayBit} \/ FileIsThere
        PROVE  block'[x] = block[x]
    <3>1. x \in Block \ {b}
      BY <1>3, <2>1, Sizes DEF Block
    <3>2. QED
      BY <1>6, <3>1
  <2>2. QED
    BY <1>7, <2>1 DEF StayInv, MetadataIsIntact
<1>c. (Settled => Settled') /\ (cmd.ino >= FileIno => Settled')
  BY <1>1, <1>4, Sizes DEF Settled, Running
<1>12. ASSUME NEW m \in made
       PROVE  DirectoryStays(m)'
  <2>1. DirectoryStays(m)
    BY DEF StayInv
  <2>2. m.ino \in Ino /\ m.ino # cmd.ino /\ m.ino \in inode_bitmap'
    BY <1>1, <2>1, Sizes DEF DirectoryStays, Ino
  <2>3. inode'[m.ino] = inode[m.ino]
    BY <1>5, <2>2
  <2>4. m.at \in Block \ {b} /\ m.block \in Block \ {b}
    BY <1>3, <1>4, <2>1 DEF DirectoryStays, Kept, Typed, Bit, Block
  <2>5. block'[m.at] = block[m.at] /\ block'[m.block] = block[m.block]
    BY <1>6, <2>4
  <2>6. \/ inode'[m.ino].i_block[0] = m.block
        \/ IsOverrun(m.ino)' /\ FileIno \in inode_bitmap' /\ ~ (Running("cp") /\ cmd.ino = FileIno)'
    <3>1. ASSUME IsOverrun(m.ino), FileIno \in inode_bitmap
          PROVE  IsOverrun(m.ino)'
      <4>1. inode'[FileIno] = inode[FileIno]
        BY <1>4, <1>5, <3>1, Places
      <4>2. QED
        BY <2>3, <3>1, <4>1 DEF IsOverrun
    <3>2. QED
      BY <1>1, <2>1, <2>3, <3>1 DEF DirectoryStays, Running
  <2>7. Kept(m.at)' /\ Kept(m.block)'
    BY <1>1, <1>7, <2>1, KeptStays DEF DirectoryStays, Kept
  <2>8. QED
    BY <1>1, <1>7, <1>c, <2>1, <2>2, <2>3, <2>5, <2>6, <2>7 DEF DirectoryStays
<1>13. DirectoryStays(new)'
  <2>1. new.ino = cmd.ino /\ new.name = cmd.name /\ new.at = at /\ new.block = b
    BY <1>b
  <2>2. /\ Kept(at) /\ block[at].kind = "listing"
        /\ \E nul \in BOOLEAN : EntryOf(new.name, new.ino, "dir", nul) \in block[at].entries
    BY <1>1, <1>a, <2>1 DEF StayInv, Entered, Running
  <2>3. block'[at] = block[at]
    BY <1>3, <1>4, <1>6, <1>a
  <2>4. Kept(at)'
    BY <1>1, <1>7, <2>2, KeptStays DEF Kept
  <2>5. Kept(b)'
    <3>1. FileIsThere' => FileIsThere /\ FileBlock' = FileBlock
      BY <1>7 DEF OwnStays, FileBlock
    <3>2. QED
      BY <1>1, <1>3, <3>1 DEF Kept
  <2>6. new.ino \in inode_bitmap' \cap (FirstIno + 1 .. NumInodes) /\ (FileIsThere' => new.ino # FileIno)
    BY <1>1, <1>4, <1>7, <2>1
  <2>7. inode'[new.ino].i_block[0] = new.block /\ new.block # 0
    BY <1>3, <1>5, <2>1
  <2>8. block'[new.block] = Listing({EntryOf(Dot, new.ino, "dir", TRUE)}, FALSE)
    BY <1>6, <2>1
  <2>9. QED
    BY <1>1, <1>c, <2>1, <2>2, <2>3, <2>4, <2>5, <2>6, <2>7, <2>8 DEF DirectoryStays
<1>d. block'[StrayBit - 1] = block[StrayBit - 1]
  BY <1>3, <1>6, Places
<1>14. ASSUME NEW m \in made'
       PROVE  DirectoryStays(m)'
  BY <1>1, <1>12, <1>13
<1>15. QED
  BY <1>0, <1>7, <1>8, <1>9, <1>10, <1>11, <1>14, <1>d DEF StayInv

LEMMA CopyFileStays ==
    ASSUME StayInv, NEW b \in FreeBits, Copying(b)
    PROVE  StayInv' /\ OwnStays
<1>0. CountInv'
  BY CopyFileCounts DEF StayInv
<1>1. /\ pc = "data" /\ pc' = "idle" /\ cmd.op = "cp"
      /\ block_bitmap' = block_bitmap /\ inode_bitmap' = inode_bitmap
      /\ ncommands' = ncommands /\ made' = made
      /\ inode' = CopiedTo(b)
      /\ block'[b].kind # "listing"
      /\ \A x \in Block \ {b, 0} : block'[x] = block[x]
      /\ block'[0] = block[0] \/ block'[0].kind # "listing"
  BY DEF Copying
<1>2. /\ b \in Block /\ b # 0 /\ b \notin block_bitmap
      /\ b \in 1 .. Meta => b = StrayBit /\ ~FileIsThere
      /\ b # StrayBit - 1
      /\ \A m \in made : b # m.at /\ b # m.block
  BY FreeBlock
<1>3. /\ Typed /\ cmd.ino \in FirstIno + 1 .. NumInodes /\ cmd.ino \in Ino /\ cmd.parts \in Nat
      /\ FileIsThere => cmd.ino # FileIno
      /\ cmd.ino \in inode_bitmap
      /\ cmd.ino = FileIno \/ \A k \in Others : k > cmd.ino => k \notin inode_bitmap
  <2>1. Typed /\ cmd.ino \in FirstIno + 1 .. NumInodes /\ cmd.parts \in Nat
    BY <1>1, CommandType DEF StayInv, CountInv
  <2>2. cmd.ino \in Ino
    BY <2>1, Sizes DEF Ino
  <2>3. FileIsThere => cmd.ino # FileIno
    BY <1>1 DEF StayInv, OwnFile
  <2>4. /\ cmd.ino \in inode_bitmap
        /\ cmd.ino = FileIno \/ \A k \in Others : k > cmd.ino => k \notin inode_bitmap
    BY <1>1 DEF StayInv, InOrder, Running
  <2>5. QED
    BY <2>1, <2>2, <2>3, <2>4
<1> DEFINE n == cmd.parts - Direct
<1>4. /\ inode'[cmd.ino].links = inode[cmd.ino].links
      /\ \A s \in Spot : inode'[cmd.ino].i_block[s] = IF s < cmd.parts THEN b ELSE inode[cmd.ino].i_block[s]
  <2>1. inode'[cmd.ino] = [inode[cmd.ino] EXCEPT !.i_block =
                             [s \in Spot |-> IF s < cmd.parts THEN b ELSE @[s]]]
    BY <1>1, <1>3 DEF CopiedTo
  <2>2. inode[cmd.ino] \in InodeRecord
    BY <1>3 DEF Typed
  <2>3. QED
    BY <2>1, <2>2 DEF InodeRecord
<1>5. \A i \in Ino : i # cmd.ino /\ i # cmd.ino + 1 => inode'[i] = inode[i]
  BY <1>1 DEF CopiedTo
<1>6. cmd.ino + 1 \in Ino =>
         /\ inode'[cmd.ino + 1].links = IF n > LinksAt THEN 0 ELSE inode[cmd.ino + 1].links
         /\ inode'[cmd.ino + 1].i_block = [s \in Spot |-> IF InodeWords + s < n THEN b
                                                          ELSE inode[cmd.ino + 1].i_block[s]]
  <2>1. SUFFICES ASSUME cmd.ino + 1 \in Ino
                 PROVE  /\ inode'[cmd.ino + 1].links =
                              IF n > LinksAt THEN 0 ELSE inode[cmd.ino + 1].links
                        /\ inode'[cmd.ino + 1].i_block =
                              [s \in Spot |-> IF InodeWords + s < n THEN b
                                              ELSE inode[cmd.ino + 1].i_block[s]]
    OBVIOUS
  <2>2. cmd.ino + 1 # cmd.ino
    BY <1>3
  <2>3. inode'[cmd.ino + 1] = Overrun(inode[cmd.ino + 1], n, b)
    BY <1>1, <2>1, <2>2 DEF CopiedTo
  <2>4. QED
    BY <2>3 DEF Overrun, Inode
<1>n. n \in Int
  BY <1>3, Sizes
<1> HIDE DEF n
\* What runs into the numbers of the file's blocks has overwritten its links.
<1>7. OwnStays
  <2>1. CASE cmd.ino = FileIno
    BY <1>3, <1>4, <2>1 DEF OwnStays, FileIsThere
  <2>2. CASE cmd.ino + 1 = FileIno /\ n > LinksAt
    BY <1>6, <2>2, Places DEF OwnStays, FileIsThere
  <2>3. CASE cmd.ino + 1 = FileIno /\ ~(n > LinksAt)
    <3>1. \A s \in Spot : ~(InodeWords + s < n)
      BY <1>n, <2>3, Sizes DEF Spot
    <3>2. inode[FileIno].i_block \in [Spot -> Block]
      BY <1>3, InodeType, Places
    <3>3. inode'[FileIno].i_block = inode[FileIno].i_block
      BY <1>6, <2>3, <3>1, <3>2, Places
    <3>4. inode'[FileIno].links = inode[FileIno].links
      BY <1>6, <2>3, Places
    <3>5. QED
      BY <3>3, <3>4 DEF OwnStays, FileIsThere
  <2>4. CASE cmd.ino # FileIno /\ cmd.ino + 1 # FileIno
    BY <1>5, <2>4, Places DEF OwnStays, FileIsThere
  <2>5. QED
    BY <2>1, <2>2, <2>3, <2>4
<1>l. ~FileIsThere => ~FileIsThere'
  BY <1>7 DEF OwnStays
<1>8. OwnFile'
  <2>1. ASSUME NEW i \in FirstIno + 1 .. NumInodes
        PROVE  inode'[i].links \in {0, inode[i].links}
    <3>1. i \in Ino
      BY Sizes DEF Ino
    <3>2. QED
      BY <1>4, <1>5, <1>6, <3>1
  <2>2. ncommands' \in ncommands .. MaxCommands
    <3>1. ncommands \in 0 .. MaxCommands
      BY <1>3 DEF Typed
    <3>2. QED
      BY <1>1, <3>1, Sizes
  <2>3. ASSUME FileIsThere'
        PROVE  /\ FileIno \in inode_bitmap'
               /\ FileBlock' \in Reserved + 1 .. NumBlocks - 1
               /\ {StrayBit, FileBlock' - 1} \subseteq block_bitmap'
               /\ inode'[FileIno].i_block = OneBlock(FileBlock')
    <3>1. FileIsThere /\ inode'[FileIno].i_block = inode[FileIno].i_block
      BY <1>7, <2>3 DEF OwnStays
    <3>2. FileBlock' = FileBlock
      BY <3>1 DEF FileBlock
    <3>3. QED
      BY <1>1, <3>1, <3>2 DEF StayInv, OwnFile
  <2>4. ASSUME FileIsThere, NEW x \in Block, block'[x].kind = "listing",
               NEW e \in block'[x].entries, e.type = "dir"
        PROVE  e.ino # FileIno
    <3>1. block'[x] = block[x]
      BY <1>1, <2>4
    <3>2. QED
      BY <2>4, <3>1 DEF StayInv, OwnFile
  <2>5. QED
    BY <1>1, <1>l, <2>1, <2>2, <2>3, <2>4, SameLinks DEF OwnFile
<1>9. InOrder' /\ FixedBits' /\ Entered' /\ (Settled => Settled')
  BY <1>1 DEF StayInv, InOrder, Running, FixedBits, Entered, Settled
<1>10. MetadataIsIntact'
  <2>1. ASSUME NEW x \in 1 .. Meta, x \notin {StrayBit - 1, StrayBit} \/ FileIsThere
        PROVE  block'[x] = block[x]
    <3>1. x \in Block \ {b, 0}
      BY <1>2, <2>1, Sizes DEF Block
    <3>2. QED
      BY <1>1, <3>1
  <2>2. QED
    BY <1>l, <2>1 DEF StayInv, MetadataIsIntact
<1>11. ASSUME NEW m \in made
       PROVE  DirectoryStays(m)'
  <2>1. DirectoryStays(m)
    BY DEF StayInv
  <2>2. /\ m.ino \in Ino /\ m.ino # cmd.ino /\ m.ino \in inode_bitmap
        /\ m.ino \in FirstIno + 1 .. NumInodes
    BY <1>1, <2>1, Sizes DEF DirectoryStays, Ino
  <2>3. m.at \in Block \ {b, 0} /\ m.block \in Block \ {b, 0}
    BY <1>2, <1>3, <2>1 DEF DirectoryStays, Kept, Typed, Bit, Block
  <2>4. block'[m.at] = block[m.at] /\ block'[m.block] = block[m.block]
    BY <1>1, <2>3
  <2>5. /\ inode'[m.ino].i_block[0] # 0
        /\ \/ inode'[m.ino].i_block[0] = m.block
           \/ IsOverrun(m.ino)' /\ FileIno \in inode_bitmap
    <3>1. CASE m.ino = cmd.ino + 1
      <4>1. cmd.ino = FileIno /\ m.ino = FileIno + 1
        <5>1. cmd.ino # FileIno => m.ino \notin Others
          BY <1>3, <2>2, <3>1, Sizes DEF Others
        <5>2. m.ino = FileIno => cmd.ino >= FileIno
          BY <1>1, <2>1, Sizes DEF DirectoryStays, Settled, Running
        <5>3. QED
          BY <1>3, <2>2, <3>1, <5>1, <5>2, Sizes DEF Others
      <4>2. inode[m.ino].i_block[0] = m.block /\ inode[m.ino].i_block[0] # 0
        BY <1>1, <2>1, <4>1 DEF DirectoryStays, Running
      <4>3. CASE InodeWords < n
        <5>1. inode'[m.ino].i_block[0] = b
          <6>1. InodeWords + 0 = InodeWords
            BY Sizes
          <6>2. QED
            BY <1>6, <2>2, <3>1, <4>3, <6>1, Places
        <5>2. inode'[FileIno].i_block[0] = b
          <6>1. 0 < cmd.parts
            BY <1>3, <4>3, Sizes DEF n
          <6>2. QED
            BY <1>4, <4>1, <6>1, Places
        <5>3. inode'[FileIno].links # 1
          BY <1>3, <1>4, <4>1 DEF FileIsThere
        <5>4. QED
          BY <1>2, <1>3, <4>1, <5>1, <5>2, <5>3 DEF IsOverrun
      <4>4. CASE ~(InodeWords < n)
        <5>1. inode'[m.ino].i_block[0] = inode[m.ino].i_block[0]
          <6>1. InodeWords + 0 = InodeWords
            BY Sizes
          <6>2. QED
            BY <1>6, <2>2, <3>1, <4>4, <6>1, Places
        <5>2. QED
          BY <4>2, <5>1
      <4>5. QED
        BY <4>3, <4>4
    <3>2. CASE m.ino # cmd.ino + 1
      <4>1. inode'[m.ino] = inode[m.ino]
        BY <1>5, <2>2, <3>2
      <4>2. ASSUME IsOverrun(m.ino)
            PROVE  IsOverrun(m.ino)'
        <5>1. FileIno # cmd.ino /\ FileIno # cmd.ino + 1
          <6>1. m.ino = FileIno + 1 /\ m.ino >= FileIno
            BY <4>2, Sizes DEF IsOverrun
          <6>2. cmd.ino >= FileIno
            BY <1>1, <2>1, <6>1 DEF DirectoryStays, Settled, Running
          <6>3. QED
            BY <1>3, <3>2, <6>1, <6>2, Sizes
        <5>2. inode'[FileIno] = inode[FileIno]
          BY <1>5, <5>1, Places
        <5>3. QED
          BY <4>1, <4>2, <5>2 DEF IsOverrun
      <4>3. QED
        BY <2>1, <4>1, <4>2 DEF DirectoryStays
    <3>3. QED
      BY <3>1, <3>2
  <2>6. Kept(m.at)' /\ Kept(m.block)'
    BY <1>1, <1>7, <2>1, KeptStays DEF DirectoryStays, Kept
  <2>7. ~ (Running("cp") /\ cmd.ino = FileIno)'
    BY <1>1 DEF Running
  <2>8. QED
    BY <1>1, <1>l, <1>9, <2>1, <2>2, <2>4, <2>5, <2>6, <2>7 DEF DirectoryStays
<1>a. block'[StrayBit - 1] = block[StrayBit - 1]
  BY <1>1, <1>2, Places
<1>12. QED
  BY <1>a, <1>0, <1>1, <1>7, <1>8, <1>9, <1>10, <1>11 DEF StayInv

\* The block in front of an entry is the inode table's only if it is the one in
\* front of the stray bit's block, and the image's own file is gone by then.
LEMMA OnlyOneBlockStrays ==
    ASSUME StayInv, NEW at \in Block, NEW i, Releasing(at, i)
    PROVE  \A x \in 1 .. Meta : x \notin {StrayBit - 1, StrayBit} \/ FileIsThere => block'[x] = block[x]
<1> SUFFICES ASSUME NEW x \in 1 .. Meta, x \notin {StrayBit - 1, StrayBit} \/ FileIsThere,
                    block'[x] # block[x]
             PROVE  FALSE
  OBVIOUS
<1>1. x \in Block
  BY Sizes DEF Block
<1>2. x = at - 1 /\ block[x].kind \in {"data", "meta"}
  BY <1>1 DEF Releasing
<1>3. block[x] = IF x = Meta THEN Listing({}, TRUE) ELSE MetaData
  BY DEF StayInv, MetadataIsIntact
<1>4. x # Meta
  BY <1>2, <1>3 DEF Listing
<1>5. at \in 1 .. Meta
  BY <1>2, <1>4, Sizes DEF Block
<1>6. CASE at = StrayBit - 1
  <2>1. block[at] \in {MetaData, Damaged}
    BY <1>6 DEF StayInv
  <2>2. QED
    BY <2>1 DEF Releasing, MetaData, Damaged
<1>7. CASE at # StrayBit - 1
  <2>1. at # StrayBit \/ FileIsThere
    BY <1>2, Sizes DEF Block
  <2>2. block[at] = IF at = Meta THEN Listing({}, TRUE) ELSE MetaData
    BY <1>5, <1>7, <2>1 DEF StayInv, MetadataIsIntact
  <2>3. QED
    BY <2>2 DEF Releasing, Listing, MetaData
<1>8. QED
  BY <1>6, <1>7

\* rm, apart from the inode table: only the image's own file loses its last link.
LEMMA ReleaseStays ==
    ASSUME StayInv, FewCommands, NEW at \in Block, NEW i \in FirstIno + 1 .. NumInodes, Releasing(at, i)
    PROVE  /\ inode[i].links \in 0 .. MaxLinks
           /\ Unlinked(i) # 1
           /\ Unlinked(i) = 0 => i = FileIno /\ FileIsThere
           /\ Unlinked(i) # 0 => block_bitmap' = block_bitmap /\ inode_bitmap' = inode_bitmap
           /\ block_bitmap' \subseteq block_bitmap
           /\ FileIsThere => block_bitmap \ {StrayBit, FileBlock - 1} \subseteq block_bitmap'
           /\ inode_bitmap' \subseteq inode_bitmap /\ inode_bitmap \ {FileIno} \subseteq inode_bitmap'
           /\ \A m \in made : /\ m.at \in Block /\ block'[m.at] = block[m.at]
                              /\ m.block \in Block /\ block'[m.block] = block[m.block]
<1>1. Typed /\ i \in Ino /\ inode[i].links \in 0 .. MaxLinks /\ ncommands \in Nat /\ ncommands + 1 < MaxLinks
  <2>1. Typed /\ i \in Ino
    BY Sizes DEF StayInv, CountInv, Ino
  <2>2. inode[i].links \in 0 .. MaxLinks
    BY <2>1, InodeType
  <2>3. ncommands \in 0 .. MaxCommands /\ ncommands < MaxCommands
    BY <2>1 DEF Typed, Releasing
  <2>4. QED
    BY <2>1, <2>2, <2>3, Sizes DEF FewCommands
<1>2. \/ inode[i].links = 0
      \/ inode[i].links > MaxLinks - ncommands
      \/ i = FileIno /\ inode[i].links = 1
  BY DEF StayInv, OwnFile
<1>3. Unlinked(i) = 0 => i = FileIno /\ FileIsThere
  BY <1>1, <1>2, Sizes DEF Unlinked, FileIsThere
<1>4. Unlinked(i) # 1
  BY <1>1, <1>2, Sizes DEF Unlinked
<1>5. Unlinked(i) # 0 => block_bitmap' = block_bitmap /\ inode_bitmap' = inode_bitmap
  BY DEF Releasing
<1>6. /\ block_bitmap' \subseteq block_bitmap
      /\ FileIsThere => block_bitmap \ {StrayBit, FileBlock - 1} \subseteq block_bitmap'
      /\ inode_bitmap' \subseteq inode_bitmap /\ inode_bitmap \ {FileIno} \subseteq inode_bitmap'
  <2>1. CASE Unlinked(i) = 0
    <3>1. PICK stray \in FreedByShift(i) :
            block_bitmap' = block_bitmap \ (FreedBits(i) \union stray)
      BY <2>1 DEF Releasing
    <3>2. inode_bitmap' = inode_bitmap \ {i} /\ i = FileIno /\ FileIsThere
      BY <1>3, <2>1 DEF Releasing
    <3>3. inode[i].i_block = OneBlock(FileBlock)
      BY <3>2 DEF StayInv, OwnFile
    <3>4. FreedBits(i) \subseteq {FileBlock - 1}
      BY <3>3 DEF FreedBits, OneBlock
    <3>5. stray \subseteq {StrayBit}
      BY DEF FreedByShift
    <3>6. QED
      BY <3>1, <3>2, <3>4, <3>5
  <2>2. CASE Unlinked(i) # 0
    BY <1>5, <2>2
  <2>3. QED
    BY <2>1, <2>2
<1>7. ASSUME NEW m \in made
      PROVE  /\ m.at \in Block /\ block'[m.at] = block[m.at]
             /\ m.block \in Block /\ block'[m.block] = block[m.block]
  <2>1. DirectoryStays(m)
    BY DEF StayInv
  <2>2. m.at \in Block /\ m.block \in Block
    BY <1>1, <2>1 DEF DirectoryStays, Kept, Typed, Bit, Block
  <2>3. block[m.at].kind = "listing" /\ block[m.block].kind = "listing"
    BY <2>1 DEF DirectoryStays, Listing
  <2>4. QED
    BY <2>2, <2>3 DEF Releasing
<1>8. QED
  BY <1>1, <1>3, <1>4, <1>5, <1>6, <1>7

LEMMA RemoveStays ==
    ASSUME StayInv, FewCommands, NEW at \in Block, NEW i \in FirstIno + 1 .. NumInodes, Removing(at, i)
    PROVE  StayInv' /\ OwnStays
<1>0. CountInv'
  BY RemoveCounts DEF StayInv
<1>1. /\ pc = "idle" /\ pc' = pc /\ cmd' = cmd /\ made' = made
      /\ ncommands < MaxCommands /\ ncommands' = ncommands + 1
      /\ inode' = Removed(i) /\ Releasing(at, i)
  BY DEF Removing, Releasing
<1>2. Typed /\ i \in Ino /\ ncommands \in Nat
  <2>1. Typed
    BY DEF StayInv, CountInv
  <2>2. QED
    BY <2>1, Sizes DEF Ino, Typed
<1>3. /\ \A k \in Ino : k # i => inode'[k] = inode[k]
      /\ \A k \in Ino : inode'[k].i_block = inode[k].i_block
      /\ inode'[i].links = Unlinked(i)
  <2>1. inode \in [Ino -> InodeRecord] /\ inode[i] \in InodeRecord
    BY <1>2 DEF Typed
  <2>2. inode'[i] = [inode[i] EXCEPT !.links = Unlinked(i)] /\ \A k \in Ino : k # i => inode'[k] = inode[k]
    BY <1>1, <1>2, <2>1 DEF Removed
  <2>3. inode'[i].i_block = inode[i].i_block /\ inode'[i].links = Unlinked(i)
    BY <2>1, <2>2 DEF InodeRecord
  <2>4. QED
    BY <2>2, <2>3
<1>4. /\ inode[i].links \in 0 .. MaxLinks
      /\ Unlinked(i) # 1
      /\ Unlinked(i) = 0 => i = FileIno /\ FileIsThere
      /\ Unlinked(i) # 0 => block_bitmap' = block_bitmap /\ inode_bitmap' = inode_bitmap
      /\ block_bitmap' \subseteq block_bitmap
      /\ FileIsThere => block_bitmap \ {StrayBit, FileBlock - 1} \subseteq block_bitmap'
      /\ inode_bitmap' \subseteq inode_bitmap /\ inode_bitmap \ {FileIno} \subseteq inode_bitmap'
      /\ \A m \in made : /\ m.at \in Block /\ block'[m.at] = block[m.at]
                         /\ m.block \in Block /\ block'[m.block] = block[m.block]
  BY <1>1, ReleaseStays
<1>5. ~FileIsThere => block_bitmap' = block_bitmap /\ inode_bitmap' = inode_bitmap
  BY <1>4
<1>6. OwnStays
  <2>1. CASE i = FileIno
    BY <1>3, <1>4, <2>1 DEF OwnStays, FileIsThere
  <2>2. CASE i # FileIno
    BY <1>3, <2>2, Places DEF OwnStays, FileIsThere
  <2>3. QED
    BY <2>1, <2>2
<1>7. FileIsThere' => Unlinked(i) # 0 /\ FileIsThere /\ FileBlock' = FileBlock
  <2>1. Unlinked(i) = 0 => ~FileIsThere'
    BY <1>3, <1>4 DEF FileIsThere
  <2>2. QED
    BY <1>6, <2>1 DEF OwnStays, FileBlock
<1>8. \A x \in Block : block'[x].kind = "listing" => block'[x] = block[x]
  BY <1>1 DEF Releasing, Damaged
<1>13. OwnFile'
  <2>1. ASSUME NEW k \in FirstIno + 1 .. NumInodes
        PROVE  \/ inode'[k].links = 0
               \/ inode'[k].links > MaxLinks - ncommands'
               \/ k = FileIno /\ inode'[k].links = 1
    <3>1. k \in Ino
      BY Sizes DEF Ino
    <3>2. inode[k].links \in 0 .. MaxLinks
      BY <1>2, <3>1, InodeType
    <3>3. \/ inode[k].links = 0
          \/ inode[k].links > MaxLinks - ncommands
          \/ k = FileIno /\ inode[k].links = 1
      BY DEF StayInv, OwnFile
    <3>4. CASE k = i
      BY <1>1, <1>2, <1>3, <3>2, <3>3, <3>4, Sizes DEF Unlinked
    <3>5. CASE k # i
      BY <1>1, <1>2, <1>3, <3>1, <3>2, <3>3, <3>5, Sizes
    <3>6. QED
      BY <3>4, <3>5
  <2>2. ASSUME FileIsThere'
        PROVE  /\ FileIno \in inode_bitmap'
               /\ FileBlock' \in Reserved + 1 .. NumBlocks - 1
               /\ {StrayBit, FileBlock' - 1} \subseteq block_bitmap'
               /\ inode'[FileIno].i_block = OneBlock(FileBlock')
               /\ \A b \in Block : block'[b].kind = "listing" =>
                      \A e \in block'[b].entries : e.type = "dir" => e.ino # FileIno
    BY <1>3, <1>4, <1>7, <1>8, <2>2, Places DEF StayInv, OwnFile
  <2>3. QED
    BY <1>1, <2>1, <2>2 DEF OwnFile
<1>14. InOrder' /\ (Settled => Settled')
  <2>1. \A k \in Others : k \in inode_bitmap' <=> k \in inode_bitmap
    BY <1>4 DEF Others
  <2>2. InOrder'
    BY <1>1, <2>1 DEF StayInv, InOrder, Running
  <2>3. \A k \in FirstIno + 1 .. FileIno - 1 : k \in inode_bitmap' <=> k \in inode_bitmap
    BY <2>1, Sizes DEF Others
  <2>4. QED
    BY <1>1, <2>2, <2>3 DEF Settled, Running
<1>15. FixedBits' /\ Entered'
  <2>1. FileIsThere => FileBlock - 1 \notin 0 .. Reserved - 1
    BY Sizes DEF StayInv, OwnFile
  <2>2. QED
    BY <1>1, <1>4, <1>5, <2>1 DEF StayInv, FixedBits, Entered
<1>16. MetadataIsIntact' /\ block'[StrayBit - 1] \in {MetaData, Damaged}
  <2>1. \A x \in 1 .. Meta : x \notin {StrayBit - 1, StrayBit} \/ FileIsThere => block'[x] = block[x]
    BY <1>1, OnlyOneBlockStrays
  <2>2. block'[StrayBit - 1] = block[StrayBit - 1] \/ block'[StrayBit - 1] = Damaged
    BY <1>1, Places DEF Releasing
  <2>3. QED
    BY <1>7, <2>1, <2>2 DEF StayInv, MetadataIsIntact
<1>17. ASSUME NEW m \in made
       PROVE  DirectoryStays(m)'
  <2>1. DirectoryStays(m)
    BY DEF StayInv
  <2>2. m.ino \in Ino /\ m.ino \in FirstIno + 1 .. NumInodes /\ m.ino \in inode_bitmap'
    <3>1. m.ino \in Ino /\ m.ino \in FirstIno + 1 .. NumInodes /\ m.ino \in inode_bitmap
      BY <2>1, Sizes DEF DirectoryStays, Ino
    <3>2. QED
      BY <1>4, <2>1, <3>1 DEF DirectoryStays
  <2>3. inode'[m.ino].i_block = inode[m.ino].i_block
    BY <1>3, <2>2
  <2>5. block'[m.at] = block[m.at] /\ block'[m.block] = block[m.block]
    BY <1>4
  <2>7. ASSUME IsOverrun(m.ino), FileIno \in inode_bitmap
        PROVE  IsOverrun(m.ino)' /\ FileIno \in inode_bitmap'
    <3>1. ~FileIsThere /\ ~FileIsThere'
      BY <1>7, <2>7 DEF IsOverrun, FileIsThere
    <3>2. inode'[FileIno].i_block = inode[FileIno].i_block
      BY <1>3, Places
    <3>3. QED
      BY <1>5, <2>3, <2>7, <3>1, <3>2 DEF IsOverrun, FileIsThere
  <2>8. Kept(m.at) /\ Kept(m.block)
    BY <2>1 DEF DirectoryStays
  <2>9. \A b : Kept(b) => b \in block_bitmap'
    BY <1>4, <1>5 DEF Kept
  <2>10. Kept(m.at)' /\ Kept(m.block)'
    BY <1>6, <2>8, <2>9, KeptStays
  <2>11. QED
    BY <1>1, <1>7, <1>14, <2>1, <2>2, <2>3, <2>5, <2>7, <2>10 DEF DirectoryStays, Running
<1>18. QED
  BY <1>0, <1>1, <1>6, <1>13, <1>14, <1>15, <1>16, <1>17 DEF StayInv

\* rm has written into the inode table, which halts the image.
HaltedStay == Halted /\ MetadataIsIntact /\ DirectoriesStay

LEMMA StrayStays ==
    ASSUME StayInv, FewCommands, NEW at \in Block, NEW i \in FirstIno + 1 .. NumInodes, Straying(at, i)
    PROVE  HaltedStay' /\ ~FileIsThere /\ ~FileIsThere'
<1>1. Releasing(at, i) /\ block'[at - 1] = Damaged /\ at - 1 \in 1 .. Meta - 1 /\ block[at - 1].kind = "meta"
  BY DEF Straying
<1>2. PICK k \in StrayInodes, s \in Spot, b \in 1 .. NumBlocks :
         inode' = [Removed(i) EXCEPT ![k].i_block[s] = b]
  BY DEF Straying
<1>3. Halted'
  BY StrayHalts DEF StayInv
<1>4. /\ inode[i].links \in 0 .. MaxLinks /\ Unlinked(i) # 1
      /\ Unlinked(i) = 0 => i = FileIno /\ FileIsThere
      /\ Unlinked(i) # 0 => block_bitmap' = block_bitmap /\ inode_bitmap' = inode_bitmap
      /\ \A m \in made : /\ m.at \in Block /\ block'[m.at] = block[m.at]
                         /\ m.block \in Block /\ block'[m.block] = block[m.block]
  BY <1>1, ReleaseStays
<1>5. ~FileIsThere
  <2>1. \A x \in 1 .. Meta : x \notin {StrayBit - 1, StrayBit} \/ FileIsThere => block'[x] = block[x]
    BY <1>1, OnlyOneBlockStrays
  <2>2. at - 1 \in 1 .. Meta /\ block'[at - 1] # block[at - 1]
    BY <1>1, Sizes DEF Damaged
  <2>3. QED
    BY <2>1, <2>2
<1>6. block_bitmap' = block_bitmap /\ inode_bitmap' = inode_bitmap /\ made' = made
  BY <1>1, <1>4, <1>5 DEF Releasing
<1>7. Removed(i) \in [Ino -> InodeRecord] /\ inode \in [Ino -> InodeRecord] /\ i \in Ino
  BY <1>1, ReleaseCounts, Sizes DEF StayInv, CountInv, Typed, Ino
<1>8. /\ \A j \in Ino : inode'[j].links = IF j = i THEN Unlinked(i) ELSE inode[j].links
      /\ \A j \in Ino : j # k => inode'[j].i_block = inode[j].i_block
  <2>1. \A j \in Ino : /\ Removed(i)[j].links = IF j = i THEN Unlinked(i) ELSE inode[j].links
                       /\ Removed(i)[j].i_block = inode[j].i_block
    <3>1. Removed(i)[i] = [inode[i] EXCEPT !.links = Unlinked(i)] /\ inode[i] \in InodeRecord
      BY <1>7 DEF Removed
    <3>2. Removed(i)[i].links = Unlinked(i) /\ Removed(i)[i].i_block = inode[i].i_block
      BY <3>1 DEF InodeRecord
    <3>3. \A j \in Ino : j # i => Removed(i)[j] = inode[j]
      BY <1>7 DEF Removed
    <3>4. QED
      BY <3>2, <3>3
  <2>2. \A j \in Ino : j # k => inode'[j] = Removed(i)[j]
    BY <1>2, <1>7
  <2>3. k \in Ino => inode'[k] = [Removed(i)[k] EXCEPT !.i_block[s] = b]
    BY <1>2, <1>7
  <2>4. k \in Ino => inode'[k].links = Removed(i)[k].links
    BY <1>7, <2>3 DEF InodeRecord
  <2>5. QED
    BY <2>1, <2>2, <2>4
<1>9. ~FileIsThere'
  BY <1>4, <1>5, <1>8, Places DEF FileIsThere
<1>10. MetadataIsIntact'
  <2>1. \A x \in 1 .. Meta : x \notin {StrayBit - 1, StrayBit} => block'[x] = block[x]
    BY <1>1, OnlyOneBlockStrays
  <2>2. QED
    BY <1>9, <2>1 DEF StayInv, MetadataIsIntact
<1>11. ASSUME NEW m \in made
       PROVE  /\ m.ino \in inode_bitmap'
              /\ \/ inode'[m.ino].i_block[0] = m.block
                 \/ IsOverrun(m.ino)'
                 \/ m.ino \in StrayInodes
              /\ {m.at, m.block} \subseteq block_bitmap'
              /\ block'[m.block] = Listing({EntryOf(Dot, m.ino, "dir", TRUE)}, FALSE)
              /\ \E nul \in BOOLEAN : EntryOf(m.name, m.ino, "dir", nul) \in block'[m.at].entries
  <2>1. DirectoryStays(m)
    BY DEF StayInv
  <2>2. m.ino \in FirstIno + 1 .. NumInodes /\ m.ino \in Ino
    BY <2>1, Sizes DEF DirectoryStays, Ino
  <2>3. CASE m.ino \notin StrayInodes
    <3>1. inode'[m.ino].i_block = inode[m.ino].i_block
      BY <1>8, <2>2, <2>3
    <3>2. IsOverrun(m.ino) => FileIno \notin StrayInodes
      BY <2>2, <2>3, Sizes DEF IsOverrun, StrayInodes
    <3>3. IsOverrun(m.ino) => inode'[FileIno].i_block = inode[FileIno].i_block
      BY <1>8, <3>2, Places
    <3>4. IsOverrun(m.ino) => IsOverrun(m.ino)'
      BY <1>9, <3>1, <3>3 DEF IsOverrun, FileIsThere
    <3>5. QED
      BY <1>4, <1>6, <2>1, <3>1, <3>4 DEF DirectoryStays, Kept
  <2>4. CASE m.ino \in StrayInodes
    BY <1>4, <1>6, <2>1, <2>4 DEF DirectoryStays, Kept
  <2>5. QED
    BY <2>3, <2>4
<1>12. DirectoriesStay'
  BY <1>3, <1>6, <1>11 DEF DirectoriesStay, Halted
<1>13. QED
  BY <1>3, <1>5, <1>9, <1>10, <1>12 DEF HaltedStay

LEMMA IdleStays ==
    ASSUME StayInv, UNCHANGED <<block_bitmap, inode_bitmap, counts, inode, block, pc, cmd, made>>,
           ncommands' \in ncommands .. MaxCommands
    PROVE  StayInv' /\ OwnStays
<1>0. CountInv'
  <2>1. ncommands' \in 0 .. MaxCommands
    <3>1. ncommands \in 0 .. MaxCommands
      BY DEF StayInv, CountInv, Typed
    <3>2. QED
      BY <3>1, Sizes
  <2>2. QED
    BY <2>1, IdleCounts DEF StayInv
<1>1. FileIsThere' = FileIsThere /\ FileBlock' = FileBlock
  BY DEF FileIsThere, FileBlock
<1>2. OwnFile'
  <2>1. \A i \in FirstIno + 1 .. NumInodes :
           \/ inode'[i].links = 0
           \/ inode'[i].links > MaxLinks - ncommands'
           \/ i = FileIno /\ inode'[i].links = 1
    BY SameLinks
  <2>2. QED
    BY <1>1, <2>1 DEF StayInv, OwnFile
<1>3. InOrder' /\ FixedBits' /\ Entered' /\ MetadataIsIntact'
  BY <1>1 DEF StayInv, InOrder, Others, Running, FixedBits, Entered, Kept, MetadataIsIntact
<1>4. ASSUME NEW m \in made PROVE DirectoryStays(m)'
  BY <1>1 DEF StayInv, DirectoryStays, Settled, Running, Kept, IsOverrun
<1>5. QED
  BY <1>0, <1>1, <1>2, <1>3, <1>4 DEF StayInv, OwnStays

LEMMA NextStays ==
    FewCommands /\ StayInv /\ [Next]_vars =>
        (StayInv' /\ OwnStays) \/ (HaltedStay' /\ ~FileIsThere /\ ~FileIsThere')
<1> SUFFICES ASSUME FewCommands, StayInv, [Next]_vars
             PROVE  (StayInv' /\ OwnStays) \/ (HaltedStay' /\ ~FileIsThere /\ ~FileIsThere')
  OBVIOUS
<1>1. Typed /\ Inodes
  BY DEF StayInv, CountInv
<1>2. QED
  BY <1>1, Cases, MkdirStays, CopyStays, EnterStays, NoFreeBlockStays, MakeDirectoryStays,
     CopyFileStays, RemoveStays, StrayStays, IdleStays

LEMMA HaltedNextStays == HaltedStay /\ [Next]_vars => HaltedStay' /\ UNCHANGED vars
<1> SUFFICES ASSUME HaltedStay, [Next]_vars PROVE HaltedStay' /\ UNCHANGED vars
  OBVIOUS
<1>1. UNCHANGED vars
  BY HaltedStays DEF HaltedStay
<1>2. Halted'
  BY <1>1, HaltedPrimed DEF HaltedStay
<1>3. MetadataIsIntact' /\ DirectoriesStay'
  BY <1>1 DEF HaltedStay, MetadataIsIntact, DirectoriesStay, FileIsThere, IsOverrun, TableIsIntact, vars
<1>4. QED
  BY <1>1, <1>2, <1>3 DEF HaltedStay

LEMMA StayInvariance == FewCommands /\ Spec => [](StayInv \/ HaltedStay)
<1> SUFFICES ASSUME FewCommands PROVE Spec => [](StayInv \/ HaltedStay)
  OBVIOUS
<1>1. (StayInv \/ HaltedStay) /\ [Next]_vars => (StayInv \/ HaltedStay)'
  BY NextStays, HaltedNextStays
<1>2. QED
  BY <1>1, InitStays, PTL DEF Spec

\* Whatever commands are run, a directory that mkdir has made keeps its inode, its
\* blocks and its entry. Only the number of its block may get lost, to a file too
\* large for the inode in front or to what rm writes into the inode table: blocks
\* are only written when their bits are clear, and no rm clears the bits of a
\* directory.
THEOREM MadeDirectoriesStay == FewCommands /\ Spec => []DirectoriesStay
<1>1. StayInv => DirectoriesStay
  <2> SUFFICES ASSUME StayInv, NEW m \in made
               PROVE  /\ m.ino \in inode_bitmap
                      /\ \/ inode[m.ino].i_block[0] = m.block
                         \/ IsOverrun(m.ino)
                         \/ m.ino \in StrayInodes /\ ~TableIsIntact
                      /\ {m.at, m.block} \subseteq block_bitmap
                      /\ block[m.block] = Listing({EntryOf(Dot, m.ino, "dir", TRUE)}, FALSE)
                      /\ \E nul \in BOOLEAN : EntryOf(m.name, m.ino, "dir", nul) \in block[m.at].entries
    BY DEF DirectoriesStay
  <2>1. DirectoryStays(m)
    BY DEF StayInv
  <2>2. QED
    BY <2>1 DEF DirectoryStays, Kept
<1>2. HaltedStay => DirectoriesStay
  BY DEF HaltedStay
<1>3. QED
  BY <1>1, <1>2, StayInvariance, PTL

\* The metadata and the root directory are never written over, but for the block
\* that the stray bit stands for and the one in front of it, and those not as long
\* as the image's file is there: of all writes of rm only the one in front of an
\* entry in that block reaches the inode table.
THEOREM MetadataStays == FewCommands /\ Spec => []MetadataIsIntact
<1>1. (StayInv \/ HaltedStay) => MetadataIsIntact
  BY DEF StayInv, HaltedStay
<1>2. QED
  BY <1>1, StayInvariance, PTL

\* The image's own file loses its data in the two ways that OnlyNeighboursAreLost
\* names, and in no other.
THEOREM OnlyNeighbours == FewCommands /\ Spec => OnlyNeighboursAreLost
<1> SUFFICES ASSUME FewCommands PROVE Spec => OnlyNeighboursAreLost
  OBVIOUS
<1>1. ASSUME StayInv \/ HaltedStay, [Next]_vars, FileIsThere, FileIsThere',
             block[FileBlock]' # block[FileBlock]
      PROVE  \/ pc # "idle" /\ FileBlock \notin block_bitmap
             \/ pc = "idle" /\ \E s \in Spot : inode[DirIno].i_block[s] = FileBlock + 1
  <2>0. StayInv /\ OwnStays
    <3>1. ~HaltedStay
      <4>1. UNCHANGED vars => block[FileBlock]' = block[FileBlock]
        BY DEF vars, FileBlock
      <4>2. QED
        BY <1>1, <4>1, HaltedNextStays
    <3>2. QED
      BY <1>1, <3>1, NextStays
  <2>1. PICK f : f = FileBlock
    OBVIOUS
  <2>2. FileBlock' = f
    BY <1>1, <2>0, <2>1 DEF OwnStays, FileBlock
  <2>3. f \in Block /\ f # 0 /\ block'[f] # block[f]
    BY <1>1, <2>0, <2>1, <2>2, Sizes DEF StayInv, OwnFile, Block
  <2>4. Typed /\ Inodes /\ DOMAIN block = Block
    BY <2>0 DEF StayInv, CountInv, Typed
  <2>5. ASSUME NEW b \in FreeBits, Entering(b) \/ Copying(b)
        PROVE  pc # "idle" /\ f \notin block_bitmap
    BY <2>3, <2>5 DEF Entering, Copying, FreeBits
  <2>6. ASSUME MakeDirectory
        PROVE  pc # "idle" /\ f \notin block_bitmap
    <3>1. Min(FreeBits) \notin block_bitmap
      BY <2>6, FreeBit DEF MakeDirectory
    <3>2. f = Min(FreeBits)
      BY <2>3, <2>4, <2>6 DEF MakeDirectory
    <3>3. QED
      BY <2>6, <3>1, <3>2 DEF MakeDirectory
  <2>7. ASSUME NEW at \in Block, NEW i \in FirstIno + 1 .. NumInodes, Releasing(at, i)
        PROVE  pc = "idle" /\ \E s \in Spot : inode[DirIno].i_block[s] = f + 1
    <3>1. f = at - 1
      BY <2>3, <2>7 DEF Releasing
    <3>2. at = f + 1
      BY <3>1, Sizes DEF Block
    <3>3. QED
      BY <2>7, <3>2 DEF Releasing
  <2>8. block' # block
    BY <2>3
  <2>9. QED
    BY <1>1, <2>1, <2>4, <2>5, <2>6, <2>7, <2>8, Cases DEF Removing, Straying, Mkdir, Copy, NoFreeBlock
<1>2. QED
  BY <1>1, StayInvariance, PTL DEF Spec, OnlyNeighboursAreLost
=============================================================================
