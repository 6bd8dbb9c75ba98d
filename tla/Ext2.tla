-------------------------------- MODULE Ext2 --------------------------------
(***************************************************************************)
(* The commands ext2_mkdir, ext2_cp and ext2_rm, run one after the other   *)
(* on an image with a root directory, a directory in it and a file in that *)
(* directory, each of one block: img/onedirectory.img has this shape, with *)
(* two free inodes in front of the file's.  The other images of the        *)
(* repository have no directory, or a larger file, two links or a second   *)
(* level of directories.  Blocks are named by their place on the disk, and *)
(* block 0 is the boot block.  In ext2 bit i of the bitmap stands for      *)
(* block i + 1; the commands mark bit i for what they write into block i.  *)
(***************************************************************************)
EXTENDS Integers, Sequences, FiniteSetsExt

CONSTANTS
    Name,           \* names of files and directories
    PrefixesOf,     \* PrefixesOf[n]: the names that n starts with
    FileName,       \* the file that is on the image from the start
    NumBlocks,      \* s_blocks_count
    Meta,           \* blocks 1..Meta: superblock to inode table, root directory
    Reserved,       \* blocks 1..Reserved are in use on every image
    StrayBit,       \* the bit that unset_block_bitmap(0) may clear, 7 in the code
    NumInodes,      \* bound of the model: inodes that commands use, those in front
                    \* of block StrayBit of the inode table, 16 in the code
    StrayIno,       \* the first of them that an entry in block StrayBit reaches, 15
    FirstIno,       \* the first inode that is not reserved, 12 in the code
    FileIno,        \* the inode of the file on the image, 15 on onedirectory.img
    Direct,         \* direct blocks of an inode, 12 in the code
    SizeAt, LinksAt, InodeWords,    \* counted in words from the start of i_block:
                    \* i_size, the links and i_block of the next inode; 23, 28, 32
    MaxLinks,       \* the largest i_links_count, an unsigned short: 65535
    FileParts,      \* the numbers of blocks that a copied file may need
    MaxCommands     \* bound of the model: commands run on the image

ASSUME NameAssumption == /\ FileName \in Name
                         /\ PrefixesOf \in [Name -> SUBSET Name]
                         /\ \A n \in Name : n \in PrefixesOf[n]
ASSUME SizeAssumption == /\ {NumBlocks, Meta, Reserved, StrayBit, NumInodes, FirstIno, FileIno} \subseteq Nat
                         /\ 2 <= StrayBit /\ StrayBit < Meta /\ Meta + 2 <= Reserved /\ Reserved + 3 <= NumBlocks
                         /\ 2 < FirstIno /\ FirstIno < FileIno /\ FileIno <= NumInodes
                         /\ StrayIno \in FirstIno + 1 .. NumInodes
\* Bound of the model: a file that runs into the next inode stops before the
\* number of that inode's indirect block.
ASSUME BoundAssumption == /\ {Direct, SizeAt, LinksAt, InodeWords, MaxLinks, MaxCommands} \subseteq Nat
                          /\ 3 <= MaxLinks
                          /\ 1 <= Direct /\ Direct < SizeAt
                          /\ SizeAt < LinksAt /\ LinksAt < InodeWords
                          /\ FileParts \subseteq 1 .. Direct + InodeWords + Direct

VARIABLES
    block_bitmap,   \* the bits that are 1
    inode_bitmap,   \* inodes in use
    counts,         \* free blocks and inodes, directories; superblock and group alike
    inode,          \* the inode table
    block,          \* what each block of the disk holds
    pc,             \* "idle", or what a command does next: "entry", "data"
    cmd,            \* the command that is running
    ncommands,      \* commands started
    made            \* auxiliary: the directories that mkdir has made

vars == <<block_bitmap, inode_bitmap, counts, inode, block, pc, cmd, ncommands, made>>

Block == 0 .. NumBlocks - 1
Bit   == 0 .. NumBlocks - 1
Ino   == 1 .. NumInodes
Spot  == 0 .. Direct - 1
StrayInodes == StrayIno .. NumInodes

RootIno == 2
DirIno  == FirstIno
Dot     == "."

\* A directory block as it was when the image was made has entries up to its
\* end (whole); one that a command has started ends in zeros after its entry.
\* nul: a zero byte follows the name, which is not part of the format of ext2.
\* Entries with names that no command is given ("..", lost+found) are left out.
Listing(entries, whole) == [kind |-> "listing", entries |-> entries, whole |-> whole]
EntryOf(n, i, t, nul) == [name |-> n, ino |-> i, type |-> t, nul |-> nul]
Data(i, part) == [kind |-> "data", of |-> i, part |-> part]
Zeros   == Listing({}, FALSE)
Numbers(words) == [kind |-> "numbers", words |-> words]
Damaged == [kind |-> "damaged"]
MetaData == [kind |-> "meta"]

\* Of i_size it only matters whether it is 0.
Inode(links, sized, i_block) == [links |-> links, sized |-> sized, i_block |-> i_block]
ZeroInode == Inode(0, FALSE, [s \in Spot |-> 0])
OneBlock(b) == [s \in Spot |-> IF s = 0 THEN b ELSE 0]

NoCommand == [op |-> "none"]

Init ==
    \E d, f \in Reserved + 1 .. NumBlocks - 1, nul \in BOOLEAN :
        /\ d # f
        /\ block_bitmap = (0 .. Reserved - 1) \union {d - 1, f - 1, NumBlocks - 1}
        /\ inode_bitmap = (1 .. DirIno) \union {FileIno}
        /\ counts = [blocks |-> Cardinality(Bit \ block_bitmap),
                     inodes |-> Cardinality(Ino \ inode_bitmap), dirs |-> 2]
        /\ inode = [i \in Ino |-> CASE i = RootIno -> Inode(3, TRUE, OneBlock(Meta))
                                    [] i = DirIno  -> Inode(2, TRUE, OneBlock(d))
                                    [] i = FileIno -> Inode(1, TRUE, OneBlock(f))
                                    [] OTHER       -> ZeroInode]
        /\ block = [b \in Block |->
                      CASE b = 0 -> Zeros
                        [] b = Meta -> Listing({}, TRUE)
                        [] b \in 1 .. Meta - 1 -> MetaData
                        [] b = d -> Listing({EntryOf(FileName, FileIno, "file", nul)}, TRUE)
                        [] b = f -> Data(FileIno, 1)
                        [] OTHER -> Zeros]
        /\ pc = "idle" /\ cmd = NoCommand /\ ncommands = 0 /\ made = {}
-----------------------------------------------------------------------------
(* Lookup *)

FreeInodes == {i \in FirstIno .. NumInodes : i \notin inode_bitmap}

\* Mutation of FreeBits: the search looks at the next bit.
FreeBitsNext == {b \in Bit : b + 1 < NumBlocks /\ b + 1 \notin block_bitmap}

FreeBits == Bit \ block_bitmap

\* Mutation of MarkOf: the bit is the one ext2 has for the block.
MarkOfExt2(b) == b - 1

\* set_block_bitmap(b + 1) goes with what is written into block b.
MarkOf(b) == b

\* The check for an existing name: mkdir and cp read the first block of the
\* directory and stop at an entry whose name is a prefix of the new one, mkdir
\* at directories only.  In a block that is not whole the search never ends; in
\* one that holds no listing it may do either.  The i_size of a directory that
\* mkdir made is 0: nothing of it is read.
FirstBlock(d) == block[inode[d].i_block[0]]
Passes(d, n, types) ==
    inode[d].sized /\ FirstBlock(d).kind = "listing" =>
        /\ FirstBlock(d).whole
        /\ \A e \in FirstBlock(d).entries : e.type \in types => e.name \notin PrefixesOf[n]

\* The directories that mkdir and cp find behind the name of the image's own: on
\* the way, too, only the first block of a directory is read.  Longer paths, and
\* what a path finds in a block without a listing, are left out.
SubDirs == LET c == FirstBlock(DirIno)
           IN  IF c.kind = "listing"
               THEN {e.ino : e \in {x \in c.entries : x.type = "dir"}}
               ELSE {}

\* rm compares the names with strcmp.
Lists(b, n) == /\ block[b].kind = "listing"
               /\ \E e \in block[b].entries : e.name = n /\ e.type = "file" /\ e.nul
\* A block is passed over at once if its first inode number is 0.  Block numbers
\* in block 0 look like an entry that leads to zeros: the search never ends.
PassedOver(b) == block[b].kind = "listing" /\ (block[b].whole \/ block[b].entries = {})

\* rm goes through all direct blocks, among them block 0 for an unused spot.
Found(n) == {s \in Spot : /\ Lists(inode[DirIno].i_block[s], n)
                          /\ \A t \in 0 .. s - 1 : PassedOver(inode[DirIno].i_block[t])}
-----------------------------------------------------------------------------
(* mkdir and cp *)

\* Bound of the model: no command is run on an image whose inode table rm has
\* written into.
TableIsIntact == \A b \in 1 .. Meta - 1 : block[b] # Damaged

Starts == /\ pc = "idle" /\ TableIsIntact
          /\ ncommands < MaxCommands /\ ncommands' = ncommands + 1

\* find_free_inode clears the inode it returns.
NewIno == Min(FreeInodes)
TakeInode(op, d, n, parts) ==
    /\ FreeInodes # {}
    /\ inode' = [inode EXCEPT ![NewIno] = ZeroInode]
    /\ cmd' = [op |-> op, dir |-> d, name |-> n, parts |-> parts, ino |-> NewIno, at |-> 0]
    /\ pc' = "entry"

Mkdir(d, n) ==
    /\ Starts
    /\ d \in {DirIno} \union SubDirs
    /\ Passes(d, n, {"dir"})
    /\ TakeInode("mkdir", d, n, 0)
    /\ UNCHANGED <<block_bitmap, inode_bitmap, counts, block, made>>

Copy(d, n, parts) ==
    /\ Starts
    /\ d \in {RootIno, DirIno} \union SubDirs
    /\ Passes(d, n, {"dir", "file"})
    /\ parts > Direct => \E i \in FreeInodes : i < NumInodes  \* bound: the table's end
    /\ TakeInode("cp", d, n, parts)
    /\ inode_bitmap' = inode_bitmap \union {NewIno}
    /\ UNCHANGED <<block_bitmap, counts, block, made>>

\* No directory has an indirect block: its number is 0, so that the numbers are
\* looked for, and put, into block 0, whatever the directory.
Indirect == IF block[0].kind = "numbers" THEN block[0].words ELSE <<>>

\* find_spot_for_inode_entry: the first block number that is 0 or whose bit is
\* clear, direct or indirect.  The caller writes into the block in front of the
\* number returned.
NumberAt(s) == IF s < Direct THEN inode[cmd.dir].i_block[s]
               ELSE IF s < Direct + Len(Indirect) THEN Indirect[s - Direct + 1] ELSE 0
OpenSpots == {s \in 0 .. Direct + Len(Indirect) :
                NumberAt(s) = 0 \/ NumberAt(s) - 1 \notin block_bitmap}
OpenSpot  == Min(OpenSpots)
IsNewSpot == NumberAt(OpenSpot) = 0

NewEntry(nul) == EntryOf(cmd.name, cmd.ino, IF cmd.op = "mkdir" THEN "dir" ELSE "file", nul)

WriteEntry(disk, b, content) ==
    /\ block' = [disk EXCEPT ![b] = content]
    /\ block_bitmap' = block_bitmap \union {MarkOf(b)}
    /\ cmd' = [cmd EXCEPT !.at = b]
    /\ pc' = "data"
    /\ UNCHANGED <<inode_bitmap, counts, ncommands, made>>

EnterInNewBlock ==
    /\ pc = "entry" /\ IsNewSpot /\ FreeBits # {}
    /\ LET b == Min(FreeBits)
           direct == OpenSpot < Direct
       IN  /\ inode' = IF direct THEN [inode EXCEPT ![cmd.dir].i_block[OpenSpot] = b] ELSE inode
           /\ WriteEntry(IF direct THEN block
                         ELSE [block EXCEPT ![0] = Numbers(Append(Indirect, b))],
                         b, Listing({NewEntry(TRUE)}, FALSE))

\* An old block is not cleared.  If it is whole, its other entries still follow
\* when the new one is as long as the one it replaces.
EnterInOldBlock ==
    /\ pc = "entry" /\ ~IsNewSpot
    /\ LET b == NumberAt(OpenSpot) - 1
       IN  \E nul \in BOOLEAN :
              \/ WriteEntry(block, b, Listing({NewEntry(nul)}, FALSE))
              \/ /\ block[b].kind = "listing" /\ block[b].whole
                 /\ WriteEntry(block, b, Listing(block[b].entries \union {NewEntry(nul)}, TRUE))
    /\ UNCHANGED inode

\* find_free_block found no clear bit: the command ends in the write in front
\* of the image, or with "Disk compact."; what it has written stays.
NoFreeBlock ==
    /\ pc = "data" \/ (pc = "entry" /\ IsNewSpot)
    /\ FreeBits = {}
    /\ pc' = "idle" /\ cmd' = NoCommand
    /\ UNCHANGED <<block_bitmap, inode_bitmap, counts, inode, block, ncommands, made>>

Finish == pc' = "idle" /\ cmd' = NoCommand /\ UNCHANGED ncommands

\* The block of the new directory, with an entry for itself at its start.
MakeDirectory ==
    /\ pc = "data" /\ cmd.op = "mkdir" /\ FreeBits # {}
    /\ LET b == Min(FreeBits)
       IN  /\ block' = [block EXCEPT ![b] = Listing({EntryOf(Dot, cmd.ino, "dir", TRUE)}, FALSE)]
           /\ block_bitmap' = block_bitmap \union {MarkOf(b)}
           /\ inode' = [inode EXCEPT ![cmd.ino].i_block[0] = b]
           /\ made' = made \union {[ino |-> cmd.ino, name |-> cmd.name, at |-> cmd.at, block |-> b]}
    /\ inode_bitmap' = inode_bitmap \union {cmd.ino}
    /\ counts' = [counts EXCEPT !.blocks = @ - 1, !.inodes = @ - 1, !.dirs = @ + 1]
    /\ Finish

\* What the second loop of cp leaves in i_block and behind it when it writes b
\* into the first n words: the next inode may lose its links and its blocks.
Overrun(i, n, b) ==
    Inode(IF n > LinksAt THEN 0 ELSE i.links, i.sized \/ n > SizeAt,
          [s \in Spot |-> IF InodeWords + s < n THEN b ELSE i.i_block[s]])

\* The same numbers go into the indirect block, which is block 0.
IndirectNumbers(n, b) ==
    Numbers([k \in 1 .. Max({n, Len(Indirect)}) |-> IF k <= n THEN b ELSE Indirect[k]])

\* The loops over the parts of the file: no bit is set, so each turn is given the
\* same block again, and the last part is what stays in it.
CopyFile ==
    /\ pc = "data" /\ cmd.op = "cp" /\ FreeBits # {}
    /\ LET b == Min(FreeBits)
           n == cmd.parts - Direct      \* turns of the second loop
       IN  /\ block' = [block EXCEPT ![b] = Data(cmd.ino, cmd.parts),
                                     ![0] = IF n > 0 THEN IndirectNumbers(n, b) ELSE @]
           /\ inode' = [i \in Ino |->
                 CASE i = cmd.ino -> [inode[i] EXCEPT !.i_block =
                                        [s \in Spot |-> IF s < cmd.parts THEN b ELSE @[s]]]
                   [] i = cmd.ino + 1 -> Overrun(inode[i], n, b)
                   [] OTHER -> inode[i]]
    /\ counts' = [counts EXCEPT !.blocks = @ - 1, !.inodes = @ - 1, !.dirs = @ + 1]
    /\ UNCHANGED <<block_bitmap, inode_bitmap, made>>
    /\ Finish
-----------------------------------------------------------------------------
(* rm *)

\* Mutation of Unlinked: a wider, signed count.
UnlinkedSigned(i) == inode[i].links - 1

\* A count of 0 wraps.
Unlinked(i) == IF inode[i].links = 0 THEN MaxLinks ELSE inode[i].links - 1

\* Mutation of Released: the blocks are not counted.
ReleasedInode == [counts EXCEPT !.inodes = @ + 1]

\* Every direct block is counted, used or not.
Released == [counts EXCEPT !.blocks = @ + Direct, !.inodes = @ + 1]

\* Mutation of FreedBits: the whole byte that the bit is in is cleared.
FreedBitsByByte(i) ==
    LET byte(b) == b \div (StrayBit + 1)
    IN  {b \in Bit : \E s \in Spot : /\ inode[i].i_block[s] # 0
                                     /\ byte(b) = byte(inode[i].i_block[s] - 1)}

\* The bits of an inode's blocks.
FreedBits(i) == {b - 1 : b \in {inode[i].i_block[s] : s \in Spot} \ {0}}

\* Unused spots are freed as well: unset_block_bitmap(0) shifts by -1, which is
\* undefined; a build leaves the byte as it is or clears its highest bit.
FreedByShift(i) == IF \E s \in Spot : inode[i].i_block[s] = 0 THEN {{}, {StrayBit}} ELSE {{}}

\* The length of the entry is added to two bytes that far in front of it.  The entry
\* of rm is the last in a whole block, or the first in another: that is in the block
\* before, whatever it is.  Data may be damaged.  A listing has nothing where the
\* first entries of a block reach; further, to a listing's start, reaches only the
\* image's own file, but the block in front of its directory is never one, as the
\* bit that hands it out is that of the directory.  Of the metadata only the inode
\* table is in front of an entry.
\* In front of block 0 is nothing of the image.
InFront(at) == IF at = 0 THEN Zeros ELSE block[at - 1]
Strayed(at) == CASE InFront(at).kind = "data" -> {InFront(at), Damaged}
                 [] InFront(at).kind = "meta" -> {Damaged}
                 [] OTHER -> {InFront(at)}

\* In the inode table that is a field of one of the inodes that entries of at most
\* 263 bytes reach, one of its block numbers maybe; NumBlocks stands for all numbers
\* that are too large.
StrayedTable(at, table) ==
    {table} \union
    IF InFront(at).kind # "meta" THEN {}
    ELSE {[table EXCEPT ![i].i_block[s] = b] :
            i \in StrayInodes, s \in Spot, b \in 1 .. NumBlocks}

Rm(n) ==
    /\ Starts
    /\ Found(n) # {}
    /\ LET at == inode[DirIno].i_block[Min(Found(n))]
           i  == (CHOOSE e \in block[at].entries : e.name = n /\ e.type = "file" /\ e.nul).ino
       IN  /\ inode' \in StrayedTable(at, [inode EXCEPT ![i].links = Unlinked(i)])
           /\ IF Unlinked(i) = 0
              THEN /\ \E stray \in FreedByShift(i) :
                         block_bitmap' = block_bitmap \ (FreedBits(i) \union stray)
                   /\ inode_bitmap' = inode_bitmap \ {i}
                   /\ counts' = Released
              ELSE UNCHANGED <<block_bitmap, inode_bitmap, counts>>
           /\ \E c \in Strayed(at) : block' = [block EXCEPT ![at - 1] = c]
    /\ UNCHANGED <<pc, cmd, made>>

\* A command that finds its name taken, no free inode or no file to remove
\* changes nothing, however it ends (without an inode, find_free_inode clears
\* bytes behind the inode bitmap that nothing uses).
Refused(n) ==
    /\ \/ \E d \in {DirIno} \union SubDirs : \/ ~Passes(d, n, {"dir", "file"})
                                           \/ FirstBlock(d).kind # "listing"
       \/ FreeInodes = {}
       \/ Found(n) = {}
    /\ Starts
    /\ UNCHANGED <<block_bitmap, inode_bitmap, counts, inode, block, pc, cmd, made>>

Done == /\ pc = "idle"
        /\ ncommands = MaxCommands \/ ~TableIsIntact
        /\ UNCHANGED vars

Next ==
    \/ \E n \in Name : Rm(n) \/ Refused(n)
    \/ \E n \in Name, d \in Ino : Mkdir(d, n) \/ \E parts \in FileParts : Copy(d, n, parts)
    \/ EnterInNewBlock \/ EnterInOldBlock \/ NoFreeBlock
    \/ MakeDirectory \/ CopyFile
    \/ Done

Spec == Init /\ [][Next]_vars
-----------------------------------------------------------------------------
FileBlock == inode[FileIno].i_block[0]

\* The file has its link: it was not removed, and no file in front of it ran into
\* its inode as far as the links, behind which are the numbers of its blocks.
FileIsThere == inode[FileIno].links = 1

TypeOK ==
    /\ block_bitmap \subseteq Bit
    /\ inode_bitmap \subseteq Ino
    /\ counts \in [blocks : Nat, inodes : Nat, dirs : Nat]
    /\ DOMAIN inode = Ino
    /\ \A i \in Ino : /\ inode[i].links \in 0 .. MaxLinks
                      /\ inode[i].sized \in BOOLEAN
                      /\ inode[i].i_block \in [Spot -> 0 .. NumBlocks]
    /\ DOMAIN block = Block
    /\ pc \in {"idle", "entry", "data"}
    /\ ncommands \in 0 .. MaxCommands

\* The free counts of superblock and group descriptor may promise more than the
\* bitmaps have, after commands that failed halfway, mkdir's second block or the
\* empty spots rm counts, but they never promise less.
CountsOnlyOverstate ==
    /\ counts.blocks >= Cardinality(FreeBits)
    /\ counts.inodes >= Cardinality(Ino \ inode_bitmap)

\* find_free_block clears a block that ext2 has in use, the commands write in
\* front of the numbers they are given and rm in front of a block; but of the
\* metadata and the root directory only the block of the stray bit is ever
\* written over, and by rm the one in front of it, both parts of the inode table,
\* and neither as long as the image's own file is there.
MetadataIsIntact ==
    \A b \in 1 .. Meta : b \notin {StrayBit - 1, StrayBit} \/ FileIsThere =>
        block[b] = IF b = Meta THEN Listing({}, TRUE) ELSE MetaData

\* A file that cp put into the inode of the image's own file, which was removed,
\* ran into the inode behind it.
IsOverrun(i) == /\ i = FileIno + 1
                /\ inode[FileIno].links # 1
                /\ inode[i].i_block[0] = inode[FileIno].i_block[0]

\* A directory that mkdir has made stays as it was made whatever other commands
\* do: its inode and its two blocks stay marked and are not written again.  Its
\* inode may lose the number of its block in two ways: it is behind the inode of a
\* file that was too large, or rm wrote into the inode table.
DirectoriesStay ==
    \A m \in made :
        /\ m.ino \in inode_bitmap
        /\ \/ inode[m.ino].i_block[0] = m.block
           \/ IsOverrun(m.ino)
           \/ m.ino \in StrayInodes /\ ~TableIsIntact
        /\ {m.at, m.block} \subseteq block_bitmap
        /\ block[m.block] = Listing({EntryOf(Dot, m.ino, "dir", TRUE)}, FALSE)
        /\ \E nul \in BOOLEAN : EntryOf(m.name, m.ino, "dir", nul) \in block[m.at].entries

\* The file on the image keeps its data as long as it is there.
OriginalFilesSurvive == FileIsThere => block[FileBlock] = Data(FileIno, 1)

\* The only ways a file that is there loses its data: the bit behind its own was
\* clear, or rm wrote in front of a directory block that follows it.
OnlyNeighboursAreLost ==
    [][ FileIsThere /\ FileIsThere' /\ block[FileBlock]' # block[FileBlock] =>
            \/ pc # "idle" /\ FileBlock \notin block_bitmap
            \/ pc = "idle" /\ \E s \in Spot : inode[DirIno].i_block[s] = FileBlock + 1 ]_vars
=============================================================================
