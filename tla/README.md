# TLA+ models of C69

C69 holds three assignments of an operating systems course, in C: a kernel module that intercepts
system calls (`Assignment1`), a simulator of demand paging (`Assignment2/starter`), and commands
that change an ext2 disk image (`Assignment3`). This directory holds TLA+ modules of all three, TLC
configurations that check them on small instances, and theorems about all three with proofs for
TLAPS.

## 1. The system

### Paging simulator (`Assignment2/starter`)

`sim` replays a trace of memory references. `access_mem` (sim.c) asks `find_physpage`
(pagetable.c) for the frame of a page; on a miss that calls `allocate_frame`, which takes a free
frame or asks the replacement policy for a victim (`evict_fcn`) and saves a dirty victim with
`swap_pageout` (swap.c); the page is then read by `swap_pagein` or zero-filled by `init_frame`, and
`ref_fcn` tells the policy. Everything is one thread; the components share `coremap`, `physmem` and
the page table entries.

| component | state | operations | hard behaviour | what makes it correct |
|---|---|---|---|---|
| loop and page table (sim.c, pagetable.c) | page directory, entries (frame and flag bits, `swap_off`), `coremap`, `physmem`, counters | reference, allocate, evict, page in | flag bits set in one function and relied on in another, many references later | page table and coremap are inverse; a frame holds its page; no update is lost; counters add up |
| swap file (swap.c) | bitmap of slots, the file | alloc, mark, unmark, page out, page in | slots run out, short reads and writes, the leftover bits of the last word | a slot has one owner and is read only after it was written; the lowest free slot is found |
| policies (rand.c, fifo.c, clock.c, lru.c, opt.c) | an index; a hand and PG_REF; a list; the rest of the trace | init, ref, evict | loops without a bound, lists in the wrong order, uninitialised fields | the victim is the one the policy is named for; the search ends |
| trace reduction (fastslim.py) | the trace buffer, the items that wait to be printed | keep or leave out a reference, emit | when the buffer counts as full, what its marks and time stamps mean, what is left at the end | the reduced trace is in order and brings an LRU memory to the same pages |
| trace programs (simpleloop.c, matmul.c, blocked.c, queloop.c) | - | are run to produce traces | - | - (not modelled) |

### System call interceptor (`Assignment1/interceptor.c`)

A kernel module with a table entry per system call (`f`, `intercepted`, `monitored`, `listcount`,
`my_list`), the kernel's `sys_call_table`, and two spinlocks. Many processes are inside it at once:
`my_syscall` (INTERCEPT, RELEASE, START, STOP), `interceptor` (in place of an intercepted call),
`my_exit_group`; `init_function` and `exit_function` run when the module is loaded and removed.

Hard: the two locks are taken in both orders; a command checks its context under a lock, releases
it and takes it again to act; pids exit at any time; the module is removed while processes are in
it. Correct means: locks are released on every path, `interceptor` always has an original to call,
the flags agree with the call table, the lists agree with their counts and with the processes that
exist, and every call returns.

Its clients are `test_full.c` and `test_intercept.c`. `test_full` runs as root, starts itself again
as nobody through a shell, and compares the result of every command with a number that depends on
all commands before: correct means that no line prints "failed", also when other processes use the
module at the same time.

### ext2 commands (`Assignment3`)

`helper.c` maps the image and holds the bitmaps, the search for free inodes and blocks, path lookup
and deletion; `ext2_mkdir`, `ext2_cp`, `ext2_rm`, `ext2_ln`, `ext2_ls` are the commands. State: the
two bitmaps, the free counts of superblock and group descriptor, inodes and directory blocks. Hard:
blocks are numbered in two ways, counts and bitmaps are updated apart, and an error in the middle
of a command leaves what was already written. Correct means: a block has one owner, what is on the
image survives the commands that do not name it, and the counts agree with the bitmaps.

`PROJECT.json` lists every component and, under `hazards`, each of these behaviours at its line.

## 2. The modules

| module | models |
|---|---|
| `Paging` | reference loop, page table, coremap, frames, swap file, with any victim (`rand`) |
| `PagingFifo`, `PagingClock`, `PagingLru`, `PagingOpt` | `Paging` with the victim chosen by one policy |
| `Simulator` | the whole program: `main` picks one of the five policies |
| `FirstEviction` | one replay up to the first eviction, with the victims of clock, lru and opt side by side |
| `FifoQueue` | abstract: pages leave a full memory in the order they came |
| `SwapBitmap` | the bitmap of swap.c, word by word |
| `SlotAllocator` | abstract: a set of used slots, the lowest free one is handed out |
| `FastSlim` | the trace reduction of fastslim.py |
| `Interceptor` | the kernel module |
| `TestFull` | test_full.c, its guests and any number of bystanders, composed with `Interceptor` |
| `Ext2` | mkdir, cp and rm on one image |
| `PagingProofs`, `SimulatorProofs`, `SwapBitmapProofs` | theorems about the simulator |
| `FastSlimProofs` | theorems about the trace reduction |
| `InterceptorProofs` | theorems about the interceptor |
| `TestFullProofs` | theorems about its tests |
| `Ext2Proofs` | theorems about the commands |
| `LeastNumber` | lemma: a set of natural numbers that is not empty has a least one |
| `MCPaging`, `MCSimulator`, `MCFirstEviction`, `MCSwapBitmap`, `MCFastSlim`, `MCInterceptor`, `MCTestFull`, `MCExt2` | instances for TLC |

### Paging

A page is a page-aligned address, as in the reduced traces. The two levels of the page table are one
function `pgtbl`: a second-level table is created with the entries of `FreshEntry` when one of its
pages is first referenced. A frame's content is the address stored in it and its version counter.
`swap_off` is the slot, the byte offset divided by the page size.

One trace line is one step when it hits (`Hit`) or finds a free frame (`MissFree`). When memory is
full it is `MissFull`, then whatever the policy does, then `EvictClean` or `EvictDirty`: the whole
rest of `allocate_frame`, `find_physpage` and `access_mem`. The cut is there because `clock_evict`
is a loop. `SwapFull` and `SwapIOFails` are the two `exit(-1)`, with the tables left as they are,
since the process is gone. The error message of sim.c:55 is the negation of `FrameHoldsItsPage`.

`Loaded` is the line `p->frame = iFrame << PAGE_SHIFT` (pagetable.c:196): the whole flag word is
overwritten, so PG_ONSWAP goes, while `swap_off`, a field of its own, stays.

### The policies

* fifo: the index `ind`.
* clock: `ClockPass`, `ClockWrap` and `ClockEvict` are the turns of the loop. `WrappedHand` is 1
  because `clock = 0` is followed by `clock++`. `before` is auxiliary: what was referenced when the
  search began.
* lru: `evic` is never set to 1, so the second half of `lru_ref` cannot be reached and the list can
  only be seen at its two ends. The bottom node's `next` was never written: `AfterEvict` lets it be
  NULL or any other bits (`Wild`), and the store through it goes unnoticed (`LruEvict`) or faults
  (`LruFault`). `lastuse` is auxiliary.
* opt: `trace` is what is left of the file and `head` is the list. Nothing sets the `vaddr` of an
  entry, so what `is_next_frame` reads from it is any address (`Vaddrs`).
* `Simulator`: `alg` is the entry of `algs` that `main` found; the other policies' functions are
  never called.
* `FirstEviction`: until `evict_fcn` is called for the first time the memory is the same whatever the
  policy, so the three can share one replay (`Served`, `Missed`), and be asked for their victims of the
  same state (`Decided`, after the turns of clock's loop, `Searched`).

### SwapBitmap

A word is the set of its bits that are 1; `Created` sets the leftover bits of the last word.
`result` is the index of the last `bitmap_alloc`, `failed` the function whose assertion ended the
program. `Paging` uses the abstract view (`swapmap`, the set of used slots, and `FirstSlot`), which
`ImplementsAllocator` justifies.

### FastSlim

A line of the input is the reference it holds (`Line`); lines of valgrind's own and code references
without `-k` change nothing, `ts` included. `Again` is a page that is in the buffer and `Keep` one
that is not, after `emit_marked_in_ts_order` if the buffer is full; `Emission` is what that prints.
Items are equal by their page, as `__eq__` and `__hash__` say, so `ti in tracebuffer` is `InBuffer`.
`trace` is auxiliary, the references so far. The reference definition is `LruMemory(refs, n)`: the
pages an LRU memory of `n` frames holds after the references `refs`, the memory the algorithm's
paper promises the reduced trace for.

### Interceptor

`pc[p]` is where a process is, `req[p]` the arguments it came with. Taking a spinlock is a step
(`LockPidlist`, `LockCalltable`), and the code up to the release is one step with it: nobody else
can see the protected state in between. Code outside of the locks is cut at every access to shared
state: the lookup of the pid (`CheckArgs`), the second lookup (`CheckOwner`), the call of `f` after
the release (`CallOriginal`). RELEASE takes the second lock while it holds the first (`Release`,
`Restore`), `interceptor` takes both (`Log`).

The list is a bag of pids, `my_list[p]` copies of `p`: every loop of the code only searches it. A
failing `kmalloc` is a choice in `StartedOne`. A null pointer (a list that was never initialised, a
pid that is gone) is `Oops`: the process stays where it is and keeps its locks. The source still
holds merge conflict markers (interceptor.c:414-461); the two sides differ only in whether STOP for
all pids passes the check for a listed pid, which is the constant `StopAllUnlisted`. The test at
line 378 is always true, so all four commands check the pid. Not modelled: the log message, the
write protection of the call table (always set back under the same lock), commands with bad numbers
(they return at once), and system calls that are not intercepted.

### TestFull

`Script` is what test_full does, line by line, including the three times it starts itself as another
user and waits. `Begin` makes the call of the line that is up, `Continue` is whoever runs the line
going on in the module, and the line ends when the call has returned (`LinePasses` is the `test`
macro) or the guest has gone. `Result` is what `my_syscall` returns, by the place it returns from;
`Interceptor` does not carry results, since nothing in the module depends on them. `Meanwhile` is
the rest of the machine: `Bystanders`, processes of users who are neither root nor nobody, which
issue any commands, make any calls and exit, and init, which makes calls. Left out: six lines whose numbers `my_syscall` refuses at once,
and `find_log`'s search in the kernel's log, for which `Logged` stands (interceptor.c:303-307).

### Ext2

The commands are run one after the other on one image, as a user does; two at once are not modelled
(nothing in the code is meant for that). A command is cut where it looks for a free block, since it
may end there: the search for the name and the inode (`Mkdir`, `Copy`), the entry in the parent
(`EnterInNewBlock`, `EnterInOldBlock`), the directory's or the file's own blocks (`MakeDirectory`,
`CopyFile`). `NoFreeBlock` is the early end. `Rm` is one step. `Refused` is any command that leaves
the image alone, including the searches that never end and the names that are not found.

The state is the two bitmaps, the free counts (superblock and group descriptor always change
together), the inode table and the content of the blocks. Blocks are named by their place on the
disk. In ext2 bit `i` of the bitmap is block `i + 1`; the commands mean block `i` when they write
and when they fill `i_block`, but `unset_block_bitmap` of an `i_block` clears bit `i - 1`, and
`is_block_free` looks at it. Most of what the properties are about comes from this.

A directory block is the set of its entries and whether they go up to its end (`whole`); a block
that a command starts has its one entry followed by zeros. `nul` says whether a zero byte happens to
follow the name, which decides if `strcmp` in rm finds it. `Found` and `Passes` are the two ways to
look a name up, over all direct blocks with `strcmp`, or in the first block for a name that is a
prefix. Three things that bytes decide are choices: whether the byte of `unset_block_bitmap(0)`
(a shift by -1) loses its highest bit, `StrayBit`; whether the two bytes that rm writes in front of
a directory block damage the data there; and whether the entries behind an overwritten one can still
be reached.

The image has one directory in the root, one file in it, and a block for each (an inode's `sized` is
whether `i_size` is 0). `img/onedirectory.img` has this shape: the directory is inode 12, the file inode
15 (`FileIno`), and 13 and 14 are free, so that a file copied into 14 can run into the inode of
`/level1/bfile`. The other images of the repository have another one: no directory (empty, onefile,
deleted), a file of many blocks (largefile), two links to one file (hardlink) or a second level
(twolevel); they are left out. Every place of the two blocks among those that are not `Reserved` is an
initial state. The last reserved block belongs to nobody and the last bit of the bitmap is padding, as
on that image.

rm adds the length of the entry to two bytes that far in front of it, in whatever block that is
(`InFront`). Data may be damaged (`Strayed`). When the entry is in the block of the stray bit, in front
of it is another block of the inode table: `StrayedTable` lets any number of a block, of the inodes such
an entry reaches (`StrayInodes`), become any other, or leaves them all as they are (another field is
hit). No command is run after such a write (`TableIsIntact`); that is a bound of the model. The first
entry of any other block reaches a place in front of it where a listing has nothing.

On the way to a directory only the first block of the directory above is read (`SubDirs`), whole or
not: a block that was started anew still shows its first entry.

No indirect block is ever allocated, so the number of each is 0 and they are all the boot block:
`Indirect` is the list of block numbers that is found there, which every directory with full direct
blocks reads and extends (`NumberAt`) and every large file writes over (`IndirectNumbers`). For the
parts of a file behind its direct blocks, cp also writes the number into `i_block[0]`, `i_block[1]`
and so on, past its end: over the inode's own last fields and then over the next inode. `Overrun` is
what that inode loses, first its size, then its links, then its blocks; the words are counted from
the start of `i_block` (`SizeAt`, `LinksAt`, `InodeWords`).

Bounds: `FileParts` are the sizes of files; a large file does not get the last inode of the table,
behind which other blocks lie, and stops before the next inode's own indirect number; with them
"File size too big" (ext2_cp.c:192) is not reached. Left out: the blocks of lost+found, deeper paths
of the original image, `i_mode`, the value of `i_size`, and, once the block of the stray bit is
written over, what the inodes in that part of the inode table then mean: the commands use those in
front of it (`NumInodes`).

## 3. The runs that pass

| run | instance | shows |
|---|---|---|
| `paging` | 3 pages, 2 frames, 2 slots, all access types, traces up to 7, symmetric pages | all invariants of the memory, the counters, and that an update is only lost in one way |
| `simulator` | 4 pages, 3 frames, 3 slots, stores, traces up to 7, all five policies | what each policy evicts, and that each search ends |
| `swap_bitmap` | words of 3 bits, bitmaps of 0 to 7 bits | the bitmap is the set of used slots |
| `interceptor` | 2 processes with root, load and removal, all commands | locks are released, there is an original to call, counts match; books, lists and flags go wrong in known ways only |
| `interceptor_live` | 2 processes, one without root, INTERCEPT, START and STOP, with fairness | every call returns, but for a death in the owner check |
| `fastslim` | 4 symmetric pages, traces up to 7, -b from -1 to 4, with and without -k | the reduced trace is in order, leaves out hits only, and loses the last batch only |
| `test_full` | the 5 processes of the tests, init and one bystander, 2 system calls | every line passes, nobody who has gone stays listed |
| `ext2` | 11 blocks, 6 inodes, one free in front of the file's, 3 direct blocks, files of 1, 2, 5, 11 and 13 blocks, two names of which one starts with the other, any 4 commands | metadata and new directories stay, counts err in one direction, a file is only lost to its neighbours |

**paging.** With fewer frames than pages and as many slots as frames, every page can be saved,
paged in, evicted again and find the swap file full. The longest history that matters is the loss
below (save, page in, clean eviction, miss), which needs 4 references of two pages; 7 leave room
for a second page to do the same. `MappingConsistent` relates page table and coremap,
`SlotsAreOwned` page table, bitmap and swap file. `CountersBalance` says that what `main` prints is
consistent: a miss either filled a free frame or evicted one page. It holds because PG_ONSWAP is
never set on a resident page; else allocate_frame would count neither a clean nor a dirty eviction.
`OnlyPagedInPagesAreLost` delimits the loss of data of section 4.

**simulator.** Three frames are the least for which the clock's hand has a circle left without the
first frame; seven references are the least for which fifo's index evicts from frame 0 a second
time. All references are stores, since no policy looks at the type of an access; `paging` mixes the
types. `EvictsOldest` is the refinement of `FifoQueue`: the mapping reads the frames from `ind` on,
and it is right only because `allocate_frame` fills the frames upwards before the first eviction.
Four properties say what the policies do where their comments say something else, which is the
run `first_eviction` of section 4: `FirstFrameIsPinned` and `SecondChanceButFirst` (clock.c:24 "sweep
through pages in circular order": after it wraps, the hand goes from the last frame to frame 1), `VictimIsMostRecent`
(lru.c:29 "the accurate LRU algorithm": the list grows at the end victims are taken from) and
`OnlyFirstFrameChanges` (opt.c:20 "the page that will be referenced the furthest in the future":
opt.c:124 links no node but the first).

**swap_bitmap.** Words of three bits give sizes that fill the last word and sizes that leave one or
two bits over; two words and a bit show that the search goes on to the next word. `ImplementsAllocator`
contains the assertion of `bitmap_alloc`: `SlotAllocator` has no step that ends there.

**fastslim.** Four pages in a buffer of one to three entries fill it, empty it and fill it again; a
buffer of four is never full with four pages, and one of 0 or -1 never at all, since the test is for
equality and a size never goes back. `OutputInOrder` is about all batches together: time stamps of
the items that wait, which are sorted with those in the buffer, and the next batch's. `MemoryAgrees`
is the purpose of the reduction, stated where it holds: whenever a batch has been printed, the memory
after the reduced trace is the memory after the whole one, although the marks are never seen (section
4). `LeftOutWouldHit` is the reason. `OnlyLastBatchIsLost` bounds what the end of the input costs.

**interceptor.** One system call is enough, since entries do not interact except in `del_pid`, which
treats each alone. Two processes are enough for every race between two places of the code: both have
root and may issue any command, so that two INTERCEPTs, two STARTs, an INTERCEPT and a RELEASE, a START
and the exit of its pid overlap in every way. What is true whatever they do are invariants. What they
can break is stated as a property of steps: as long as it is right, only the steps that are named make
it wrong.

* `OnlyOvertakingSpoilsBooks`: saved handler, flag and call table of a system call agree (`BooksAgree`,
  which includes that whoever is about to INTERCEPT it still finds what was checked). They come apart by
  an INTERCEPT that was let in beside another, a RELEASE between the halves of an INTERCEPT, and the
  loader (`Overtakes`); by nothing else, however many commands and exits there are.
* `OnlyRacingStartsListTwice`: a pid is in a list once, but for a START let in beside another of it.
* `MonitoringFollowsLists`: the flag fits the list, but for RELEASE, for a START whose kmalloc fails and
  for a STOP whose pid has left the list since the check.
* `OnlyLateStartsListTheGone`: a process on its way out gets into a list only by a START that was let in
  for it before.
* `LocksDieOnlyUnready`: the null pointers of this code (an uninitialised list, a call never saved, a pid
  that has gone) kill a process, but a lock dies only before the lists are initialised, in the last entry
  of the table, or when the code is removed.

None of the exceptions that this run reaches can be left out. The last entry (`NR_syscalls`) and callers without root are not
in this run: its system call is 1 of 2, and the owner check is in `interceptor_live` and `test_full`.
The theorems of section 6 have both.

**interceptor_live.** Without RELEASE the locks are only ever taken in one order. The one way not to come
back is `DiedInOwnerCheck`: the second lookup of a pid that has gone in between, by a caller without root.
It is found without a lock, so whoever else is in the module still returns.

**test_full.** `TestsPass` is test_full's own claim. It is not local: the result of a line depends on
lists, flags and exits of all lines before it, and the bystander uses the same entries; it holds
because only root can change what root's lines look at, and because the owner check leaves a
bystander only pids of its own user, whose listing and unlisting empties no list of others. One
bystander is all that TLC can afford; `TestFullProofs` has any number. `nomem` excuses a START that met a failing `kmalloc`.
`DeadAreNotListed` holds here because a process is only listed by itself or by one that waits for it;
it covers the exits of guests that are still listed (`starter`), of the bystander in the middle of
other commands, and the processes that die when the module is removed. The run has the side of the
merge conflict with which test_full.c:177 can pass (`StopAllUnlisted`); with the other, STOP for all
pids is refused and line 19 of the script fails.

**ext2.** Three bits are clear at the start: one mkdir sets two of them, the next command takes the
last and ends halfway, and rm makes room again (with the stray bit, in the metadata). Four commands
are enough to make a directory, remove the file, make another in what was freed, and one inside it.
With three direct blocks they also fill the directory and get to its indirect block. The five sizes
of a file stay in the direct blocks, reach the indirect block without leaving `i_block`, leave it,
reach the next inode's links and its first block. `CountsOnlyOverstate` says that every way in which counts and
bitmaps come apart (a command that ended halfway, mkdir's second block, unused spots counted by rm)
makes the counts too high. `MetadataIsIntact` and `DirectoriesStay` say what the confusion of block
numbers, and of indirect blocks, cannot do. Of the metadata two blocks of the inode table are written
over: that of the stray bit, once a command has been given it, and the one in front of it, when rm then
removes an entry there; both after the image's own file has lost its link. So the stray bit is 2 and
not 1 in the run, and the free inode in front of the file's lets a copied file take that link without
any rm. A directory of mkdir keeps its inode's bit, its blocks and its entry; its inode loses the
block's number to a file too large for the inode in front of it (`IsOverrun`) or to rm's write into the
inode table. `OnlyNeighboursAreLost` says in which two ways
a file is lost that nobody removed.

CHECK_DEADLOCK is FALSE where RELEASE is among the commands, or a process may die with a lock
(initialisation): there the system really can stop, which is the run `interceptor_deadlock`.
`Stopped` and `Idle` are the states after the program or every process has ended.

## 4. The runs that find a disagreement

| run | property | what happens |
|---|---|---|
| `first_eviction` | `OnePolicyIsAsDescribed` | on the trace a b c d with three frames lru evicts the page used last, clock the one of frame 1 without coming round to frame 0, and opt the one that is referenced next: each of the three against its own comment |
| `paging_lost` | `VersionsNeverGoBack` | a page is saved, paged in (PG_ONSWAP is wiped), evicted clean (PG_ONSWAP is not set again), and zero-filled at the next reference although its slot holds the data |
| `interceptor_deadlock` | `EveryCallReturns` | RELEASE holds `pidlist_lock` and waits for `calltable_lock`, an intercepted call the other way round |
| `ext2_overwritten` | `OriginalFilesSurvive` | the block handed out for a clear bit is the one in front of it, here that of a file in use |

`OnePolicyIsAsDescribed` is what the three comments claim in its weakest form, that on every trace one of
them at least keeps its word (`LruIsAccurate`, `ClockIsCircular`, `OptIsFurthest`), so one trace that
violates it refutes all three; a policy that is mended alone makes it hold. It is stated of the first
eviction, before which nothing the policies do has differed. `simulator` says what they do at every one.

Each finding quotes, in `PROJECT.json`, the line that says otherwise. Further disagreements that the models
contain and no run is spent on:

* interceptor: two INTERCEPTs of one call can both pass the check for -EBUSY, and the second saves
  the interceptor as the original; in the same gap two STARTs list a pid twice; an INTERCEPT racing a
  RELEASE leaves `intercepted` wrong; a caller that STARTs another process while that exits lists a pid
  that has gone. RELEASE leaves the list behind, so that START answers -EBUSY for a pid nobody monitors,
  and a START without memory leaves a call monitored for nobody (the exceptions of the properties of
  `interceptor`, all of which happen in that run). START for all pids sets `monitored` to 2 and
  `destroy_list` sets it back to 0. The entry of NR_syscalls is never initialised. The owner check
  follows a null pointer when the pid has exited.
* simulator: with a single frame the clock's hand leaves frame 0 and is set to 1 for ever
  (`simulator` has three frames).
* fastslim.py: the mark is set on the new item, which is dropped, so no item of the buffer is ever
  marked and `emit_marked_in_ts_order` adds nothing to the list (lines 38-43 say it does). Marked
  items would be printed a second time, with their last time stamp; without them the reduced trace,
  run through an LRU memory, can have more or fewer misses than the whole one inside a batch (A B A C
  B with two frames). A store to a page in the buffer is dropped, and with it that the page is dirty.
  The last batch is never printed, and with -b 0 or less nothing is.
* ext2: cp puts every part of a file into the same block; rm clears bits for blocks the file does not
  have, leaves the entry in place, and takes the link count of a file that cp made from 0 to 65535;
  blocks that mkdir and cp start end in zeros, and a search that goes past their first entry, in rm
  or ls, never ends.

## 5. Fairness

* `SimSpec`: weak fairness of the steps of `evict_fcn` and what follows it. They are ordinary
  function calls of a single thread. The next trace line and the end of the trace are not assumed.
* `FairSpec`: a process inside the module keeps running (weak fairness of `Run`), and each process
  that spins for a lock gets it if it is free again and again (strong fairness of the two lock
  actions). The spinlocks of the kernel are at least that fair under preemption; no fairness is
  assumed of entering the module, of exits, or of the loader. The deadlock of section 4 needs no
  unfairness.

## 6. What is proved

The assumptions are those named in the modules: `NoPage`, `Loader` and so on are not elements of the
sets they stand beside, `MemSize` is at least 1, sizes are natural numbers. The theorems hold for any
number of pages, frames, slots, processes, system calls, blocks and inodes.

**PagingProofs.** `TypeOK`, `MappingConsistent`, `ServingMiss`, `FrameHoldsItsPage`,
`SlotsAreOwned`, `OnSwapIsOut`, `CleanNeedsNoWrite`, `CountersBalance` are invariants and
`OnlyPagedInPagesAreLost` holds of every step. None is inductive alone: that a frame holds its page
needs that the slot it is read from was written by that page, which needs that slots are not shared,
which needs that a page in memory has no PG_ONSWAP. Their conjunction about memory is `MemoryInv`, an
operator of the five tables, so that an eviction can be proved as two steps, each preserving it: the
victim leaves (`LeaveClean`, `LeaveDirty`) and the page is loaded into a frame that is now free
(`Load`), as in `MissFree`. `LossIsFromPagedIn` then compares the version of every page before and
after each step. `CountersAreBalanced` adds that the number of frames in use is the number of misses
that evicted nothing (`FS_AddElement`, `FS_RemoveElement` of the library's finite sets).

**SimulatorProofs.** First fifo by itself: `ind` is always a frame, so `FifoSpec` implements `Spec`
of `Paging` and inherits all of the above (`FifoIsPaging`). Then the program with its five policies. It is not an implementation of `Paging`: in
the step in which `lru_ref` faults the page has been loaded but the reference is never counted
(`LruFault`). So the invariants are proved again for its steps, each of which is a step of
`Paging`, a step that leaves the memory alone, or that fault. On top of them:

* lru: the victim is the page used last, because the node of the last reference is linked behind
  `bottom` and becomes it (`VictimIsMostRecent`, with the types of the list's two ends).
* opt: its list is used up after the first reference, so at every eviction all frames seem unused
  and the search stops at frame 0 (`OnlyFirstFrameChanges`).
* clock: `ReferencedAreResident`; `FirstFrameIsPinned` needs that a hand at 0 means a first sweep in
  which every page in memory is still referenced; `SecondChanceButFirst` needs `SweepInv`, which
  says of every frame, by the side of the hand it is on, whether its bit is as it was when the
  search began.
* fifo: `FifoImplementsQueue`, the refinement of `FifoQueue`. The frames fill upwards while `ind` is
  0 (`FifoOrder`), after which the sequence that is read from `ind` on, modulo `MemSize`, loses its
  first page and gains one at its end with every eviction (`RoundTheFrames`).

**SwapBitmapProofs.** `TypeOK`, that the assertion of `bitmap_alloc` never fails, and the refinement
`ImplementsAllocator`, for words and bitmaps of any size. The invariant is `LeftoverIsSet`: the bits
of the last word past `nbits` are set, which `bitmap_create` does exactly (`CreatedIsEmpty`) and a
`bitmap_unmark` inside the bitmap cannot undo. The rest is arithmetic: `bitmap_translate` is the inverse of
word times width plus position (`Translate`), later words hold later slots, and there are enough
words. That the first open word and its lowest clear bit exist is the well-foundedness of the
natural numbers (`LeastExists` in `LeastNumber`).

**InterceptorProofs.** `TypeOK`, `LocksAreReleased`, `InterceptorCanForward`. Two strengthenings are
needed. `RequestsOK`: a process carries a valid system call wherever it uses one. `Saved`: an
original has been saved not only for calls that lead to the interceptor, but for those flagged as
intercepted and for those a process is about to release or restore; without the flag, the check for
-EINVAL in RELEASE would give nothing. About the lists:

* `ListCountMatches` (`ListsAreCounted`). A list is the set of its nodes, pairs of a pid and a place
  among the nodes of that pid (`Nodes`), so that adding one and dropping some of a pid changes the
  cardinality by as many. The strengthening `Counted` says that the set is finite and that no pid has
  a negative number of nodes: each function takes out only what it found.
* `MonitoringFollowsLists` (`MonitoringAlwaysFollowsLists`). It rests on the count: the flag goes when the
  count reaches 0, which is when the list is empty (`CountZero`, `CountPositive`), so that the two
  halves, `Watched` and `Busy`, hold of what each function makes of an entry.
* `DeadAreNotListed` fails in general. `OnlyLateStartsListTheDead` says when it holds: if no START that was
  let in for a process acts after that has gone (`NoLateStart`, a condition on behaviours, which the tests
  satisfy); `TheGoneAreListedLateOnly` says of every step that nothing else lists such a process. For both
  a list that was not initialised has to be empty (`Untouched`; the last entry is not visited by `del_pid`),
  and nobody may be about to START in one (`StartsAreReady`).
* `OnlyRacingStartsListTwice` (`PidsAreListedTwiceByRacesOnly`): a pid gets into a list by its START only
  (`OnlyStartAdds`), and whoever comes to a START has just seen that it is not there (`LetIn`).

About the books, `BooksAreSpoiledByOvertakingOnly`: only `Intercept`, `Hijack`, `Release` and `Restore` write
them (`BooksKept`), and each leaves them right if nobody else is between its check and its last step
(`WritersAgree`), for which `RestoreHolds` is needed, that a RELEASE keeps `pidlist_lock` until it is
done. `LocksOnlyDieUnready` is the invariant `DiedUnready` and that nobody is in the module before its two
calls are in the call table (`Unentered`). It has no condition on callers, system calls or owners: the
owner check follows its null pointer without a lock, and in `LocksDieOnlyUnready` the last entry is an
exception because its theorem covers it.

**TestFullProofs.** The tests run the module (`TestsUseTheModule`: every step is one of `Spec`, or
leaves its variables alone), so all of the above holds of them. On top:

* `TestsPass` (`TestsAlwaysPass`), for any number of bystanders, who may share users among themselves,
  and any owners that satisfy `UsersAssumption`. It assumes `StopAllUnlisted = TRUE`, without which
  line 19 fails. The invariant is `TestInv`: as long as the module is loaded and no `kmalloc` of the
  script has failed, `LineInv` holds of the line that runs. `OnLine`: whoever runs it is at a place
  from which the expected result can still come (`OnTheWay`), with the arguments of the line.
  `Patient`: the other processes of the tests have not started or have gone. `Machine`: init is in
  an ordinary call, and no bystander gets past the check for root, or past the owner check with a
  pid that is not of its user. `Books`: what the lines so far have left in the table (the flag of
  each call, which of the tests' pids is listed, that nobody monitors all pids). Every step is
  by the owner of the line (`BeginStep`, `ContinueStep`), by the machine around it
  (`MeanwhileStep`), or takes a lock. The first kind moves along the line, and its end is a matter of
  the script: one lemma per check that can end it (`ArgsStep`, `OwnerStep`, `ContextStep`, then
  `FlagOutcome`, `ListOutcome`) compares `Result` with the expected status, and `NextLine` hands the
  books to the next line. The second kind changes the lists at the pids of bystanders
  only (`RunGently`), and monitoring stops with the last pid of a list, so that a STOP of theirs
  cannot end that of init in lines 21 to 23 (`Watched`, which rests on `ListsAreCounted`). The script is used through its columns (`WhoColumn`, `PidColumn`, `StatusColumn`, ...).
* `DeadAreNotListed` (`TestsLeaveNoPids`), for any number of bystanders of different users and either
  side of the merge: every START that is let in is for all pids, for init, or for the caller itself
  (`StartPids`), and init does not exit, so `OnlyLateStartsListTheDead` applies. With two bystanders of
  one user it is false: one can START the other while that exits.

**FastSlimProofs.** All five properties, for any trace, buffer size and set of pages. The invariant
`IInv` has three parts besides the types. `Lists`: the waiting items are the items of the buffer, and none
is marked, so that sorting a batch changes nothing (`EmissionIsToprint`). `Kept`: printed and waiting
items together are in the order of the references they stand for. `Batch`: the buffer holds exactly
the pages used since it was last emptied (`Recent`). The memory follows from two facts about
`LruMemory`: the pages used recently are in it as long as they are not more than its frames
(`RecentStays`), and once they are as many nothing else is (`OthersAreGone`), so at the end of a batch it
does not matter what came before. `Emission` is stated with `Sorted`, a choice by what sorting means,
so that it can be reasoned about; items of one time stamp cannot occur.

**Ext2Proofs.** For images of any size, any names and files of any number of blocks up to the bound
on `FileParts`.

* `TypeOK` and `CountsOnlyOverstate`, for any number of commands. Between its two steps a command has
  set the bit of one block, and cp that of its inode, which it has not yet taken off the free count
  (`Counts`); mkdir takes an inode off that nothing has marked in between (`Inodes`). rm gives back at
  most `Direct` bits, one for each spot, the stray one included (`FewerThanReleased`).
* `MetadataIsIntact`, `DirectoriesStay`, `OnlyNeighboursAreLost`, for fewer commands than `MaxLinks`
  (`FewCommands`): the link count of a copied file starts at 0 and wraps, and after 65536 removals
  its inode and its blocks would be freed, the stray bit and a neighbour's bit with them. Until then
  only the image's own file ever loses its last link (`OwnFile`), which is why a bit that is neither
  `StrayBit` nor in front of that file's block never is cleared once it is set (`Kept`), and a block is
  only written while its bit is clear. The inodes behind the first are taken in order, but for the
  file's own (`InOrder`), so that a directory behind it is only made when those in front are in use
  (`Settled`); this leaves one file whose overrun can reach a directory, the one that takes the inode of
  the image's file when that was lost, which is the exception `IsOverrun` in `DirectoriesStay`.
* The states after rm has written into the inode table satisfy none of this, and no command runs in
  them. So each invariant is a disjunction, of what holds while commands run (`CountInv`, `StayInv`) and
  of the properties themselves in a state that stays (`Halted`, `HaltedStay`). That such a write hits the
  block in front of the stray bit's and no other is part of `StayInv`: of the blocks behind the metadata
  none is handed out but the stray bit's.

## 7. What is only model-checked

* Liveness (`SearchEnds`, `EveryCallReturns`): out of the prover's reach.

All other properties of the passing runs are theorems too. The theorem of `LocksDieOnlyUnready` goes further
than its run, in which all callers have root and none uses the last entry. What three of those of `Ext2` leave open,
as many commands as it takes a link count to wrap, is out of TLC's reach as well.

## 8. Not modelled, and the plan

Not modelled: the trace programs, which are run to get example traces; `test_intercept.c`, whose two
commands are among those of `Interceptor`; `ext2_ls`, which reads and prints; `ext2_ln`, which the
Makefile does not build and which is unfinished; the splitting of paths in `helper.c`; two commands on
one image at once. A process that a signal kills never calls exit_group, and its pid stays listed;
`Interceptor` has no such step, since the code does not handle it. `memsize` 0 ends the simulator at its
first reference.

The order was: the memory of the simulator first, since every policy builds on it; then the
policies; then the interceptor, the only concurrent part; then the commands of the image. Next:

1. An abstract specification of the image (blocks with one owner), which the commands implement as
   long as no bit beside a used block is clear.
2. A proof that the steps of the commands are those of that specification.
