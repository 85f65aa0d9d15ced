# TLA+ verification of issd

issd offloads file operations to the controller of an SSD (the OpenSSD Jasmine
board). A client library passes requests through shared memory to a server on the
host; the server turns a request into a command that lists the sectors of the
files and sends it to the SSD in the data of ATA WRITE BUFFER commands; the
firmware of the SSD copies the sectors itself and sets a flag that the server polls
with READ BUFFER. `PCModule2/` is the host side of version 0.2, to which the
firmware in `OpenSSD-1.1.0/` belongs; `PCModule/` is the host side of version 0.1.

The modules here model that path from `sendReqPacket` down to the pages of the
NAND flash. TLC checks them on small instances; TLAPS proves, for every value of the
constants, the request queue, the dispatch, the transport to one disk, the construction
of a command with the copy that it asks for, the SATA command core, what the tutorial FTL
stores and returns, and the whole of the greedy FTL.

## 1. The system

| Component | State | Operations | Interacts with |
|---|---|---|---|
| Client library (`PCModule2/client`) | sequence number, FIFO per thread | `issd_compute_init`, `issd_compute`, `sendReqPacket`, `issd_compute_destroy` | request queue, server (answer on a named FIFO) |
| Request queue in shared memory | ring, two indices, four semaphores | `sendReqPacket`, `getNextReqPacket`, `createRQueue` | any number of client processes, one server thread |
| Dispatch and routines (`reqPRoutine.c`, `reqQueue.c`, `issd_server_main.c`) | device map with refresh timer, a work queue per thread | `dispatchReqPacket`, `getProcessRoutineIdx`, `addReqWork2Routine`, `thread_routine`, `issd_feedback` | queue, clients, transport |
| Command construction (`issd_compute.c`) | the command: sizes, extents | `issd_createCmd`, `getLbaExts`, `extractBlocks`, `postProcess` | file system, transport |
| Transport (`sataCom.c`, `sata_cmd.c`, `sata_main.c`, `sata_isr.c`) | packet counters, slow-command slot, command buffers | `sata_writeBuffer`, `sata_readBuffer`, `ata_write_buffer`, `ata_read_buffer`, `Main`, the interrupt handler | kernel (timeouts), `issd_process_cmd` |
| Device computation (`issd.c`) | position in the two extent lists, computing buffer | `do_issd_backup` | FTL (`issd_read_sectors`, `issd_write_sectors`) |
| Tutorial FTL (`ftl_tutorial`) | page map, next free row of each bank, buffer numbers | `ftl_read`, `ftl_write`, `issd_read_sectors`, `issd_write_sectors` | flash controller, SATA buffers |
| Flash controller access (`target_spw/flash*.c`) | Waiting Room, bank states | `flash_issue_cmd`, `flash_finish` | FTLs, hardware |
| SATA command core (`sata/`) | event queue, the transfer kept when it is full, slow-command slot | `fiq_handler`, `handle_got_cfis`, `handle_srst`, `eventq_get`, `Main`, `sata_reset` | host, SATA hardware, FTLs |
| Greedy FTL (`ftl_greedy`) | page map, valid counts, list of each block, free block | `ftl_read`, `ftl_write`, `garbage_collection`, `ftl_flush`, `ftl_open` | flash controller |
| DAC FTL (`ftl_dac`) | as greedy, and a write position, count and list for each region, ages of blocks | the same, `load_metadata` | flash controller |
| FASTer FTL (`ftl_faster`) | block maps of data, log, isolation and free blocks, hash table of log pages, two bitmaps | the same, `switch_merge`, `partial_merge`, `full_merge` | flash controller, hash table |
| Hash table (`target_spw/shashtbl.c`) | buckets, chains of nodes and a pool of free nodes for each bank | get, insert, update, remove | FASTer FTL |
| Installer, test case generator, start-up, UART, identify data | | | |

What is hard about it: client processes, server threads, the interrupt handler,
the banks of the flash and the SATA buffer hardware all run concurrently; clients
die in the middle of the protocol; SATA commands are dropped and time out without
the code noticing; rings, maps, buffers and the flash itself run full; and the
arithmetic over blocks, sectors, pages and bytes has a boundary at every turn.
The list `hazards` of `PROJECT.json` names each of these at its line.

What makes each component correct:

* queue: each packet once, in order, never overwritten, and no client stuck;
* dispatch: one routine per disk, no lost wakeup, every caller answered;
* construction: the extents are the sectors of the files, in order;
* transport: the device works on the command that was sent, and `isOK` is true
  only of a command that was carried out;
* computation: the output is the input, nothing else is written, no buffer
  overrun, an end;
* SATA core: the FTL sees the commands of the host in the order in which they were
  sent, with the right length, and each command is answered;
* FTL: a read returns what was written last, no page is programmed twice, bad
  blocks are not used, no call hangs; the tables that garbage collection goes by
  agree with the flash, and it always has a block to go on with.

## 2. Modules

| Module | Models | |
|---|---|---|
| `BoundedFifo` | what the request queue promises | abstract |
| `ReqQueue` | the shared-memory queue; one action per semaphore operation and per shared assignment, clients killed between any two | implements `BoundedFifo` |
| `ReqQueueProofs`, `ReqRoutinesProofs`, `AfTransportProofs`, `SataCoreProofs`, `BackupProofs`, `TutorialFtlProofs`, `GreedyFtlProofs` | theorems about the module of that name (section 4) | |
| `NumberLemmas` | division, rings, sums and ranks of numbers, for the proofs | |
| `ReqRoutines`, `MCReqRoutines` | main loop, device map and timer, routine threads, answers over FIFOs | on top of `BoundedFifo` |
| `AfTransport` | packets and polling between a routine and the firmware | uses the one-routine-per-disk promise of `ReqRoutines` |
| `Backup` | command construction and `do_issd_backup` | the disk is a function from sectors to contents, which `TutorialFtl` justifies |
| `FlashCtrl` | Waiting Room, banks and DRAM buffers | extended by the FTL |
| `TutorialFtl`, `MCTutorialFtl` | the tutorial FTL with the SATA buffers | |
| `GreedyFtl`, `MCGreedyFtl` | the page-mapping FTL with garbage collection | commands take effect when issued |
| `DacFtl`, `MCDacFtl` | the page-mapping FTL with hot and cold regions, with power cycles | commands take effect when issued |
| `FasterFtl`, `MCFasterFtl` | one bank of the FTL with log blocks, and the hash table it uses | commands take effect when issued |
| `SataCore` | interrupt handler, event queue, transfers, `Main` | calls the FTL; below `AfTransport`, which looks into one slow command |

### ReqQueue
`full`, `empty`, `mutex_producer`, `mutex_consumer`, `pWrIdx`, `pRdIdx` and
`shared_buffer` are the variables of the same names in the shared memory. `pc` and
`spc` say between which two statements of `sendReqPacket` and `getNextReqPacket`
each client and the server are. A packet is its sender and a number. `sent` and
`got` are history. `Kill` is a client process that dies: POSIX semaphores are not
robust, so nothing is undone.

### ReqRoutines
The device map `dev2thd`, `timer_expired`, the work queues and the feedback are
those of `reqPRoutine.c`. What a critical section under `queue_lock` does is one
action; `pthread_cond_wait` is the place `"wait"`, left by a signal or spuriously.
`realDev` is the conversion of `/dev/sdb1` to `sdb`: the code cuts off one digit,
so a partition number is divided by ten. `open(O_WRONLY)` on a FIFO blocks until
the client reads; a write to a reader that died is SIGPIPE, which ends the server.
A map without a free entry gives index -1, which `dispatchReqPacket` uses without
looking: the place `"undefined"`. `asked` is history: for each lookup, how often the map had
been refreshed. `Results` is what the commands to the device may come to.

### AfTransport
`host` is a routine in `sata_writeBuffer` or `issd_waitFinish`, `port` the slow
command on the way to the device, `dev` the firmware with its packet counters and
its buffers. A packet keeps its command and its number; what the code reads of a
packet that is not a header is any value (`FirstWords`). The kernel (external)
sends one such command at a time and gives it up after 12 seconds; SG_IO returns 0
all the same.

### Backup
`files` are the input files and the output, each a list of blocks and a size.
`GetSize`, `ExtractBlocks` and `PostProcess` are the three places of `getLbaExts`
at which the size is taken, and `Append0` is another process that appends between
them. `Extents` is `postProcess`: an extent for each run of consecutive blocks.
`ReadChunk` and `WriteExtent` are one turn each of the two loops of
`do_issd_backup`. Each sector of the disk starts out holding its own number.

### FlashCtrl and TutorialFtl
A flash command is issued into the Waiting Room, accepted by its bank when that is
idle, and its data moves at some moment before the bank is idle again. Host data
arrives in the circular write buffers at its own pace, and the host takes read data
out at its own pace. `op` is the call that `Main` executes and where it is; `latest`
is history. `is_bad_block` searches as the code does, one halfword too early.

### GreedyFtl
`page_map`, `vcount` and `g_misc_meta` are the metadata of the code. `nand` holds for
each page data, a list of logical pages, a part of the logged page map, or nothing; a
page programmed twice is `Clobbered`. `NextPage`, `NextBlock` and `garbage_collection`
are the three ways through `assign_new_write_vpn`: each gives the state of the bank
that `write_page` goes on with, and whether the ASSERTs on the way hold. An ASSERT that
fails stops the firmware (`failed`); the next start is `ftl_open`, which formats. The
loop of `garbage_collection` is stated as a whole: `ValidPages` are copied in order,
which is what the loop does since the map of a logical page that it has moved points
outside the victim. The commands of a bank execute in order and metadata is written
after `flash_finish`, so the model has no commands under way: those are in `FlashCtrl`.
`Init` is the state after the first start, on an erased flash. `ftl_open` finds the flash
of the session before: `format` erases and logs in every good block but block 0, and
`write_format_mark` programs its page of block 0 of bank 0. The rest of block 0, firmware
and scan list, is not modelled.

### DacFtl
The state of a bank is one record that the functions of the code pass on; its field
`fail` is the first thing on the way that stops the firmware; `garbage_collection`,
`Victim` and `write_page` are operators of that record. Bad blocks come from the list of
install.exe, `scan_list`, and from the erasures that fail in `format`, `erase_failed`. The
valid count of the block that a region writes is in SRAM (`vcount_of_active`), that of the
others in DRAM (`vcount`, with the marks `VC_FREE`, `VC_MAX`, `VC_ACTIVE`). `ftl_flush` logs the tables in pages of the map blocks of all
banks; after `PowerOff`, `load_metadata` computes their place as `load_dram_metadata_from_mapblk`
does, so that what it reads is what the flash holds there. The power cycle is the normal
one: the host flushes and then cuts the power.

### FasterFtl
One bank; the banks share nothing but the numbering of the pages. `data_bmt`, `log_bmt`,
`isol_bmt` and `free_bmt` are the block maps, `shashtbl` the hash table as the function
that it implements, `vc_bitmap` and `sc_bitmap` the bitmaps of invalid data pages and of
second chances. The four cases of
`prepare_to_new_write` are an action each; `write_to_log_block` writes the page with the
merges that it calls, and ends with the progressive merge. An ASSERT that fails, and a
collection that does not end, are values of `fail`.

### SataCore
`eq`, `eq_full`, `slow_cmd`, `srst` and `flags` (`g_sata_action_flags` with the transfer
registers) are those of the code; `hw` is the transfer of the hardware, one unit of data
per command. The interrupt handler is atomic between two steps of `Main`; `eventq_get`
runs with the interrupt disabled. `NoEvent` and `TakeSlow` are the two looks of `Main`,
between which commands come. `todo` is what the host has sent and the FTL has not been
told, in the words of the ATA standard (`Meant`), against which the decoding of
`handle_got_cfis` and the 16 bits of the event queue are held. Addresses and the sum of
the range check are kept modulo `UINT32`; `Wraps` is the request that passes the check
for that reason.

## 3. Runs

| Run | Result | Shows |
|---|---|---|
| `reqqueue` | pass | mutual exclusion at the ring, conservation of the semaphore tokens, `RingHoldsWaiting`, refinement of `BoundedFifo`; every stored packet is loaded unless a client died inside `sendReqPacket` |
| `routines` | pass | no lost wakeup; every call is answered unless a dead client blocks the thread in front of it or kills the server by SIGPIPE |
| `routines_map` | pass | with a timer that expires while requests are queued and running: at most one map entry per device; a device with work keeps its entry, and its requests are computed one at a time and in order, unless it was not asked for between two refreshes; index -1 only when there are more devices than entries |
| `transport` | pass | while no WRITE BUFFER was lost, only whole commands are executed, success is true, and the wait ends unless the device gave up silently |
| `transport_dropped` | violation | a WRITE BUFFER that comes before `Main` has cleared its slot is dropped, and a command is reported as done that was not |
| `backup` | pass | extents exact, copy exact, nothing else written, chunks inside the buffer, the firmware's ASSERT, an end |
| `tutorial` | pass | flash and read buffers hold what was written last, a page without data reads as 0xFF, no page is programmed twice, bad blocks skipped but the last listed, no call hangs |
| `greedy` | pass | through collections, flushes and restarts: reads return what was written last, lists and valid counts are exact, logs wrap without a page programmed twice, only the format mark is programmed again, at each start after the first, collection starts in time, and an ASSERT fails in one situation only: the first page of the first block of a bank other than 0 is never written, its list entry 0 stands for logical page 0, and that page is in bank 0 at the same number |
| `dac` | pass | through promotion, demotion, collection, a flush and a power cycle: reads return what was written last, no page is programmed twice, a block that is erased unread holds no valid page, and the firmware stops in one situation only |
| `dac_flush` | violation | a flush writes past the end of a map block: with two banks the room it asks for is 0 pages |
| `faster` | pass | through every kind of merge, second chances and isolation: reads return what was written last, the index, the lists and the block maps agree with the flash, no block is lost or used twice, and the firmware stops in two situations only |
| `sata` | pass | the FTL is called in the order of the host with the addresses and counts it meant, for requests on the disk and those whose end wraps at 32 bits, the transfer that runs or is kept is that of the outstanding command, and every command or reset is answered |

Every property of a passing run has a mutant in `PROJECT.json`, an operator with a
plausible mistake under which TLC finds the property violated.

### Bounds
* `reqqueue`: three clients with two requests each on a ring of two slots: the
  ring wraps three times, is full with clients waiting, and one client is killed at
  every possible place. The proofs remove the bounds.
* `routines`: three requests for two disks and two routines: two requests meet at
  one routine while the other works, and one client dies. The timer is left to the
  run that follows.
* `routines_map`: five devices on a map of four entries, two routines, five requests and two
  expiries. Five devices fill the map; two refreshes free an entry, another disk takes it,
  and the first disk comes back at the other routine while its work is queued: without the
  exception `Lapsed` the run finds just that. Commands succeed and nobody dies here, which
  map and order do not depend on; with one partition for each disk, since the map sees
  devices only. The theorem `SerialService` is for any partitions.
* `transport`: commands of one and of two packets, three in a row, so that one
  finds what two earlier ones left in the counters and in the buffers.
* `backup`: files of up to three blocks of two sectors of two bytes, on a partition
  that does not begin at a page boundary, and pages of four sectors with a buffer of
  one page: extents begin and end inside pages, a chunk ends inside an extent of
  either list, sizes end inside a sector and inside a block. Inputs of four blocks are
  too long for the block list. Merges have two input blocks in all, without holes.
* `tutorial`: two banks, pages of three sectors, two logical pages, four calls: each
  page is written over partly with a hole on the left, the right or both; more
  write buffers than banks, as on the board. With as many buffers as banks, old data
  can be read into a buffer that is not yet programmed: the assumption
  `BufferCounts` states what the code relies on.

* `greedy`: two banks, blocks of three pages and the list, two blocks for data and the
  free one. Bank 0 has two logical pages, so that a victim may have none or one valid
  page and victims tie; bank 1 has one, whose first block is collected. The number of
  writes, collections, flushes and restarts is not bounded. The FTL only moves data:
  page 2 is written in halves, and the mark is in page 0 or in the right half of page 2,
  which shows a half that is lost or old. The page of the format mark is in the middle of
  block 0. A bad block is where the map, another where user data would be.
* `dac`: two regions and two banks of ten vblocks, five of them for the user in bank 0,
  four pages to a block. The workload first fills bank 0 and then mixes writes to hot
  pages and rare ones to cold pages until blocks of both regions have been collected;
  fourteen writes in all, one to bank 1, and one flush after that of the format, at any
  place, followed or not by a power cycle. `dac_flush` has more flushes and hardly a write.
* `faster`: bank 1 of two, nineteen vblocks with a bad one: three data blocks, five
  isolation blocks, four pages to a block. The 29 commands of the workload fill and switch
  the sequential log, merge it partly, run the random log round its ring until pages have
  had their second chance and are isolated, and fold them in full and progressive merges;
  at each place the host may choose among several writes.
* `sata`: commands of each class and form, counts of 0, 1 and 2, which wrap at 2 (28-bit
  commands) and at 3 (48-bit); requests that end on the last sector and one after it;
  addresses of 4 bits for the 32 of the code, with one that needs more and with which the
  sum of the range check wraps for two counts and for one does not. The event queue is full
  at two entries and the write buffer holds two commands. Nothing counts commands: the
  state space is closed.

### Fairness
Weak fairness of each client thread and of the server's threads (the scheduler of
the host runs what is runnable), of the firmware's loop, of its interrupt, of the
kernel's timer and of each bank of the flash. The routines of several disks share
the port of `DEVICE_NAME`: strong fairness, as the kernel serves its queue in turn.
In `sata`, of each transfer and of the host's error handler; that a slow command waits
only for an event queue that drains follows from a host with one command outstanding.
Nothing makes a client send, an append happen, a kill or a failure happen.

## 4. Proofs

The theorems hold for every value of the constants: number of clients, disks, routines,
banks, pages, sectors and buffers, capacity of queues and maps, and every workload. What
they assume of the constants are the `ASSUME`s of the modules, which TLC evaluates in
each run, and the hypothesis `OneDisk`, which stands in the theorems concerned. Each invariant was
checked by TLC on the instance of its run before it was proved. There is one lemma per
action, mostly in two layers: what the action does, and what that leaves true.

`NumberLemmas`: two different numbers less than `N` apart differ modulo `N`
(`SlotsDiffer`), and the index of a ring advances as its history does (`NextSlot`); both
come from the division lemma `DivMod`. The FTL's addresses (bank and row of a physical
page, page and sector of a logical address) and the sectors of a file rest on it as well.
`CountBelow` ranks a finite set of numbers: the places where extents begin, and the pages
that a collection copies.

### ReqQueueProofs
`TypeCorrect`, `MutualExclusion`, `TokenConservation`, `RingCorrect` are the invariants of
the run `reqqueue`; `Refinement` is `Spec => FifoSpec`: the semaphores, indices and ring
implement `BoundedFifo` with the packets stored and loaded as its `sent` and `got`. A store
is a `Send`, a load a `Receive`, every other step stutters. The inductive invariant is
`TypeOK /\ ProducerMutex /\ TokensConserved /\ RingHoldsWaiting`. None of the four is
inductive alone: that a store overwrites nothing (`RingHoldsWaiting`) needs that its
client holds the lock (`ProducerMutex`) and that one of the slots is reserved for it
(`TokensConserved`), whence fewer than `shm_num_items` packets wait. Assumed: finitely
many clients, and a ring with a slot.

### ReqRoutinesProofs
`WakeupsArrive` (a routine that sleeps has no work or its signal is under way),
`MapCorrect` (no device has two entries, and none with work loses its entry before it has
lapsed), `RoutineFound` (index -1 only after more devices than entries were asked for)
and `SerialService` (`SerialPerDisk`), for any number of expiries of the timer. To the
properties themselves the invariant adds
that requests are numbered in the order in which they are received and each routine's
queue is in that order (`Numbered`, `WorkInOrder`); that the entries in use belong to
devices that were asked for, which gives a full map by counting (`MapOfAsked`); that the
refreshes counted at each lookup never become fewer (`AskedInOrder`); that the entry of a
device with work is flagged once the device was looked up since the last refresh, so that
the next refresh keeps it (`EntryKept`); and that new work of a device joins the old at its
routine (`Together`). The exception of the last two, and of the two properties, is what the
code does: when two refreshes fell between two requests for a device (`Lapsed`), its entry
is freed whether or not its work is done, the next request may go to another routine, and
the order is lost.

### AfTransportProofs
`TypeCorrect` for any number of disks; `Truthful` (`TruthfulUnlessLost`) and `WorksOnWhole`
(`WholeCommand`) for one, `OneDisk`: every poll goes to `DEVICE_NAME`, and the poll of a
second disk copies `ISSD_CMD_BUFFER` over the packets that `DEVICE_NAME` has received so
far and answers with the `isOK` of another command. The invariant says how the two sides
stay in step while no `WRITE_BUFFER` is lost: between two slow commands the firmware has
counted exactly the packets that the host's loop has sent (`BetweenPackets`), a packet
copied but not counted is the last one sent (`Counting`), and the command that
`issd_process_cmd` has is complete and not yet answered (`Processing`). Failed polls are
included: any number of them is dropped, times out and is repeated.

### SataCoreProofs
`TransfersCorrect` (`TransfersSound`) and `HostOrder` (`InHostOrder`, an action property),
for any depth of the event queue and any commands. `TransfersSound` alone is not
inductive. The invariant says that a command is in one place at a time, in the registers,
the slot of the slow commands, at `Main`, kept in `eq_full` or in a transfer
(`OnePlace`, `Transfers`); that a read is the last entry of the queue
(`ReadUnderWay`); and that the queue followed by the outstanding command is exactly what
the FTL has not been told (`Untold`), whence the order. That the range check refuses what
is off the disk, and only that but for what `Wraps`, is arithmetic modulo `UINT32`
(`SumInRange`, `FastMeaning`). A flush overtakes only the writes
that have come since `Main` found the queue empty (`LateArrivals`).

### BackupProofs
Every invariant of the run `backup` is proved: `ExtentsAreExact` (`ExtentsExact`),
`CopyIsExact` (`CopyExact`), `WritesOutputOnly` (`OnlyOutputWritten`) and `StaysInBounds`
(`CopyInBounds`, which has the firmware's ASSERT in it), for any size of partition, blocks,
sectors, pages and computing buffer, any room for extents, any files with or without holes
and fragments, and any number of appends of any size to the input. The invariant `IInv`
(`Inductive`) has a part for each side:

* `FilesOk`: each file has as many blocks as its size needs, no block belongs to two files
  or to two places of one, and the output has no hole.
* `CmdOk`: the extents of a file in the command are what `postProcess` makes of the first m
  blocks of it, with some m that is enough for the size that was sent (`ListedAs`). The
  three calls of `get_fileSize` may see three sizes: the m is the one of `extractBlocks`,
  the size sent is earlier and not larger, and the positions that `postProcess` goes over
  after the m-th, blocks -1, lie behind everything that is copied.
* `DevOk`: the pair (extent, sector in it) is a position in a file, for the reading and for
  the writing (`Copying`). The offset in bytes is the reading position, clipped at the end
  of the file; the sectors between the two positions are in the buffer; those before the
  writing position are copied, and every other sector of the disk is as it was (`Copied`).

The lemmas about the operators are the core of it. `Starts` lists where runs of
consecutive blocks begin (`StartsFacts`, `StartsCover`); a run is one piece of the disk
(`RunTile`); so the extents, one after the other, are the sectors of the file, each on the
disk, and none continues the one before it (`ExtentsTile`). `ListedLists` restates that for
what the device finds in the arrays, and `FilesSeparate` adds that no two sectors of the copy
are the same. `ChunkSectors` and `ChunkFits` are the arithmetic of a chunk: the sectors to be
written after it are the difference of two positions clipped at the number of sectors, also
when the file ends inside a sector, and a chunk fits in the buffer wherever in a page it
begins. `ReadStep` and `WriteStep` put these together.

Assumed: a partition with at least one block, and at least a block's sectors in front of it
(so that block -1, of a position that `extractBlocks` did not see, is a place on the disk),
positive sizes, and natural numbers as bounds of the initial files (`BoundsNat`). What a hole, and an output that was longer,
come to is part of the properties and so of the theorems.

### TutorialFtlProofs
`ProgramsAlwaysSound` (`ProgramsSound`): the invariant says that the rows from the next
free row of a bank on are erased and no command is on its way to them (`RowsAhead`), that
the program commands on their way go to different erased pages (`PendingApart`), and that
`get_free_page` passes over every bad vblock that its search sees (`RowsUsable`).

`AlwaysStoresLatest` (`StoredLatest`) and `ReadsAlwaysLatest` (`ReadsLatest`) are the
promises of the FTL: once its program command has finished, a page of the flash holds what
was last written to it, and a read returns what was written last before it, whatever order
the banks, the host's data, the reads of old data and the copies inside the device come
in. The argument has these steps, each an invariant that rests on those before it:

1. `Order`: the pages of write data and the commands that wait for them correspond one to
   one, in turn; a page and the pages issued after it are at most one per bank. With more
   write buffers than banks (`BufferCounts`), a buffer that is being filled is therefore
   not one that a program command still needs.
2. `Readings`: a read command into a write buffer is for the hole of the page being put
   together, or its bank has the page's program command behind it; one into the computing
   buffer is for a page of the extent being read.
3. `Mapping`: logical pages are mapped to different rows, all handed out before, and a page
   that was written is mapped.
4. `Received`: the data of the write under way that has come is in its buffers.
5. `Contents`: `StoredLatest`, and for a page on its way that the buffer of its command
   holds the data, or the host's packet will bring it, or the read in front of it in the
   same bank will (`OnTheWay`, `Comes`); before that, that the holes are read
   (`HolesFilled`), the copied sectors are in (`CopiedIn`), and the computing buffer holds
   the extent (`CopyRead`, `CopyComputed`).
6. `HostReads`: the entries of the read circle have a buffer each, a read command for the
   host has its entry and its buffer to itself (`ReadersApart`); while it waits in the
   Waiting Room the firmware issues nothing, so it still reads what is mapped
   (`RoomReads`), and when its bank accepts it the page is in the flash, since the bank was
   idle (`BankReads`).

Assumed: requests and extents lie inside the device, `Requests`, since `handle_got_cfis`
refuses a command beyond the last sector (up to the wrap of section 5) and extents lie in
a partition; more write buffers than banks, as on the board; and `ErasedApart`, that data
of the model stands for the write it comes from and so differs from erased.

### GreedyFtlProofs
Every property of the run `greedy` is proved: `MetadataAlwaysAgrees` (`MetadataAgrees`),
`ReadsAlwaysLatest` (`ReadsLatest`), `NeverReprogrammed` (`NoReprogram`), `MapAlwaysLogged`
(`MapLogged`) and `AssertsAlwaysHoldUnlessAliased` (`AssertsHoldUnlessAliased`), for any
number of banks, blocks, pages, bad blocks and logical pages, any stream of writes, flushes
and restarts. None of them is inductive by itself: a collection copies what the list of the
victim names, counts on the valid count, and needs the free block erased. The invariant
`IInv` (`Inductive`) says all of it for each bank:

* `Position`: until the first collection the user blocks are begun in order (`Ahead` are
  those to come); `free_blk_cnt` is 2 more than there are of them, and the block that is
  written is neither one of them nor the free block.
* `Programmed`: outside block 0 nothing is programmed twice; the free block, the blocks
  ahead and the rest of the block that is written are erased; every other block has its
  list.
* `BootInv`: the only page of the flash that may be programmed twice is that of the format
  mark in bank 0.
* `Listed`: each mapped page lies on a data page whose list entry names it, and each entry
  of a written page names a logical page of the bank, but for the first page of the first
  block, which is never written and whose entry is 0.
* `Counted`, `Stored`: exact valid counts, and the latest data on each mapped page.
* `LogPlaces`, `LogsKept`: the logs go on in erased pages of their own blocks, and the
  newest page of each map log has its part of the page map.

The lemmas follow a write through the code: `NextPageOk`, `CloseOk` and `NextBlockOk`, or
`CloseOk` and `GcOk`, lead to the state in which `write_page` programs the new page, and
`WriteOk` from there on. `FlushOk` covers `ftl_flush`, also the one that ends `format`;
`FormatOk` says that `format` ends in the invariant whatever the flash held before, from
`FreshOk` for the blocks that it erases. `BootKept`, that no other step touches block 0,
makes `NeverReprogrammed` of it: through any number of restarts, the only page ever
programmed again is that of the mark, and only by `ftl_open`. In
`GcOk` the valid pages found with the list are ranked (`Ranks`, `Targets`), which places
the moved pages; that as many are found as are counted is `FoundUnlessAliased`, a
one-to-one map between places and logical pages, and the only way it can fail is the
alias. That the victim is never the free block and has room is `RoomToCollect`: if all
user blocks but one had `PAGES_PER_BLK - 2` valid pages, there would be more logical pages
than the bank has (`Packed`).

Assumed: `Geometry` and `Provisioning`, the spare blocks and the 7% by which the board's
number of logical sectors falls short of the flash. Without the second the ASSERT on the
room of a victim can fail.

### What stays with TLC
Liveness in all modules (out of reach of the prover), and the properties of `DacFtl` and
`FasterFtl`: a collection of the DAC FTL and the isolation of the FASTer FTL fold a function
of the whole state of a bank over the pages of a block, and what a fold comes to is
induction over data. `FlattenSeq` in `ExtentsExact` is a fold as well; there the result is
known in closed form, so that it could be shown to satisfy the equation of the fold
(`FlattenIs`, `TilesFlatten`). `GreedyFtl` states its collection in closed form, which was
enough. Besides, two of the DAC FTL's properties do not hold for every value of its
constants: with several banks enough flushes write past a map block (`dac_flush`), and the
comparison with logical page 0 can take an unwritten place for a page (section 5). A
theorem about it has to bound `MaxFlushes` by the room in a map block and the workload
accordingly. `AfTransport` with more than one disk is neither checked nor proved, but for its
types, for the reason above.

## 5. Observed in the code

Two runs show disagreements between the code and its comments (`findings`). The others
are stated in the properties as exceptions, so that a passing run shows how far they go:

* a client killed inside `sendReqPacket` blocks the queue for all
  (`EverySendReceived`); one killed while it waits for its answer blocks its routine,
  or ends the server (`EveryRequestAnswered`);
* two expiries of the timer between two requests for a device free its entry though it has
  work, and the second request may be computed at another routine at the same time or
  before the first (`Lapsed` in `EntrySurvivesRefresh` and `SerialPerDisk`);
* more devices than map entries lead to an array index of -1 (`RoutineUnlessFull`);
* one digit is cut off a device name, so `/dev/sdb1` and `/dev/sdb10` go to two routines,
  unlike what the comment at `reqPRoutine.c:285` says (`SerialPerDisk`);
* `is_bad_block` of the tutorial FTL searches one halfword too early and does not see the
  last bad block (`BadBlocksSkippedButLast`); a sector never written next to one that was
  reads as what an earlier page left in the buffer, not as 0xFF (`ReadsLatest`);
* the greedy FTL's ASSERT at `ftl.c:687` fails when the unwritten first page of a bank
  passes for logical page 0 (`AssertsHoldUnlessAliased`); the DAC FTL compares in the same
  way, and the workload of its run does not write logical page 0 back to that place;
* the DAC FTL stops when the full block of a region is its own victim (`StopsOnlyHot`);
* the FASTer FTL stops when the isolation area is used up by writes that collect, which
  small geometries do, or when a partial merge inside a full merge ends at the last page
  of the victim (`StopsOnlyIsolation`). The bits of second chance of a victim without a
  valid page stay set, as the test at `ftl.c:1737` is never true. Its map log overruns its
  block like that of the DAC FTL;
* a flush overtakes the writes that were answered between the two looks of `Main`
  (`InHostOrder`);
* INITIALIZE DEVICE PARAMETERS is answered with an error always: its class has no address
  form, so `handle_got_cfis` gives it the count 0. The geometry for cylinder, head and
  sector therefore stays 0, SEEK never finds an address out of range, and the SATA features
  of SET FEATURES are never set;
* a merge, and a backup that fails, never set `isOK`, and the routine polls for ever
  (`EndsUnlessGivenUp`, place `"hung"` of `Backup`);
* an ioctl that fails between the packets of a command leaves the packet counter of
  the firmware where it is (`desync` of `AfTransport`); polls go to the fixed
  `DEVICE_NAME`, so that the poll of another disk overwrites the packets of a command on
  its way there and is answered with the `isOK` of a command that is not its own;
* a hole of the input comes out as block 0 of the partition, an output that was longer
  keeps its size, and a copy of an empty file fails (`CopyExact`, `FallocateFails`);
* `ftl_open` of the greedy and the FASTer FTL formats at every start (`if (TRUE)`), so what
  `ftl_flush` logs is never read. `format` does not erase block 0, so from the second
  start on `write_format_mark` programs a page that is programmed already
  (`NoReprogram` of `GreedyFtl`; `FasterFtl` has one session only);
* the range check of `handle_got_cfis` adds in 32 bits and cuts the address to 32: a
  request that ends past sector 2^32 can pass for one on the disk (`Wraps` in
  `InHostOrder`). A host that keeps to the size of the disk never sends it;
* `issd_read_sectors` fails without waiting for the reads it has issued
  (guard of `BeginCopy`).

## 6. Not modelled

The page cache of the host (the device reads the flash while newer data may still be
in memory); another process that truncates the input; the restart of the server under
waiting clients; power loss at any moment but after a flush (no FTL handles it, three
format or begin anew at every start); flash errors
(`ftl_isr` only counts them); in the FASTer FTL the erase counts with the wear leveling
that uses them and blocks that go bad; native command queueing, which the hardware does
by itself; addresses by cylinder, head and sector; a soft reset in the middle of a
transfer, as the code does not say what becomes of its data; `issd_compute_init` and
`destroy`, which the library asks its callers to serialise; the global with the name
of the second file of a merge, which two merging threads overwrite; `PCModule/`, the older version of the same host side;
installer, test generator, UART, identify data, start-up code: pure I/O or constants.

## 7. Plan

Done, in this order: the request queue, dispatch and routines, transport, the tutorial
FTL on the flash controller, command construction and backup, the greedy FTL, the
proofs of the queue, the DAC FTL, the FASTer FTL with its hash table, the SATA core.

Then the proofs of the SATA core, of dispatch and routines, of the transport, of the
tutorial FTL, of the greedy FTL and of the backup (section 4).

What is left is the DAC FTL: an invariant for each bank like that of the greedy FTL, with a
write position for each region, once its collection has a closed form as the greedy one has.
Its theorems hold below the bounds on flushes and workload named in section 4 only.

The runs are kept to twelve and the properties to about forty, so that all of it can be
checked often. What was once a run of its own to show a disagreement is therefore an
exception of a property where that says as much (section 5).
