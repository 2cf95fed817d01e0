# A verification of walleos

walleos runs without an operating system below it on an S5P4418 (four Cortex-A9 cores).
This directory holds TLA+ modules that model its kernel, heap, file system, input, network
and JPEG code, TLC configurations that check them on small instances, and TLAPS proofs.
`PROJECT.json` lists the runs, the mutants that show what each property depends on, the
source lines behind every definition, the hazards of the code and the theorems.

## The system

* **Kernel.** Every core has a task table and runs its own scheduler
  (`env/lib/scheduler.c`, `task.c`). Tasks give up the core by yielding, sleeping or
  blocking, and are preempted by a slice timer, one of the kernel timers that the core's
  private timer interrupt polls (`timer.c`). Critical sections mask the interrupts of one
  core (`synchronize.c`). The heap (`alloc.c`) is shared by all cores.
* **Input.** The touch screen's interrupt puts motion events into a FIFO; the main task of
  core 3 recognises gestures and queues timed messages, which another task handles.
* **Storage.** A FAT file system with a table, a directory, a sector cache and a cluster
  cache on an MMC card (`env/lib/fs`).
* **Network.** lwIP without threads (`NO_SYS`): core 1 polls the driver and the timers
  (`net/apps/net_main.c`) and gets an address by DHCP; commands open TCP connections and
  look up names.
* **Pictures.** libjpeg-turbo decodes photographs line by line (`photograph`).

They meet in a few places, which the modules keep: the slice timer is a kernel timer
(`KernelTimer`), the polling of timers and the heap rely on critical sections
(`Critical`, used as an assumption in `HeapCalls`), the gesture task blocks and is woken by
the scheduler's rules (`Gesture`), and DHCP probes addresses through ARP (`AddrConf`).

## Modules

| Module | Code | What it models |
|---|---|---|
| `Scheduler` | `scheduler.c`, `task.c`, `timeslicetimerhandler.c` | one core: the table by level and slot, states, search for the next task, yield, slice, sleep, block, wake, create, remove, terminate, reap |
| `KernelTimer` | `timer.c`, `uspienv.c` | the clock, one table of timers per core, start, cancel, update, the poll slot by slot, the slice timers |
| `Critical` | `synchronize.c` | EnterCritical and LeaveCritical statement by statement, tasks and the interrupt of one core |
| `HeapLayout` | `alloc.c` | arenas, buckets, the arithmetic of carving a block |
| `Heap` | `alloc.c` | what the allocators promise: every call takes one step |
| `HeapCalls` | `alloc.c` | the calls statement by statement, free lists as links in headers |
| `MessageQueue`, `Gesture` | `env/lib/input`, `gesturetask.c` | reports, FIFO, detector, scaling, timed messages, the gesture task |
| `FatTable` | `fat.c`, `fatinfo.c`, `fatformal.c` | the allocation table, its chains and its hint |
| `FatFiles` | `fatfs.c`, `fatdir.c`, `fatcache.c`, `file.c` | open, create, append, read, write, seek, close, delete; directory, cluster cache, disk |
| `TcpOut`, `TcpIn`, `Tcp` | `tcp_out.c`, `tcp_in.c`, `tcp.c`, `tcp_client.c` | one connection between two hosts and the network between them |
| `ByteStream` | | what a connection promises; `Tcp` is shown to implement it |
| `Etharp`, `Dhcp`, `AddrConf` | `etharp.c`, `dhcp.c`, `netif.c`, `dhcpclient.c`, `net_main.c` | the ARP table, the DHCP client, and both on a wire with a server and other hosts |
| `Dns`, `Resolver` | `dns.c`, `http_urlparser.c` | the DNS client; its users, name servers and the wire |
| `Reassembly` | `ip4_frag.c` | fragmentation and reassembly |
| `JpegInput`, `JpegOutput`, `Jpeg` | `jd*.c`, `jcomapi.c` | decompression as its application drives it: input, coefficient, main buffer, upsampling and post-processing controllers |
| `JpegMemory` | `jmemmgr.c` | the small and large objects of pools |
| `JpegMarkers` | `jdmarker.c` | the marker reader byte by byte |
| `HuffmanTables`, `HuffmanCoder` | `jchuff.c`, `jdhuff.c`, `jdphuff.c` | tables, encoder, sequential and progressive decoders |

`MC...` modules give the constants their values for TLC, `...Proofs` modules, `FatChains` and `FatCache` hold proofs.
Variables, actions and fields carry the names of the source where they stand for one thing
in it. An action is a whole call or handler, except where something can come in between:
`Critical` and `HeapCalls` take a step per statement, `KernelTimer`'s poll one per slot,
`Scheduler`'s search one per call of `SchedulerGetNextTask` and its removal two, and `FatFiles` one per
iteration of the copying loops. In `TcpOut`, `TcpIn`, `Etharp`, `Dhcp`, `Dns` and the JPEG
modules a function of the code is an operator on a record, its context, and the composing
module (`Tcp`, `AddrConf`, `Resolver`, `Jpeg`) has the actions.

## Runs

Each run is `tlc -config <cfg> <module>` in this directory.

| Run | Instance | Shows |
|---|---|---|
| `scheduler_table` | main, idle and two more tasks, four levels, three slots | no task is lost from or doubled in the table (`TableOK`), none is overtaken more than `MAX_TASKS - 1` times by its level (`BoundedOvertaking`), a ready task runs unless a higher level can (`ReadyRuns`), a search ends (`YieldReturns`) |
| `scheduler_sleep` | a core without idle task, 3-bit clock, pieces of 3 | no sleep returns early across wrap-around (`SleepsFully`) |
| `kernel_timer` | two cores, two slots each, jiffies modulo 6 | a slicing core has exactly its slice timer (`SliceArmed`), no handler is early (`NeverEarly`), each timer elapses or is cancelled (`TimersElapse`) |
| `critical` | three tasks and the interrupt, nesting 2 | sections exclude (`Masked`), the level is the depth (`LevelIsDepth`) |
| `gesture` | two fingers, five reports, FIFO of 2 | no finger is lost (`FingersTracked`), one touch gets one verdict (`OneVerdict`), messages stay in order (`QueueSorted`) |
| `heap` | two tasks, five calls, three arenas that run out, a framebuffer in the way | owned blocks are apart (`LiveDisjoint`), none is lost (`Accounted`), calls implement `Heap` (`CallsAreAtomic`) |
| `fat_files` | two files, two handles, three buffers, four clusters of two bytes, two directory entries per cluster, two creations | chains apart and complete (`ChainsApart`), no free cluster missed (`FullOnlyWhenFull`), every byte right (`Contents`), also after a power cut (`Saved`), use counts right (`Pins`), no stale dirty buffer (`DirtyIsOwned`) |
| `tcp` | windows of three segments, sequence numbers modulo 64 that wrap, one network fault and one failed allocation | a byte stream (`ImplementsByteStream`), windows accounted for and never shrinking (`WindowAccounted`, `EdgeNeverRetreats`), everything arrives and both blocks are freed (`Settles`) |
| `addr` | ARP table of two, leases from below a tick to infinite, up to two faults | leases respected (`LeaseHeld`), no contested address (`Uncontested`), an address is got (`GetsAddress`), hosts are reached (`Reaches`) |
| `datagrams` | DNS table of two, three names, two servers, an answer that comes after the query was repeated; four fragments, two datagrams at a time | requests and users match (`Served`), right answers (`RightAnswer`), everybody is told (`Answered`); fragments counted (`FragmentsAccounted`) |
| `jpeg` | images of up to a few iMCU rows, one or more scans, damage and truncation | every line is made of the right rows (`RowsRight`), damage is confined by restarts (`Confined`), decoding ends (`Ends`) |
| `codec` | scaled-down memory, tables and bytes | objects of pools are apart and aligned (`ObjectsApart`), markers are parsed right wherever the input runs dry (`ParsedRight`), decoding undoes encoding (`RoundTrip`) |

**Bounds.** Each instance is the smallest in which its hard cases happen: levels with a
full slot table and a hole in it; clocks and sequence numbers short enough to wrap several
times; free lists of two blocks and an arena that runs out; a volume that runs full and a
directory that grows; a lost segment with three behind it, which starts fast retransmission;
an ARP table and a DNS table smaller than what is asked of them; a byte of four bits, so
that the byte that must be stuffed comes up in every image. `MAX_CALLS`, `MAX_CREATES`,
`MAX_REPORTS`, `MAX_TIME`, `MAX_NET`, `MAX_WIRE`, `REPEATS`, `Lines` and the
`faults`, `lookups` and `late` of plans only bound how long a behaviour or how bad a network is. Symmetry is
used for the tasks of `critical` and `heap` and for file names, which no definition tells
apart, and only in runs without liveness properties.

**Fairness.** `scheduler_table`: the private timer's interrupt recurs, its slice expires,
and a search that has begun goes on; nothing is assumed of what tasks do. `kernel_timer`:
each core's timer interrupt recurs and its poll goes on. `tcp`: the client connects, the
first segment under way arrives, and `LWIP_Polling` serves timers that have run out;
nothing is assumed of writes and closes. `addr`, `datagrams`: frames that are not lost
arrive, and the polling loop serves its timers (in `datagrams` only in plans with
`dns_tmr`). `jpeg`: the source delivers and the application keeps calling. Where ENABLED of
a handler is too large for TLC, weak fairness is spelled out: the condition for the step
is false again and again, or the step is taken again and again.

## Proofs

TLAPS checks the theorems below for every value of the constants that satisfies the named
assumptions; each of these assumptions is evaluated by TLC in the run of its module.

**`SchedulerProofs`** (any number of tasks, levels, slots; `SchedulerAssumption`).
`TableCorrect`, `CurrentCorrect` and `RoundRobin` need that all tasks are created before
slices start (`~CREATE_AFTER_START`), as `hello_world.c` does: two tasks inside
`SchedulerAddTask` can count one slot twice. The table is not inductive by itself: the
invariant adds where a creation in progress has got to, that slots hold tasks of their
own level, and, for overtaking, how far the search pointer is from a waiting task's slot.
`TypeCorrect` needs it too. A removal is interrupted between its two steps; `TrimInv` says
that the slot it has freed stays free until it is given back.

Its last part adds the clock to that invariant (`SleepInv`): `SleepersRest`
tracks for each sleeper the distance between the clock and its wake time. It needs
`~CREATE_AFTER_START` and pieces below half the clock's range (`SleepsFit`). Core 3 creates
tasks after slices have started; there these results are not claimed, though TLC checks
`SleepsFully` for it.

**`KernelTimerProofs`** (any number of cores and slots). `SliceTimerKept` needs that every
core calls `Timer()` before the first slice timer starts, since `Timer()` clears all
tables. `CalledOnTime`: a timer's remaining time and the difference between its
expiry and jiffies agree modulo the word when every delay plus one is below half of it
(`DelaysFit`). The run's delay of 2 at a word of 6 is just outside that condition, so run
and theorem overlap only in part.

**`CriticalProofs`** (any tasks, any nesting). Masked is strengthened by who may be inside
EnterCritical and LeaveCritical, and by what a handler finds saved.

**`HeapProofs`**, **`HeapCallsProofs`** (any layout that `mem_initial` accepts, any
buckets, any number of callers). `Heap`'s blocks are apart and inside their arenas because
the pointer is behind all of them. `CallsImplementHeap` is the refinement: with the blocks
in the hands of calls counted as the abstract allocator counts them, each statement is a
step of `Heap` or none. Its invariant says that every free list is a list: links are
distinct, none leads to the head, the list ends, and it holds exactly the unowned blocks of
its bucket. Lists are sets closed under links (`Reach`), so that no induction is needed.
All callers must be tasks of one core (`SameCpu`), since EnterCritical excludes only them,
and no pointer may pass 2^32. `OwnersApart`, `BlocksAccounted` and `OwnedInArena` follow
for the code itself. 
`ScreenWhole` holds for any buckets: `malloc` looks only at where a block ends, so no block
reaches into a part of the framebuffer, but one that is larger can hold all of it. The
board has such buckets.

**`FatProofs`** (volumes of any size, any number of files, handles and buffers).
`FindsFreeCluster`: nothing below the hint is free. `ChainsStayApart`: the table's entries
are links with distinct targets, the starts of directory and files have no predecessor and
different files have different ones, each chain ends, and the chains are the taken
clusters. To be inductive this must also know what a writer knows before the directory
does: a file starts where its writer says while it has one, a writer without a cluster has
written nothing, a writer stands at the last cluster of its chain, a file has one writer
at most, names are listed once, and the end of the directory is the end. A chain is the
least set closed under the entries (`Walk`), so growing one at its end, beginning one and
freeing one are facts about sets. These facts are in **`FatChains`**; `FatProofs` shows how
each call of the file system applies them.

**`FatCache`** (the same, with more buffers than handles) is about the cluster cache.
`UseCountsRight`: a buffer's use count is the number of open files that hold it and no
cluster is in two buffers (`Pins`). `DirtyStaysOwned`: a dirty buffer is on the chain of a
file that is being written, so a late flush cannot overwrite what reused the cluster of a
deleted file. The invariant `CacheInv` adds to `FatInv` that pinned clusters are in
buffers and that an open file has no cluster pinned but the one it is at. With more
buffers than handles some buffer is unpinned whenever a file needs one, so
`FATCacheGetCluster` never stops with `FAULT_NO_BUFFER`. The first half of the module is
about the list of buffers alone (finding, moving to the front, evicting, flushing and
freeing only reorder it or change one buffer), the second about the calls of `fatfs.c`.

TLC finds each inductive invariant (`Inv`, `SleepInv`, `OnTime`, `IInv`, `FatInv`, `CacheInv`) to hold
on the instance of its run, `SleepInv` with `CREATE_AFTER_START` set to FALSE.

**Model-checked only.** Liveness (`ReadyRuns`, `YieldReturns`, `TimersElapse`, `Settles`,
`GetsAddress`, `Reaches`, `Answered`, `Ends`), because fairness and ENABLED are outside
this prover. Properties over recursive definitions or folds, which need induction over
data: the queues of `MessageQueue` and TCP, sums in `Reassembly`, `RowsRight`, `Confined`,
`ParsedRight`, `RoundTrip`. `Contents` and `Saved` of the file system,
which depend on positions in chains (a recursive function) and a history of `MCFatFiles`; and the invariants of `Gesture`, `AddrConf` and `Resolver`.

## Abstractions and what they leave out

* Scheduler: register images; `_Scheduler`, which nothing calls. Time is a clock modulo a
  small word; what tasks do is a choice. One core: a task of another core is not in its
  table, so `SchedulerRemoveTask`, which prints and returns then, changes nothing. The
  gesture task of core 3 calls it so for windows whose tasks run on core 0
  (`gesturetask.c:75`), and these tasks live on.
* Kernel timers: no core calls `Timer()` once slices run (`LATE_TIMER`). `main` starts
  core 3 (`hello_world.c:203`) well before its own slice timer (243) but does not wait for
  it; a later `Timer()` would clear the armed slice timer.
* Critical sections: an interrupt between the saving of `s_bWereEnabled` and
  `DisableInterrupts` may leave interrupts disabled after the outermost `LeaveCritical`
  (`synchronize.c:40`). `Critical` has that behaviour; `ClockAdvances`, which no run
  checks, is false in it. The properties that are checked hold all the same.
* Gesture: positions are choices of the comparisons made with them; velocities and drawing
  are left out. The gesture task, when it is ready, is assumed to run within the 300 ms
  between a TAP and the LONG_PRESS behind it (`LATE_TASK`); slices last 10 ms, but the code
  guarantees nothing. Handled in one round, the TAP's node is freed twice. A finger that
  scrolls and is lifted early is still confirmed as a single tap, since its TAP is not
  withdrawn (`gesturedetector.c:246`); `OneVerdict` is about double taps and long presses.
* Heap: addresses are counted in units of the block alignment; the magic numbers of
  headers, which are only written, are left out.
* FAT: one directory, one volume, no device errors, one call at a time. Calls are modelled
  only under three conditions that the code does not check, so the results say nothing of
  calls outside them: a file is created anew or deleted while nobody has it open
  (`NotOpen`); it is opened for appending by one caller, when it has a cluster
  (`Appendable`); only readers seek, and not back into a cluster just read to its end
  (`SeeksElsewhere`; `FATFileSystemFileSeek` fetches a buffer only when the cluster
  changes). `FATFileSystemFileOpen` fetches the last cluster write-only, so appending to a
  file whose last cluster is full or has left the cache destroys bytes of it. That is
  modelled; the history `torn` of `MCFatFiles` keeps such files, of which `Contents` and
  `Saved` say nothing, while the other invariants hold with them too.
  `FATFileSystemSynchronize` is one step: a power cut inside it may spoil the file that is
  being closed, but a file that nobody writes is not touched by it. The read-only
  attribute, which nothing sets, is left out.
* TCP: timers expire as a choice once the network is quiet; expiring earlier costs a fault.
  `rtime`, `rto` and the persist counter are reduced to whether the timer runs; a reset that finds no memory is not sent; pbuf chains
  and errors of `ip_output` are left out; polling happens at every slow tick.
* ARP and DHCP: request timers are armed or not; transactions are counted modulo `XIDS`;
  the wire is a set of frames; a link that goes down costs a fault. DHCP options are a
  record; multicast and further interfaces are left out.
  When a lease ends in a state other than BOUND and RENEWING, REBINDING above all,
  `dhcp_release` leaves its address on the interface; `LeaseHeld` excepts an address
  left behind in that way (`orphan`). It and `Uncontested` are about callers that use
  `dhcp_start` as the library means it; `dhcpclient_start` sets an offer as the address
  before it is probed and bound.
* DNS: lookups made inside a callback are left out. Plans with and without `dns_tmr` are
  checked, since `net_main.c` never calls it: with the program's own loop `Answered` does
  not hold, and only plans with `dns_tmr` are fair to it. The shell gives up after two
  seconds and leaves its lookup open, whose callback later writes to the same globals;
  `RightAnswer` excepts a lookup that crosses such an older one of another name (`crossed`).
* Reassembly: MTUs that are multiples of 8 behind the header; ICMP and the reuse of
  identifications are left out.
* JPEG: files are sequences of markers and MCUs in `Jpeg` and of bytes in `JpegMarkers`;
  an iMCU row has two row groups; sample values and cropping are left out, and lines are
  skipped only in images with context rows and one scan; `Ends` excepts an image whose last
  lines were skipped (`LeftUnread`). `HuffmanCoder` has scaled widths; progressive streams come from a
  reference encoder; output suspension and range checks of the encoder are left out.
  `JpegMemory` has pools without virtual arrays.

## Not modelled

Start-up, interrupt dispatch, MMU and caches, the drivers of clocks, pins, serial ports,
display, MMC and Ethernet are register I/O. Formatting, strings, paths, the shell, URL
parsing and the arithmetic on pixels are sequential functions of their arguments that no
property here depends on. lwIP's sockets, IPv6, IGMP, AutoIP and PPP are in the tree but
configured out. Packet buffers and pools appear as failing allocations in the protocols'
modules. The use of the file system and of lwIP by several cores at a time, without locks,
is listed as a hazard and not modelled. `PROJECT.json` names the sources of each part.
