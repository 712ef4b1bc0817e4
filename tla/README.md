# PCM3060 kernel module: a verification project

TLA+ models of the PCM3060 audio codec driver under `src/`, configurations that
check them with TLC, and proofs checked with TLAPS. Every definition is read off
the C code; `PROJECT.json` ("map") names the lines each one stands for.

Contents: the system, the modules, the runs, fairness, the proofs, what the
checks turned up, what is not modelled, the plan.

## 1. The system

User programs open `/dev/pcm3060-0` (left) and `-1` (right), write samples and
read samples. The driver keeps one pair of byte rings per channel. A kernel
thread takes samples out of the rings and queues them as SPI transfers; the
completion callback of the SPI controller toggles the LRCK pin, which tells the
codec whose sample is on the wire.

| component | state it keeps | operations | called by, calls |
|---|---|---|---|
| byte ring, `utils/ring_buffer.c` | `read_idx`, `write_idx`, the bytes, a mutex | write, copy_from_user, read, copy_to_user, two unlocked queries | every file and the transceiver thread share it through a duplex ring |
| duplex ring, `utils/duplex_ring_buffer.c` | two rings, two ends | get, put, wrappers of the ring calls | `pcm3060.c` owns it; `left_end` goes to the files, `right_end` to the thread |
| transceiver, `periphery/transceiver.c` | the thread, `tx_completion`, one `spi_transfer`, the static `lrck_level`, pin and SPI device | `tx_init`, `tx_cleanup`, `_tx_run`, `spi_complete` | started by the first configuration, stopped by the last close; the callback runs in the controller's context |
| device lifetime, `periphery/pcm3060.c` | the count, the interface struct, configuration, rings, platform device, a mutex | `get_pcm3060`, `put_pcm3060`, `init`, `get_channel_buffer_end` | `open` and `release` of the character device |
| character device, `chrdev_pcm3060.c` | per channel: the interface of the last open; the default configuration | open, release, read, write, two sysfs attributes, register, unregister | the kernel |
| clock generator, `periphery/clock_generator.c` | a cached PWM | init, cleanup | the probe of the device |
| counting buffer, `utils/buffer.c` | three byte counters, the count of writers, a mutex | write by copy, reserve and finish, read, reset, sync | the pipe and the dual buffer |
| pipe buffer, `utils/pipe_buffer.c`, and duplex pipe, `utils/duplex_pipe_buffer.c` | a counting buffer, the counts of readers and of bytes read, two completions | copy in and out, `read_start`/`read_end`, `write_start`/`write_end` | nothing in the driver at this commit; a duplex pipe passes each call on to one of its two pipes |
| dual buffer, `utils/dualbuffer.c` | two counting buffers, the count of readers | write, copy, read and release, reset | nothing in the driver at this commit |
| driver registry, `periphery/drivers.c` | two tables of callbacks | register, probe, remove | nothing registers at this commit |
| lookups, `periphery/devicetree.c`, `utils/spi.c`, `utils/devicetree.c` | none | find the platform device, the pin, the SPI device | `tx_init`, `get_pcm3060` |

What is hard in it, and what makes each part correct:

* **The ring.** Threads interleave; the index is published before the bytes are
  copied; two queries read the indices without the mutex; user memory may be
  inaccessible half-way; indices are unsigned and wrap. It should hand over every
  accepted byte once, in order, and the estimate of the transceiver should still
  be true when it gets the mutex.
* **The transceiver.** Three contexts (thread, callback, last close) meet without
  a common lock. Cleanup should end and release nothing the thread uses; sessions
  should not disturb each other; channel and LRCK should not slip.
* **The device lifetime.** The count is raised before the mutex is taken, and the
  teardown takes no mutex. The count should cover every file that relies on the
  device, a teardown should begin only when nobody relies on it, and nothing should
  be used after it was freed. Each step of an open may fail.
* **The counting buffer.** Writers meet at a barrier made of a counter and a
  mutex that one thread locks and another unlocks; readers take no lock. Ranges
  should not overlap, bytes should be stored before they are published, and every
  call should return.
* **The pipe.** Readers hold a pointer into the buffer between two calls; writers
  wait for them, the last of them empties the buffer and wakes the writers.
  Nobody should wait with nobody left to wake him, and nobody's bytes should
  change while he holds them.
* **The dual buffer.** The first reader swaps the two buffers in two assignments
  and no lock. Only one should swap at a time, and what is read should not be
  written.
* **The character device.** What `read` and `write` answer should be what became
  of the bytes.
* **Allocation.** Every `get_...` is a ladder with labels that undo it. What fails
  half-way should leave nothing behind.

`PROJECT.json` lists every hazard at its line ("hazards").

## 2. The modules

| module | models | how it corresponds |
|---|---|---|
| `RingIndex` | index arithmetic of `ring_buffer.c` | one operator per local of `_write_impl` and `_read_impl`; unsigned differences are taken modulo `Word` |
| `RingBuffer` | the ring and its callers | a call is three steps: lock, chunks and new index (`WriteIndex`, `ReadIndex`); the copy (`WriteCopy`, `ReadCopy`); unlock and return. A query is two steps, one per `atomic_read`, in either order |
| `ByteFifo` | what the ring promises | a bounded FIFO of numbered bytes, with a flag that ends the promise |
| `CharDevice` | `read` and `write` of `chrdev_pcm3060.c` on a ring | the calls of `RingBuffer` are those of the duplex ring's wrappers; returning adds the answer to the offset of the file |
| `MCRingBuffer`, `MCCharDevice` | instances of these | the constraint `ContractKept` |
| `RingBufferProofs` | theorems about the ring and the files that drive it | |
| `Transceiver` | `transceiver.c` | `owner` is where `tx_init`/`tx_cleanup` is, `thread` where `_tx_run` is, `wire` the transfer in flight; one action per call that can fail, block or be observed. `spi_async` has three outcomes: `QueueTransfer`, `RefuseTransfer`, and `ReuseMessage` when its message is in flight |
| `TransceiverProofs` | theorems | |
| `Pcm3060` | `pcm3060.c`, `open` and `release`, `clock_generator.c` | a process per file; one action per allocation, free and atomic operation; pointers are numbers of allocations, `live` says which of them exist, so that a stale pointer is told from a fresh one; `pwm` is the cached PWM, its error pointer included. The last close is one action per statement that another file or the thread could tell from the next: clock, thread, device, each free, each pointer |
| `Pcm3060Proofs` | theorems | |
| `Buffer` | `buffer.c` | one action per atomic operation and per mutex call; a byte is the epoch (number of resets) it was stored in. `Begin...` is the first step of a call wherever it comes from, `...Call` lets the threads of the module make it. A read by copy (`BeginCopy`) finds nothing beyond what is available, one by pointer (`BeginRead`) may return with the pointer left unset, and holds nothing then |
| `BufferProofs` | theorems | |
| `PipeBuffer` | `pipe_buffer.c`, the wrappers of `duplex_pipe_buffer.c` | extends `Buffer`; `stage` is where a thread is outside its buffer calls, whose steps are those of `Buffer`; a completion is the number of waits it lets through |
| `PipeBufferProofs` | theorems | |
| `DualBuffer` | `dualbuffer.c` | extends `Buffer` and has a second instance of it, whose variables begin with `b_`; every load and store of the two pointers is an action |
| `DualBufferProofs` | theorems | |
| `Allocation` | every `get_...` and `put_...` of `utils/` | each container is the list of its parts in the order of allocation; a stack of ladders is climbed and unwound; blocks of memory are counted |
| `AllocationProofs` | theorems | |
| `Sums` | nothing of the code: lemmas about sums over finite sets | the folds of the models are such sums |
| `MCBuffers` | instances of `PipeBuffer`, `DualBuffer` and `Allocation` | `use` picks one of them for a behaviour |

`RingBuffer` implements `ByteFifo` (`Fifo == INSTANCE ByteFifo WITH ...`).
`CharDevice`, `PipeBuffer` and `DualBuffer` are compositions: each extends the
module of the component it calls and takes that module's actions as its own steps.

Some conventions hold throughout.

*History variables* (`put`, `got`, `intact`; `ticks`, `phase`, `slipped`, `inHalf`,
`sessions`; `made`, `ends`, `started`, `opens`, `overlapped`, `failed`, `corrupt`;
`epoch`, `resets`; `reads`, `tidy`, `silent`; `entries`, `alone`; `owned`, `puts`,
`torn`, `gets`) are not in the code. They guard no step of it, with the exception
of the named bounds (`MaxPut`, `MaxMissed`, `MaxSessions`, `MaxOpens`,
`MaxOverlapped`, `MaxResets`, `MaxReads`, `MaxSwaps`, `MaxGets`) and of `corrupt`.

*`corrupt`* marks undefined behaviour the code can reach: in `Transceiver`
queueing a message that is still in flight, overwriting that message, a dead local
of the function that queued it, at any moment of its flight (`LoseMessage`), and
using an error pointer; in `Pcm3060` using or freeing what is not allocated, or a
function pointer of the interface that is not yet set. The model stops there and
nothing is claimed about what follows.

*The contract of the ring.* `RingBuffer` models calls of every length. The FIFO
property holds of callers that leave one byte of the ring free, do not let a
write straddle the end of the ring, and do not ask for more than is there;
`intact` says whether that was so far the case. `WriteInBounds`, `TypeOK` and
`EveryCallReturns` hold of all callers.

The shipped driver does not keep this contract. Its rings have 256 bytes (half of
`CONFIG_DEFAULT_BUF_SIZE`, `duplex_ring_buffer.c:33`), the transceiver reads samples
of 3 (`config.h:35`), and 256 is 1 modulo 3: when the reader comes to the end of the
ring, the sample it reads straddles it, is torn, and reported as read
(`ring_buffer.c:168`). `SampleIsWhole` says it should not, and `tx_straddle` shows
that it is. What is said and proved about the FIFO is thus about each stretch up to
such a read: within it, what interleaves is in order; the straddling read ends it.

*Order of `Buffer`.* `intact` has the same part there: no write, reset or sync has
begun while another was under way, no user memory was inaccessible and no
reservation was refused. `ClaimsDisjoint` does not depend on it.

*Order of its users.* `tidy` of `PipeBuffer` says that no read began while another
was leaving, and none by `copy_to_user` beside any other; `alone` of `DualBuffer`
that no reader came while another was swapping or somebody reset, that no buffer
was emptied while it was written or, by a reset, while it was read, and that no
write began in a buffer that another write was still in. `silent` of `PipeBuffer` says that
something was written by reservation. `overlapped` and `failed` of `Pcm3060` tell
the histories of a program that makes one call after the other and sees no
failure (`Regular`). Section 6 says what happens beyond.

*Slips.* A definition whose comment begins with "Slip" is a plausible mistake in
the definition after it. No specification uses one; each shows, put in the place
of the definition it belongs to, that some property would notice that mistake
("mutants" in `PROJECT.json`).

## 3. The runs

| run | instance | checks | shows |
|---|---|---|---|
| `ring_shared` | Size 5, two writing files, one with faulty memory, lengths 0..3, the transceiver with 3-byte samples, 10 bytes | `NothingLost`, `TxReadsWhatIsThere`, `OffsetsAccount`, `ImplementsFifo` | within the contract the ring is a FIFO, the unlocked estimate is safe, and the answers of `write` add up to what the ring took |
| `ring_readers` | Size 4, a writing file, two reading ones, one with faulty memory, 7 bytes | `NothingLost`, `ImplementsFifo` | the same with two consumers whose reads may find the ring empty |
| `ring_returns` | Size 4, two writers of 3 and 5 bytes, the transceiver, 3-byte samples; calls out of contract included, reads that straddle the end among them | `TypeOK`, `WriteInBounds`, `EveryCallReturns` | every call returns; no write leaves the ring |
| `ring_full` | Size 4, one writer | `AcceptedStaysReadable` | violated, section 6 |
| `tx_straddle` | Size 4 and 3-byte samples, 1 modulo the sample like the shipped ring; a writer of single bytes, the transceiver | `SampleIsWhole` | violated, section 6 |
| `tx_device` | RX rings with room or without, three sessions, every failure of `tx_init`, every transfer accepted or refused, fair | `TypeOK`, `ThreadHoldsDevice`, `NoStaleCompletion`, `PhaseKept`, `HalfCycleCarriesOne`, `CleanupReturns` | thread and device are held together; no completion crosses a session; channel and LRCK slip by a turn that passed without a transfer and by nothing else; a cleanup that finds the thread running ends, whenever it comes |
| `tx_stop_early` | one session, fair | `CleanupAlwaysReturns` | violated, section 6 |
| `pcm_files` | three files on two channels, five opens (three in a history with overlapping calls), every failure | `TypeOK`, `RefcountCoversFiles`, `TeardownWhenUnused`, `NothingDeadIsUsed`, `OpenMeansRunning`, `ClosedMeansFreed`, `RingsOutliveThread`, `ThreadHasClock` | whatever overlaps and fails, the count is never too small and a teardown begins only when nobody else holds a reference; one call after the other and until a step fails, an open file means a running device, and no file means a device that is stopped and freed but for the four ends its rings have leaked; one call after the other, also after failures, no thread runs on freed rings, and none without a clock but while the last close is between the two |
| `pcm_dangling` | two files, no device found | `InterfaceIsAllocated` | violated, section 6 |
| `buf_shared` | Size 3, one thread writes by copy with faulty memory, one reserves, resets and syncs, both read; lengths 1, 2; one reset; fair | `TypeOK`, `ClaimsDisjoint`, `ReadersSeeStored`, `StoredIsPublished`, `OrderlyCallsReturn` | ranges do not overlap; bytes are published after they were stored and not later than the write ends; calls that do not overlap return |
| `buf_reserve` | Size 2, one thread that reserves and resets, fair | `EveryCallReturns` | violated, section 6 |
| `buf_uses` | Size 3, three threads. A pipe that two threads read and one writes, one with a fatal signal; a pipe that one writes and one copies from and reserves in; a dual buffer with two readers of which one also writes and resets; allocations of a duplex ring, a duplex pipe and a dual buffer, three calls, each part failing | `PipeTypeOK`, `WaitingWritersAreWoken`, `WaitingReadersAreWoken`, `HeldBytesStay`; `DualTypeOK`, `BuffersDistinct`, `ReadersUndisturbed`; `HeapExact` | nobody waits in a pipe with nobody left to wake him; what a reader holds is left alone; one reader swaps; memory is exactly what the containers have, plus what section 6 names |

Why the bounds are enough to meet the interesting cases:

* The rings hold two to three requests and the runs move one and a half to two
  times their size through them, so each index wraps with a call of every other
  thread in between. `Word` (64, in the build 2^32) is more than twice `Size`, all
  the arithmetic relies on (`RingAssumption`). The proofs hold for every size.
* Two sessions are what it takes to inherit a static level, a completion or a
  pointer from the session before; the transceiver has three.
* Three files are the fewest of which one can close while another opens and a
  third stays. Five opens are enough to fail twice, succeed and start over. Where
  calls have overlapped, three are: one that creates, one that closes, one between.
* Two threads are the fewest that meet at the barrier of `buffer.c`. A buffer of 3
  and lengths up to 2 give a range that is cut and one that begins at the last byte.
* `MaxReads = 2` and `MaxSwaps = 2`: a second reader, or the same one again, meets
  what the first one left, the completions and the swapped buffers. What these
  small instances show of a pipe and of a swap is proved for any number of threads.
* `MaxGets = 3` lets containers of two kinds exist at a time while a third fails.
* `MaxMissed` ends the reads of a file whose offset grows without a byte moving.
* `rx_room` is fixed within a behaviour, for no part of the driver writes an RX
  ring. 0 stands for rings that take nothing more, the only way the thread ever
  comes to sleep. On the device they always have room, so that this path, and a
  wake-up that meets it, never happens there.
* One thread writes to the dual buffer in `buf_uses`: with two the state space is
  beyond what a run should take. `ReadersAreUndisturbed` is proved for any number.
* `ring_returns` and `tx_straddle` have the ring and the sample of the driver modulo
  each other (4 and 3 for 256 and 3), the smallest that make a read straddle.

`ring_shared` and `ring_readers` stop exploring after the first call that breaks
the contract (`ContractKept`): from there on `ByteFifo` promises nothing. The
breaking step itself is checked.

`CHECK_DEADLOCK FALSE` stands where the system may really stop: after the last
session or open, at `corrupt`, and in `Buffer` where callers do wait for ever.
The rings `ring_shared`, `ring_full` and `ring_returns` are checked for deadlock.

## 4. Fairness

* `RingBuffer`: weak fairness for a thread that is inside the kernel and not
  blocked, strong fairness for taking the mutex, because `mutex_lock` queues its
  waiters in order. Nothing makes a program write or a reader call.
* `Transceiver`: the scheduler runs the thread and a cleanup that has begun, the
  controller completes its transfers and the timer fires. Nothing makes a program
  open or close.
* `Buffer`: a thread in a call keeps running, and a caller finishes a reservation
  it got. The mutex has weak fairness only.
* `PipeBuffer`, `DualBuffer`: none. Their waits for each other are stated as
  invariants instead (`WaitingWritersAreWoken`, `WaitingReadersAreWoken`): whoever
  waits has somebody inside the code who will complete the wait. That says what
  the code contributes to progress, and, unlike liveness, it is provable.

## 5. The proofs

An invariant that is checked in a run is seldom inductive; each paragraph names the
one that is, and what it had to say beyond the property. Where a property depends
on how the code is used, so does the theorem, and section 6 has what happens else.

`RingBufferProofs`, for every size, word, set of threads and length:

* `TypeCorrect`, `WritesStayInBounds`, `BytesAccountedFor`. The inductive
  invariant `IInv` adds to the types: who holds the mutex is in one of the steps
  between lock and unlock and no one else is; the chunks of a call that has
  computed them fit in the ring; and, while the contract holds, `Readable` is
  `put - got` (`NothingLost`), the bytes `got .. put - 1` lie behind `read_idx` in
  order, except for the chunk that is being stored at the moment (`Contents`),
  that chunk is the last of them (`PendingWrite`), and the chunk that is being
  read is still in the ring (`PendingRead`). Without the last three a copy could
  not be shown to hand over the next bytes: the index runs ahead of them.
* `RingIsFifo`: the ring implements `ByteFifo`. Bytes enter the FIFO at the copy,
  not at the index, and leave it at the copy out (`Sent`, `Taken`).
* `EstimateIsSafe`, on the assumptions that no one but one transceiver thread
  reads the ring, which is how the driver wires it. The invariant (`Seen`) says
  that the read index the thread has loaded is still the current one, and that
  what it computed from an older write index is at most what is there.
* `DeviceDrivesRing`: a behaviour of the files is one of the ring (`DevSpec =>
  Spec`), so that all of the above holds of `CharDevice`.
* `OffsetsAddUp`, for a finite set of writing files. The invariant (`DevInv`) says
  that within the contract a write that has its chunks stores them all
  (`WholeWrites`), so that `write` answers with the whole length. Then `put` is
  the sum over the files of what they moved their offset by or hold in a
  call (`Share`).

`TransceiverProofs`, for every RX size and number of sessions:

* `TypeCorrect`, `ThreadIsCovered`, `CompletionsBalance`. The invariant ties
  `owner`, `thread` and `tx_completion`: a completion is up exactly between the
  exit of the thread and the end of the wait.
* `PhaseIsKept`: the level at which a transfer goes out is fixed by the first one
  after the first callback (`phase`) and turned over by every turn of a channel that
  passes without a transfer (`slipped`), because `spi_async` refused it or because
  there was nothing to do. The invariant (`PhaseInv`) relates `lrck`, `lrck_level`,
  the channel whose turn it is and the transfer in flight. So the order of thread
  and callback never makes the channels slip; a refused transfer, whose result the
  code does not look at, does, for the rest of the session.
* `HalfCycles`: one transfer per half cycle of LRCK.

`Pcm3060Proofs`, for every finite set of files, any interleaving and any failure:

* `CountCovers` and, from the same invariant, `TeardownIsLast`: the count is at
  least the number of files that hold a reference. A failed open keeps its
  reference, so equality does not hold.
* `DeviceTypeCorrect`, whatever overlaps or fails.
* `OpenRuns`, `ClosedFrees`, `NothingDead`, of programs that make one call after
  the other as long as none failed. The properties speak of the moments between
  calls; the invariant (`LifeInv`) has to say for every step of an open or close
  (`At`) how far the device is up: which kinds of allocations are live and that
  `ptr` names exactly those (`Exactly`), whether the thread and the clock run, and
  that no other file is open where the step creates or frees something (`Lone`).
  That a closed device has freed everything is false of the code and not claimed:
  `put_duplex_ring_buffer` forgets both ends of a ring buffer, so `ClosedMeansFreed`
  says of the ends how many are left, four for each session (`EndsInv`, which counts
  those of the open that is under way).
  The count equals the number of holders there, because no open fails; that is
  what makes the close that frees the last one.
* `ThreadOutlived`, `ThreadClocked`, of the same programs but after failures too,
  where `LifeInv` says nothing any more. The invariant (`ThreadInv`) is about a
  running thread: it is the only one and the one `etx_spi_thread` points to, its
  rings are live, the configuration has a pointer that is not NULL, so that no open
  sets the device up again, and the count is above zero or the last close is about to
  join the thread, so that nothing is freed before (`Attached`). Its clock is on until
  that close switches it off, one statement before it joins the thread
  (`pcm3060.c:58`): in that interval, which every last close has, the thread runs
  without its clock, and the property says that there is no other. References that
  failed opens kept do no harm here: they only delay that close.

`BufferProofs`, for every size and every set of threads:

* `TypeCorrect`.
* `ClaimsAreDisjoint`. The invariant (`ClaimInv`) says that every range ends at or
  before `write_off` and that of two ranges one ends before the other begins.
  Disjointness alone is not inductive: a new claim begins at `write_off`.
  It speaks of the time before the first reset only; a reset that overtakes a
  waiting writer sets `write_off` back while a range is still in use.

* `ReadersSee` and `StoredPublished`. The invariant (`Orderly`) says, for the one
  thread that may change the buffer while `intact`, up to which byte the buffer is
  filled at each of its steps: to what is published while it claims, to what is
  published and announced between the copy and the addition, to what is published
  afterwards. Readers are unaffected: what is published goes back with a new epoch
  only.
* A section without a theorem of its own (`SoloStep`, `ApartStep`, `AheadStep`,
  `PublishedStays`) is about one writer that may come at any time but during a
  reset, also while a sync or a read is under way, which `intact` excludes. What is
  published and announced ends where that writer begins (`Ahead`), so that its
  copy leaves what is published alone.

`PipeBufferProofs`, for every size and finite set of threads, signals included:

* `PipeTypeCorrect`, `WritersAreWoken`, `ReadersAreWoken`, `HeldBytesAreKept`. Every
  step of the pipe is one of the buffer's or leaves the buffer alone
  (`PipeIsBufferStep`), so `Orderly` holds in the pipe too. Beyond it, the
  invariant (`PipeInv`) has four parts: the counter of readers is the number of
  those registered, and everybody keeps to his role; a waiting writer has a reader
  that will wake it unless the completion lets it through (`WritersAwaited`, which
  has to allow for a completion used up by another writer); nobody resets while
  somebody holds bytes, and nobody holds more than is published (`HoldersApart`);
  and whatever is in the buffer was written by somebody who has told or is about
  to (`DataTold`).

`DualBufferProofs`, for every size and finite set of threads:

* `DualTypeCorrect`, `BuffersAreDistinct`. The invariant (`DualInv`) adds that the
  counter is the number of readers inside and what a swapping reader has loaded:
  the write buffer until it has overwritten that pointer, then the other one.
* `ReadersAreUndisturbed`, for any number of writers. `alone` allows what is normal
  for a dual buffer: the writer loads `write_buf`, a reader swaps, and the writer
  writes to the buffer that is then read. Hence `Orderly`, which knows no such
  writer, does not do, and the lemmas about one writer do, once for each buffer
  (`BP == INSTANCE BufferProofs WITH ...`). The invariant (`Sound`, and `Unmixed`
  while `alone`) adds which buffer calls a thread can be in at each place (`Where`),
  that nobody swaps or resets while another reader is counted (`Settled`), that each
  buffer has one writer at a time and no reset beside it (`Single`, `Apart`), and
  that what is copied is published (`Behind`).
  What `alone` excludes is not only left out but false of the code. Two writers in
  one buffer: while one of them is on its way out of the buffer that is read, the
  other may begin there as the first of a new group, announce its bytes and have them
  published, by the first one, before it has copied them; TLC finds this with three
  threads and three swaps. A second reader that comes during a swap: section 6.

`AllocationProofs`, for any selection of containers and any number of calls:

* `HeapAddsUp`. The invariant (`AllocInv`) says that the memory in use is that of
  the containers owned, the lost blocks, and what the calls under way hold: of each
  the parts below the rung it stands on (`Balance`). Each call but the innermost
  waits on the rung of the part the next one builds (`Linked`), so that a return
  moves the blocks of one call to the next, and a failure unwinds each of them by
  what it holds. The values of `Blocks` and `Put`, recursive functions over the
  containers, follow from a solution written down and checked against the
  recursion (`BlocksSolved`, `PutSolved`); no induction is needed, for the
  containers are six.

`Sums` has what the two sums need: the folds of the community modules are
recursive functions on subsets of a finite set, chosen by `CHOOSE`, so that it
must be shown that there is one (`SumExists`) and how it changes with one summand
(`TotalChange`, `TotalSplit`). The induction over finite sets is done as a search
for a smallest counterexample (`SmallestSubset`), with the theorem of the library
that the strict subset ordering is well-founded.

Assumptions on constants are named `...Assumption` in the module that declares
them; the sets of files and of the threads of a pipe or dual buffer are finite,
because a counter counts them, and so is the set of writing files, whose offsets
are summed. The modules with proofs use no recursive operator.

Only model-checked: liveness (`EveryCallReturns`, `CleanupReturns`,
`OrderlyCallsReturn`), which is out of the prover's reach. Every invariant and
every action property of the runs is proved. What the runs with a violation show
is of course not.

## 6. What the checks turned up

With a run and a counterexample:

* `ring_full`: a write of as many bytes as an empty ring has reports no drop and
  leaves `read_idx = write_idx`, an empty ring (`ring_buffer.c:82`).
* `tx_straddle`: a sample that straddles the end of the ring is torn. The second
  chunk of the read lands on top of the first (`ring_buffer.c:168-171`), nothing is
  reported as dropped, and the transceiver puts what it got on the wire. The shipped
  ring has 256 bytes and a sample has 3, so this happens once in every turn of the
  ring but those in which the reader meets its end at a whole sample.
* `tx_stop_early`: `kthread_stop` before the thread first ran makes `kthread`
  return without calling `_tx_run`; nobody completes `tx_completion` and the last
  close never returns (`transceiver.c:283`).
* `pcm_dangling`: an open that finds no device frees the interface and keeps its
  pointer and its reference; the next open calls `init` through it
  (`pcm3060.c:158`).
* `buf_reserve`: a reservation that gets nothing has already joined the writers
  and locked the mutex; the next `buffer_reset` never returns (`buffer.c:290`).

Seen while modelling, and in the models, without a run of its own:

* `read` answers with what the ring dropped. On an RX ring, which nobody fills,
  every read returns its full `count` and delivers nothing (`chrdev_pcm3060.c:151`);
  `src/test/fs_dev.cpp:115` takes the answer for bytes that "could be read".
* The result of `spi_async` is ignored (`transceiver.c:130`): after a refused
  transfer left and right have changed places on the wire. `PhaseKept` counts it in.
  The message is a local of a function that returns while the transfer is in flight
  (`:121`).
* The last close turns the clock off before it joins the thread (`pcm3060.c:58`).
* Every session leaves four ends of ring buffers allocated; `ends` counts them.
* The second chunk of a write that straddles the end of the ring is taken from the
  beginning of the caller's buffer again (`ring_buffer.c:96`), and a read of more
  than is there is bounded by an unsigned difference that wraps
  (`ring_buffer.c:149`). Both are why the contract says what it says.
* The pin may be freed while a transfer whose callback sets it is in flight
  (`transceiver.c:292`); a `tx_init` that fails after the pin was requested keeps
  it (`:219`); a failed SPI lookup is an error pointer where NULL is tested (`:224`).
* `lrck_level` is static and the pin is set to 0 anew: a session may begin with
  either phase (`transceiver.c:48`).
* An open that finds the count above one does not wait for the open that creates
  the interface (`pcm3060.c:127`), and may call `init` before it is set (`:150`). One
  that begins after the count reached zero creates a device under the hands of the
  teardown (`:180`). A configuration that fails at the second buffer is taken for
  complete by the next open (`:96`).
* A `write` of which the ring dropped a byte answers 0 and leaves the offset where
  it was, although the rest was taken (`chrdev_pcm3060.c:175`): a caller that tries
  again sends it twice. `OffsetsAccount` holds because writes within the contract
  are taken entirely.
* A failed `devm_pwm_get` leaves an error pointer in `dev_pwm_sck`; the next init
  and the last close use it (`clock_generator.c:43`, `:66`), where the model stops.
* In `buffer.c`: a write that ends exactly at the end of the buffer drops a byte
  (`:116`); of three writers two wait at the barrier for a mutex that is unlocked
  once (`:126-142`), and the first of them keeps it; a write that begins between
  the addition and the clearing of `n_bytes_written_tmp` loses its announcement
  (`:134-135`); a reset or sync that waited keeps the mutex (`:58-68`, `:337-348`);
  a sync returns before the writers it waited for have published, because the
  mutex is unlocked first (`:132-134`); `buffer_read` from an offset beyond what is
  available returns how much is available and leaves the pointer unset (`:258`).
* In `pipe_buffer.c`: `write_end` wakes no reader that waits for data (`:217`);
  `write_completion` is never cleared, so that a wait for data after the first
  write does not wait (`:15`, `:42`); `read_end` counts what the last reader has
  read, not the sum (`:203`); a reader that starts while the last one leaves, or a
  `copy_to_user` beside readers, may have the bytes it holds emptied and
  overwritten (`:48-53`); a write that began before the first reader registered
  may be reset under its feet.
* In `dualbuffer.c`: a second reader goes on before the first has swapped and reads
  what is being emptied (`:90`); a writer that has loaded `write_buf` writes to what
  has become `read_buf` (`:74`); the swap waits for it in `buffer_sync`, which keeps
  the mutex, so that the next first writer of that buffer waits for ever.
* Allocation: a dual buffer that gets no second buffer frees the struct of the first
  and forgets its two other blocks (`dualbuffer.c:43`); putting a duplex ring or pipe
  leaves its two ends allocated (`duplex_ring_buffer.c:145`,
  `duplex_pipe_buffer.c:143`), which the last close of the driver does for each
  channel. `HeapExact` counts both and shows that there is nothing else.

Read in the code only: `sample_rate_store` compares the number of items `sscanf`
converted with the length of the text, so it rejects every rate
(`chrdev_pcm3060.c:46`); `class_create` and `cdev_add` are not checked, `cdev_del` is
never called, and the class is unregistered and then destroyed (`:212-244`).

## 7. What is not modelled

* The bytes of a frame. `_tx_rx_on_channel` copies less than a sample into
  `mem_tx` when less is readable and leaves the rest of the previous one there.
* `spi_completion` and `mem_rx`: the semaphore is only ever upped, the buffer is
  never read.
* The sysfs attributes and the registration of the character device, the module
  entry and exit, the driver registry: sequential calls into tables of the kernel
  without a state of their own, and the registry is filled by nobody.
* Putting a counting, pipe or dual buffer beside calls that are under way: nothing
  in the repository does it. The pipe's put would wake waiting readers and free the
  completion under them.
* The steps inside `get_duplex_ring_buffer` where an open calls it: in `Pcm3060` it
  succeeds or fails; `Allocation` has the steps.
* The period and duty cycle of the clock, constants of the build.
* That two threads use one file at a time, and with it races on its offset: the
  kernel's affair.
* Logging, formatting, register constants, the device tree itself, the SPI
  controller beyond "completes what was queued, later".
* The C memory model: an action reads and writes the latest values. The fields
  without a lock are `atomic_t` or are ordered by a mutex, except `read_idx` and
  `write_idx` in the queries, whose two loads are modelled in either order, and the
  pointers of the dual buffer, whose loads and stores are actions of their own.

## 8. The plan

What could follow, in this order:

1. The frame of the transceiver (`mem_tx`), composed with two rings: what goes
   over the wire is the samples that were written, in order, or a repetition of
   old bytes when there is less than one.
2. `System`: `Pcm3060`, `Transceiver` and the rings composed, `Pcm3060`'s `Probe`
   and `StopTransceiver` refined by `TxInit` and `TxCleanup`.
3. Putting a pipe beside its callers, if the driver ever comes to use one.
4. Theorems: that a cleanup of the transceiver is never stuck, as an invariant
   (while it waits for the completion the thread is yet to give it), so that what
   `CleanupReturns` owes to the code is proved although liveness is not.
