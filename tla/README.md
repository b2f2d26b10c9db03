# Verification of et-rs

TLA+ models of the parts of this repository where order, failure and sharing
matter: the host library `et-rs` that drives an ET-SoC-1 accelerator, and the
kernels and kernel library `et-k-rs` that run on it. TLC checks every model on
small instances; for all sizes TLAPS proves the bookkeeping of commands, the polling loops
over the driver's queues, the reset of the device, the ownership of its memory, the staging
buffers and who may access them, the queue between two harts, the matrix product and the
partitions of the trace.

1. [The system](#the-system)
2. [The modules](#the-modules)
3. [What the runs check](#what-the-runs-check)
4. [Disagreements found](#disagreements-found)
5. [What is proved](#what-is-proved)
6. [What is not modelled](#what-is-not-modelled)
7. [Plan](#plan)

Running: `tlc -config MCStaging.cfg MCStaging` and so on; `tlapm M.tla` for each module `M`
whose name ends in `_proof`.

## The system

A host process opens a device node as a `Device`. It pushes commands (kernel
launches, DMA lists, queries) onto *submission queues* and pops responses from
*completion queues*; a 16-bit *tag* in the header pairs a response with its
command. The firmware works each queue off in order, lets a command without the
`BARRIER` flag overtake what is still executing, and answers when a command has
completed. The kernel runs on *shires* of 32 *Minions* with two *harts* each;
caches are not coherent, so kernels write back and invalidate lines themselves,
and each Minion's tensor co-processor executes its instructions asynchronously.

`Device` is `!Sync` and single-threaded. Concurrency is between the host thread,
the queues, the DMA engine, the harts, the caches and the co-processors.

| Component | State | Operations | Interacts with |
|---|---|---|---|
| Command tags and completions (`device.rs`) | `tag`, `outstanding`, `abandoned`, `stash` | `next_tag`, `push_cmd`, `collect_response`, `park`, dropping a `PendingLaunch` | firmware through the queues; everything below issues its commands through it |
| Staged and pinned transfers (`device.rs`) | `staging`, `staging_capacity`, a transfer's `pending` chunks, `PinnedBuffer` | `memcpy_h2d/d2h` (sync and pinned), `take_staging`, `restore`, `await_dma`, `set_staging_capacity` | DMA engine, driver mappings |
| Device memory, kernels, launches (`device.rs`) | `next`, `kernel_end`, `args_slots` | `alloc`, `alloc_mark`, `reset_to`, `load_kernel`, `launch_async`, `wait_launch` | DMA engine, compute Minions |
| Transports (`transport/`, `ioctl.rs`, `emu-shim/`) | a file descriptor; the emulator's handle; the driver's queues behind it | `push_sq`, `pop_cq`, `wait_sq`, `wait_cq`, `alloc_dma` | driver, emulator; the loops of `push_cmd` and `collect_response` |
| Device reset and reopening (`device.rs`, `ioctl_transport.rs`) | who has the operations node open, how far the firmware is | `reset_device`, `open`, `with_transport` | other processes on the node, firmware |
| Wire protocol (`proto.rs`, launch options and responses in `device.rs`) | none; what of a transfer has been pushed | `build_*`, `launch*`, `push_dma_*_staged`, `reset_shires`, `parse_*` | firmware, `Device` |
| ELF loader (`elf.rs`) | none | `parse` | `load_kernel` |
| Trace (`et-k-rs/lib.rs`, `trace.rs`) | per-hart control block and partition; a decoder's position | `trace_str`, `TraceBuffer::parse`, `Entries::next` | firmware, which sets up and closes partitions |
| SPSC kernel (`bin/spsc.rs`) | `head`, `tail`, `go`, the ring | `produce`, `consume` | two harts, memory |
| Software coherence (`cache.rs`, `bin/channel_bench.rs`) | lines in L1, L2, L3 and DDR; flags and payloads | `cache_writeback_to`, `cache_invalidate_to`, `run_ping`, `run_pong`, `retire` | caches, host |
| sGEMM (`blas.rs`, `bin/sgemm.rs`, `tensor.rs`) | tile registers, scratchpad, instructions in flight | `sgemm`, `compute_tile`, `tensor_*` | tensor co-processor |
| Buffers, grids, reductions, self-checking programs (`buffer.rs`, `topology.rs`, `lib.rs`, small kernels and examples) | the output array in DDR and the copies above it | `fill`, `alloc_padded`, `Grid`, each kernel's stores, each program's verdict | launches, caches, tensor co-processor |

What is hard, and what makes each component correct:

* **Commands.** Responses come in any order and late; tags wrap. A call must get
  its own response, a tag must not name two commands at once, no tag may leak
  and no response that somebody may ask for may be thrown away.
* **Transfers.** A transfer that fails leaves commands queued that the device
  will execute later. Host memory they name must not be reused or returned.
  Two buffers alternate; each must be refilled, and copied out, at its turn.
* **Device memory.** Allocations, kernel images and argument slots share one bump
  allocator, with marks that go back below any of them. Nothing may have two
  owners, and arguments must stay until their kernel has ended.
* **Loops, reset.** A push or a wait must go on over full and empty queues, signals
  and responses on another queue, fail for a reason only, and return. A reset must
  return a device that has restarted, although the node opens before the firmware
  answers, and the new handle counts its tags from 0 again.
* **SPSC, channel.** Stores reach memory, or the other Minion's cache, late and in
  any order unless a fence (where memory is coherent) or a write-back (on the chip) says otherwise.
* **Wire protocol.** Both sides compute from flags and limits where a field is. Options must reach the
  firmware through every entry point, a transfer be cut into nodes that fit, and a response
  that was cut off not be read beyond its end.
* **sGEMM.** Every tile of C must be computed exactly once for every number of
  tiles, shires and Minions, and stored only when its accumulation is complete.
* **Self-checking programs.** A program must not pass on what an earlier one left in
  memory, nor fail on a device that works; harts are numbered over shire masks with
  gaps and must not share a cell.
* **Trace.** A kernel may stop in the middle of an entry, and may overwrite part
  of its buffer. What is decoded must be what was recorded.

`PROJECT.json` lists the hazards one by one, with the line where each bites.

## The modules

| Module | Lines of code it stands for | Role |
|---|---|---|
| `CommandChannel` | what `push_cmd`/`collect_response` promise | abstract: each command is answered at most once, by its own response |
| `DeviceCommands` | `device.rs` 1545-1800 | tags, stash, abandoned tags; implements `CommandChannel` |
| `Commands_proof` | | theorems about `DeviceCommands` and about `Messages` |
| `DriverQueues` | `device.rs` 1560-1700, `transport/`, `ioctl.rs` | the polling loops of pushes and waits over bounded queues, on both transports |
| `DeviceReset` | `device.rs` 440-545, `ioctl_transport.rs` | `DriverQueues` composed with the device node, the restart of the firmware, `reset_device` and `open`; implements `CommandChannel` across handles |
| `DeviceReset_proof` | | theorems about `DeviceReset` |
| `Staging` | `device.rs` 1070-1540, `buffer.rs` `fill` | staging pool, pipelines, pinned buffers, failures |
| `Staging_proof` | | theorems about `Staging` |
| `DeviceMemory` | `device.rs` 640-1000, 1720-1753 | allocator, marks, kernels, argument slots, launches |
| `DeviceMemory_proof` | | theorems about allocator, marks, slots and queues, and on top of them about arguments and the contents of memory |
| `Messages` | `proto.rs`, `device.rs` 44-205, 825-1056, 1261-1295, 1434-1555 | commands from a call's arguments to the firmware's reading of them, and responses back to its result |
| `BoundedFifo` | | abstract: a bounded FIFO |
| `SpscQueue` | `bin/spsc.rs` | both harts over memory with delayed stores; implements `BoundedFifo` |
| `SpscQueue_proof` | | theorems about `SpscQueue`, and that it implements `BoundedFifo` |
| `CacheChannel` | `cache.rs`, `bin/channel_bench.rs`, layout in `et-abi` | ping-pong over software-managed caches |
| `CacheChannel_proof` | | theorems about the caches' operations and about `CacheChannel` |
| `Sgemm` | `blas.rs` `sgemm`, `bin/sgemm.rs` | launch, partition of C, tile loop, co-processor |
| `Trace` | `et-k-rs/lib.rs` `trace_str`, `trace.rs` | writers, firmware's bookkeeping, decoder |
| `Trace_proof` | | theorems about the writers and the decoder of `Trace` |
| `SpmdOutput` | `et-k-rs/lib.rs` `Grid`, `topology.rs`, six small kernels and the seven programs that check them | launches on masks with gaps, each hart's cells, write-backs and tensor stores, the programs' verdicts |
| `Kernels_proof` | | theorems about `Sgemm` and about `SpmdOutput` |

`MC<Module>` gives the constants of a run values that a configuration cannot
express. A definition whose comment starts with "Variant:" is a plausible bug in
the definition that follows it; nothing uses it, except to see that a property
notices the bug. Below: how state and actions correspond to the code, and what
each model leaves out.

**DeviceCommands.** `outstanding`, `abandoned`, `stash` and the tag counter are
the fields of `Device`. One command is a model value; its life is
`NextTag` (`next_tag`), `Push` or `PushFails` (`push_cmd`, releasing a tag that
was not queued), `CollectStashed` or `Await` (`collect_response`'s look at the
stash), `PopOwn`, `PopOther` (`park`), `PopMalformed` and `WaitFails` (the loop
over the completion queue), `Abandon`, `DropHandle`. `Respond` is the firmware.
One thread calls, so one command at most is between reserving its tag and
queuing it; waits nest with nothing. Response contents are reduced to which
command they answer.

**DriverQueues.** `sq` and `cq` are the driver's rings. `call` is the call the one host
thread is in; a round of its loop is one step: `PushSq` or `SqFull`, `PopCq` or
`CqsEmpty`. `SystemCall` is a round in which a system call fails or is interrupted
by a signal, `Deadline` the moment after which a round in vain is the last one. Polls
change nothing, because the queue is tried again whatever they report. With `backend = "ioctl"`
the lowest completion queue that has data is read and a long response cut off, with
`"emulator"` any queue is read and a long response lost (`Lost`). `Take` and
`Complete` are the firmware, which needs room on a completion queue to go on. Tags do
not wrap here and waits are not abandoned: that is `DeviceCommands`.

**DeviceReset.** `opsFds` says who has the node open, `reset` where `reset_device` is:
`StartReset` takes the tag and drops the handle, `SendReset` or `SendFails` is the management
node, `OpenAgain`/`OpenFails` and `QuerySucceeds`/`QueryFails` the attempts, `ResetDeadline`
the 30 s. `GoDown`, `Boot` and `Serve` are the firmware, which restarts when nobody has
the node open, and can be opened before it answers. `Reopen` is `Device::open` after a failed
reset; it waits until the queues have run empty, since what the driver does with
responses to a closed descriptor is not in this repository. A `PinnedBuffer` borrows its device,
so no mapping outlives the handle. Memory, kernels and staging start afresh with every handle
and are left out.

**Staging.** A chunk is counted in pieces; `CmdPieces` is what one DMA list
moves. `TakeStaging`..`TakeDone` are `take_staging`, one step per buffer because
mapping a replacement may fail; `Fill`, `Push`, `Drain`, `Collect`, `Restore` are
the pipeline loops of both directions. The direction "fill" is `Device::fill`, which writes
its pattern to the first two chunks only. `Perform` and `Reject` are the DMA
engine. Each transfer has its own device range. A push does not block here
(`DeviceCommands` is about the queue); a wait ends in the answer, in `WaitFails`
(timeout, I/O or protocol error: the command may still run) or in a rejection.

**DeviceMemory.** Addresses are units of which a cache line holds `CacheLine`.
`Alloc`, `AllocMark`, `ResetTo`, `LoadKernel`, `LoadFails`, `StageArgs`,
`StageArgsFails`, `PushLaunch`, `PushLaunchFails`, `WaitLaunch`,
`WaitLaunchFails`, `DropPending` and `ReleaseLate` (a park of an abandoned tag)
are the calls of the library and their error paths; `StartArgs`, `FinishArgs`, `Start` and
`Finish` the device: a DMA takes time, in which a launch without `BARRIER` may start.
`slots` is a set; the position of a slot in the vector, by which `args_slot` chooses among
equals, is the order of the launches their host buffers are named after. A caller uses a
mark while nothing has gone behind it. One
command moves the arguments, kernels' segments are written without modelling the
segments' commands, and `LoadFails` covers failures that are definite. Launches without
arguments, which take no slot, are left out.

**Messages.** A message is a number of bytes and the fields that begin in them; `At` reads it at an
offset and finds `Garbled` if no field of that width begins there. One call is made: `Launch`, `PushDmaList` (once for
each command of a transfer), `ResetShires` or `ResetDevice`; `PushCmd` is `push_cmd` with the panic of
`command_size`. `FirmwareTakes` is the reader: it checks the size field and the descriptor's flags,
reads what `proto.rs` says is at each offset, and answers with any status, with or
without its account of a failed kernel, and of any length. `CollectResponse` is `wait_launch`, `await_dma` or
the end of `reset_shires`. Field widths are the real ones; the ranges of the 16-bit and 32-bit types
are scaled down, and an address or a mask is a name. Timeouts, tags and the order of responses
are in `DeviceCommands`, the reuse of buffers in `Staging`.

**SpscQueue.** `mem` is memory and `store[h]` the stores of a hart since its last
fence; `Drain` lets any of them that no older store to its word precedes take
effect, and a fence (`Fenced`) waits until none is left. `LoadEarly` lets the consumer
read a slot ahead of the tail it depends on; the fence discards such a value.
`Payload(i)` is what the producer puts as item i. `Relaunch` launches the image
again, with `Reloads` after loading it, which resets the words. Premise: memory is coherent, in that
a fence waits until both harts see the stores before it. The ET-SoC-1's is not, not even
for the two harts of one Minion (`docs/src/developer-guide/coherence-model.md` 9-16), where the probe is
expected to pass nothing on (`et-rs/examples/spsc.rs` 6-8); the model is of the algorithm, which
"passes once memory is coherent" (`et-rs/README.md` 307). `FairSpec` therefore lets a store
wait forever, and only `Finishes` presupposes, by its premise `CoherentMemory`, that none does.

**CacheChannel.** `copy` holds the lines in each Minion's L1, each shire's L2 and
L3; `ddr` is memory. `Store` and `Load` allocate in L1, `WritebackTo` and
`InvalidateTo` do what `cache_writeback_to` and `cache_invalidate_to` do to the
levels up to their destination, `Replace` lets a cache drop or write back a line
by itself. One step of `Step(m)` is one cache operation or one access of the
kernel's loop. All launches use one buffer: the host uploads zeros to it and gives the next
epoch, but the caches may still hold lines of the launch before, which `execute()` of the
example avoids with a buffer of its own for every run. The
header is reduced to status, errors and iterations.

**Sgemm.** `Valid` is the list of checks of `blas::sgemm`, `Launched`, `ShireSize`,
`ShireBase`, `ShireEnd`, `Tile`, `Row` and `Col` the partition in `entry_point`, and
`Begin`..`Drain` the loop of `compute_tile`. Issuing an instruction adds it to
`ops`; `Complete` lets the co-processor finish any of them at any time, except that
an FMA waits for the B load it is paired with. A register file holds the
coordinates of the sub-tile in it, and a tile of C the sequence of
products summed up, so a wrong or missing product shows. Addresses and their
overflow checks are left out.

**Trace.** One element of `memory` is one byte; the header sizes are scaled down. `TraceStr`,
`WriteHead`, `WriteBody` and `Commit` are the steps of `trace_str` that a trap can
separate, `KernelOver` the end of the kernel, `Corrupt` a stray store. `Copy` is
the host's download, of all of the buffer or its front, and its check of magic and version, and `NextEntry`,
`Exhausted` and `DecodeEnds` the iterator. Only string entries are modelled.

**SpmdOutput.** A cell is a cache line with one value. `Launch` prefills the array if the program
does and starts the harts of the launched shires; `Store` and `Publish` are what a
kernel does to one cell, in L1 or through the tensor co-processor; `Settle` lets a cache replace
a line, or a tensor store land, at any time; `Verify` is the program's comparison, and
`NextRound` its next operation, phase or attempt. `leftover` is what memory held before: the right
result or a wrong one. Uploads, launches and transfers work as in the other modules and
are left out, and so are stale *inputs* in caches (only `ps_math_test` reads an input it must
invalidate) and dirty lines that an earlier program did not retire. `ps_math_test` goes
on after a wrong function and fails at the end.

## What the runs check

Every module has one type invariant, which also says what the code's own range
checks promise (offsets inside partitions, addresses inside DRAM, queues within their
sizes). It is the first conjunct of one of the invariants below.

| Run | Instance | Properties |
|---|---|---|
| `commands` | 3 commands, 2 tags | `OwnResponse`, `TagsAccounted`, `NoResponseLost`, `ImplementsChannel`, `WaitsEnd` |
| `staging` | 3 staging blocks, capacities 2 and 6, commands of 2 pieces, 1 queue, 2 transfers of up to 4 pieces, pinned buffers of two commands | `DmaOnlyIntoHeldMemory`, `DataIntact`, `MappingsAccounted`, `CapacityRespected`, `TransfersReturn` |
| `staging_errors` | any command may be rejected | `DmaOnlyIntoHeldMemory` is violated |
| `memory` | DRAM of 8 units, lines of 2, 2 queues; 4 allocations or loads, or 1 launch and 2 of them, or 2 launches | `MemoryPartitioned`, `NoSharedLine`, `ArgsStable`, `ArgsBufferHeld`, `OnlyHolderWrites` |
| `messages` | 4 devices, commands of up to 110 bytes, transfers of 1, 4 and 9 bytes, 2 trace regions, 3 statuses, responses cut at 5 lengths | `LaunchUnderstood`, `TransferComplete`, `ResultAsAnswered` |
| `memory_spread` | kernels linked at different addresses | `LoadSparesAllocations` is violated |
| `spsc` | 6 items, ring of 2, indices modulo 4, 2 launches | `InOrder`, `ImplementsFifo`, `Finishes` |
| `channel` | payload of 1 word, lines of 2 words, 2 iterations, 2 launches, 3 pairs of levels | `PayloadFresh`, `InStep`, `RetiredToDdr`, `Finishes` |
| `sgemm` | tiles of 2, 2 Minions per shire, 2 shires, 7 problems | `StoredWhole`, `ResultComplete`, `OneWriter`, `StoresInside`, `Returns` |
| `trace` | 2 harts, partitions of 12 bytes, 2 texts each | `PartitionsPrivate`, `DecodedAsRecorded`, `DecodingEnds` |
| `driver` | 4 commands, a submission queue and 2 completion queues of one entry, 1 command at a time in the firmware, 1 reset, both transports | `FailsForAReason`, `ImplementsChannel`, `ReturnsRestarted`, `CallsReturn` |
| `spmd` | 7 programs, two of three shires of 2 Minions, 6 elements, 6 units | `PassMeansWritten`, `NoFalseFailure`, `OneWriterInside` |

Why these bounds are enough:

* `commands`: more commands than tags, so tags are reused while an old response is
  still to come, and three concurrent fates (awaited, parked, abandoned) meet.
  The theorems cover every other size.
* `staging`: a transfer of four pieces through buffers of one piece goes round
  both buffers twice, and a fill relies on both buffers' first pattern twice; with a half of
  three pieces a chunk takes two commands, as a pinned transfer always does; a second
  transfer meets the first one's leftovers on its queue. A second queue adds no order of
  commands that a timeout does not: what matters is that an old command is performed late.
* `memory`: a kernel image with a gap, allocations behind it, an argument
  slot and a mark below any of them fit in eight units; alignment matters with lines of
  two units and a DMA alignment of one; one of the images has a gap, which the theorems
  exclude. Two launches meet a slot that is too small
  for the second and one that is not, on one queue and on two. What happens to arguments is
  claimed until a reset goes below ones that are still outstanding (`orphaned`), see below.
* `driver`: with queues of one entry each is full after one command, and the firmware is stuck
  when two answers are not fetched; one command is answered on the second queue, one on
  either, and one response is longer than the buffer. Three commands before a reset and one
  after it, or one before and three after, give tags that have been used to new commands. The theorems
  cover other sizes.
* `spmd`: the shires {0, 1}, {0, 2} and {1, 2} put a gap nowhere, in the middle and in
  front; six elements over four harts leave a remainder. The levels of `cache_test` are all tried.
  `reset_test` is only run on shire 0, see "Disagreements found". The theorems cover every other size.
* `messages`: of the three limits on nodes each is the smallest for one device, and on one all are
  zero, where a transfer cannot be encoded and must be refused; 110 bytes hold the largest launch
  and three nodes. The large trace region exceeds 32 bits (scaled to 15), the small one is no multiple of a
  line. A response is cut off before its header's end, inside the times, before the status, and before
  and after the diagnosis; the statuses are success, one the SDK names and one it does not.
* `spsc`: six items wrap indices modulo four and a ring of two three times.
* `channel`: the pairs take every level for both directions, with L2 across
  shires rejected; one spontaneous replacement may hit any line at any time, and
  lines of two words put a flag's padding and a payload's next to each other. The theorems
  cover every other size.
* `sgemm`: one shire with partial tiles at both edges and in k, and three tiles
  per Minion; a grid that two shires do not divide evenly; a shire without a tile;
  calls that must be rejected.
* `trace`: partitions take one or two entries, depending on length, one of them
  exactly to the last byte; texts are empty, short and truncated.

Deadlock is not checked: each of these systems may stop (no call is made, a
bound on commands, transfers, launches or texts is used up).

Named bounds: `MaxTransfers`, `MaxTotal`, `PinnedSizes` (Staging), `MaxLaunches`,
`MaxSerial`, `Budgets` (DeviceMemory), `DmaLimits`, `TransferLengths`, `TraceRegions`, `Statuses`,
`Cuts` (Messages), `MaxResets` (DeviceReset), `MaxLaunches`, `N` (SpscQueue), `MaxEpochs`,
`Iterations`, `MaxReplacements` (CacheChannel), `Problems` (Sgemm), `MaxTexts`,
`Lengths`, `CopiedLengths` (Trace), `Setups`, `MaskBits`, `Elements`, `Units` (SpmdOutput), and the
set `Commands`.

Fairness, and why the code justifies it:

* `WaitsEnd`: the firmware answers what is queued, and a call that is blocked keeps
  polling (the loop of `collect_response`); timeouts are never forced, the default has none.
  A malformed response, which names no tag, ends the promise for its command.
* `TransfersReturn`: the host thread runs, the DMA engine works through its queues.
* `Finishes` (SPSC): both harts run (`FairSpec`); claimed of launches in which no hart timed out.
  That stores reach memory in the end is not fairness of the specification, as the chip does
  not do that, but the premise `CoherentMemory` of the property. Without the premise TLC finds it violated, by a
  store that no other hart ever sees: what the probe reports on the chip.
* `Finishes` (channel), `Returns`: Minions execute; co-processors complete what was
  issued. Nothing is assumed of when caches replace lines.
* `DecodingEnds`: the decoder is a loop of one thread.
* `CallsReturn`: the host thread's loops run (`Looping`,
  `ResetCall`); the clocks of a push and of a reset run (`PushDeadline`, `ResetDeadline`), while
  a wait may have none; the firmware works while it serves, and restarts once nobody has the node
  open; another process closes it in the end. Nothing forces a call to be made, and
  `CallsReturn` leaves out a wait for a response the emulator has lost.

## Disagreements found

Two runs show the code doing something a comment of it rules out.

* **`staging_errors`** (`device.rs` 1511-1522, 1077): `await_dma` drains the tags of
  all commands of a chunk before it awaits the first. If that command fails with an
  error status while a later one is queued, the later ones are no longer in
  `pending`, `dma_may_be_in_flight` answers no, and buffers the device will still
  access go back to the pool. The `staging` run therefore lets the device reject only
  the last command of a chunk.
* **`memory_spread`** (`device.rs` 754, 777): every load sets `kernel_end` to the end of its own
  image and only memory above it is protected. A kernel linked above a live
  allocation moves the line past it, and the next load overwrites the
  allocation. Kernels of this toolchain are all linked at the base of DRAM, as in `memory`.

Met while modelling, without a run of their own:

* `load_kernel` refuses to replace a kernel by a larger one even if nothing has been
  *allocated* behind it, once an argument slot has: slots count as allocations.
* `reset_to` below the arguments of an outstanding launch forgets their slot, and a
  later launch on another queue may write its arguments there while the first
  kernel runs; the comment on `args_slots` (`device.rs` 364) excludes overwriting without
  mentioning resets. `ArgsStable` and `OnlyHolderWrites` stop at such a reset.
* Nothing clears `go` at the end of `spsc.rs` (107, header at 15), so a second launch of the same loaded
  image starts with the first launch's sentinel and indices, and the consumer may run before the
  producer has initialised the queue: with `Reloads = FALSE` TLC finds `InOrder` violated.
* `collect_response` (`device.rs` 1649) matches a response by its tag alone; the doc of `Error::Protocol`
  (`error.rs` 50) lists a wrong `msg_id` among the mismatches it reports.
* `proto.rs` 342 says a CM reset must be pushed with `MM_RESET`; `reset_shires` (`device.rs` 1284) uses
  `HIGH_PRIORITY`, and `proto.rs` 38-41 says the driver refuses `MM_RESET`.
* A mark older than an earlier reset can lie inside an argument slot, which is then
  kept (`device.rs` 690) although its tail is free again.
* `reset_test.rs` 48-53 launches the reduction on all shires with one cell per hart, "so that
  n_harts equals the number of output slots the kernel writes". The kernel numbers harts by
  shire, so on a mask with a gap the harts above it write nothing, and the cells that stay
  unwritten, which the program does not prefill, are summed as they are.
* A slot that became too small is kept when a longer one is added, so the number of slots
  is bounded by launches in flight (`device.rs` 707) only for arguments of one size.
* `bin/spsc.rs` 55-57 calls the default placement of its ring "coherent through the shared L1 of one
  minion". `coherence-model.md` 9-16 reports of that placement that "the consumer sees nothing", as
  fence-only sharing "does not propagate, even between the two harts of a single minion";
  `concurrency-demos.md` 44-56 and `et-rs/examples/spsc.rs` 6-8, 99-103 agree with it.
* `tensor-extension.md` 136-140 waits for `Load0` after a store from the scratchpad,
  `tensor.rs` documents `Store`.

## What is proved

`Commands_proof` proves of `DeviceCommands`, for every set of commands and every positive
number of tags (`NumTagsAssumption`) and a `None` that is no command (`NoneAssumption`):

| Theorem | |
|---|---|
| `TypeCorrect` | `TypeOK` |
| `Inductive` | `IInv`, the inductive invariant |
| `ResponsesAreOwn` | `OwnResponse` |
| `TagsAreAccounted` | `TagsAccounted`, `TagNamesOneCommand` |
| `ResponsesAreKept` | `NoResponseLost` |
| `Refinement` | `Spec => ImplementsChannel` |

The safety properties are not inductive by themselves. That a popped response is
one's own depends on where responses with one's tag can be. `IInv` is the
conjunction of `TypeOK`, `OwnResponse`, `TagsReserved` (reserved tags are
those of commands whose response is still due, each of one command), `NoResponseLost`,
`TagNamesOneCommand`, `ResponsesInPlace` (a response is in one place, the stash
keeps it under its command's tag, and its command is still waiting for it or
abandoned) and `OneCallAtATime` (one command at most is between
`next_tag` and its push or inside a wait). Each action has a lemma with one step per
conjunct; the central argument is in the pop: tag equal and both commands holding
it make the commands equal by `TagsReserved`, so the response delivered is the waiter's. The
refinement maps `DeviceCommands`' fields to the channel's state per command; every
action maps to the channel action of the same meaning or to a stutter, the stutters
being `next_tag`, parking and failed pushes.

Of `Messages` it proves, for every limit a device may report (`DmaLimits`), every length of transfers, region,
status and place to cut a response off, and all ranges of the scaled types that hold the largest launch
(`MessagesAssumption`), with an `Absent` that is no number (`AbsentAssumption`):

| Theorem | |
|---|---|
| `MessagesInductive` | `MessagesIInv`, the inductive invariant |
| `LaunchesUnderstood` | `LaunchUnderstood` |
| `TransfersComplete` | `TransferComplete` |
| `ResultsAsAnswered` | `ResultAsAnswered` |

`Conveyed`, the heart of the invariant, says that what the firmware reads in the command it takes as the
j-th is what the call meant by it (`Expected`). A launch's optional parts stand one behind the other, so
where a part begins depends on the flags that say which are there: the lemmas on `At` say what
a concatenation holds at an offset, once for either half, and compose for all eight combinations.
`Progress` says that command j of a transfer begins at the byte `Before(j)` where its
predecessor ended. Then node k of command j is number (j - 1) * `MaxListNodes` + k of the whole
transfer, and it moves the bytes from `MaxElem` times that number less one on: two nodes never move
one byte (`SlotsDisjoint`), and none is left to no node (`SlotsCover`). `FromSubmission`, `FromReset`
and `FromResponse` say where a result has come from; that of a response is what the firmware has written
into it, as far as it has not been cut off.

`DeviceReset_proof` proves, for every set of numbered commands, every number and size of queues
and every firmware parallelism (`DriverQueuesAssumption`, `DeviceResetAssumption`), and provided
the driver does not open the node while a reset is pending (`OpensWhileAsked = FALSE`):

| Theorem | |
|---|---|
| `Inductive` | `IInv`, the inductive invariant |
| `FailuresExcused` | `FailsForAReason`, with `TypeOK` |
| `RestartedWhenReturned` | `ReturnsRestarted` |
| `ChannelImplemented` | `Spec => ImplementsChannel` |

`IInv` adds to `FailsForAReason` where the host thread can be (`CallConsistent`), that the tags of
one handle are distinct and everything begun with a closed one is gone (`TagsDistinct`), that a
command is in one place until it is answered (`QueuesConsistent`), that with a handle
the queues hold nothing of an earlier one (`QueuesCurrent`), and how the firmware's state
follows the reset's (`ResetConsistent`): a firmware that is up while the retries run has restarted,
and one that is down or starting has empty queues. The last two meet in `QuerySucceeds`: only because the
queues are empty may the new handle count its tags from 0, and matching by tag be
matching by command. Without the assumption about the driver the theorems fail: the old
firmware answers the query before it restarts.

`DeviceMemory_proof` proves, for every size of DRAM, both alignments, every set of allocation sizes and of lengths of arguments, and any number of queues
and launches (`DeviceMemoryAssumption`):

| Theorem | | further assumption |
|---|---|---|
| `ArgsInvariant`, `TypeCorrect` | `ArgsInv`, `TypeOK` | |
| `ArgsBufferKept` | `ArgsBufferHeld` | |
| `MemoryStaysPartitioned` | `MemoryPartitioned` | `ImagesContiguous` |
| `LinesKeptApart` | `NoSharedLine` | `ImagesContiguous`, `LinesAligned` |
| `Inductive` | `PlacesInv /\ ArgsKept`, the inductive invariant | `ImagesContiguous` |
| `ArgumentsStable` | `ArgsStable` | `ImagesContiguous` |
| `HoldersWrite` | `OnlyHolderWrites` | `ImagesContiguous` |

`ImagesContiguous` says that every image occupies the addresses from the base of DRAM to its end
without a gap, as the toolchain links kernels; it is what makes `kernel_end`, a single line,
enough to protect several kernels, and `memory_spread` shows what happens without it. `LinesAligned`
says that the coarser of the two alignments is a multiple of a cache line: both are powers of
two (`transport/mod.rs` 48-50 and `CACHE_LINE` of `et-abi`).

The argument has three layers. `ArgsInv` needs no assumption on images: slots have buffers of their
own (`SlotsNamed`); while an argument DMA is queued or under way its buffer holds the launch's
arguments, its tag is outstanding, and so a slot that has the buffer cannot be handed out
(`DmasHeld`); a queued launch has not started and, without `BARRIER`, has its arguments already
(`KernelsQueued`); each command stands in one place, a launch behind its arguments
(`QueueOrder`); what has not begun has left no trace (`NotBegun`). `MemoryInv` is about addresses: the cursor
lies above everything handed out and the end of the kernels below it (`CursorAbove`), places are
apart (`AllApart`), and what a reset to a mark keeps ends below the mark (`MarksSeparate`),
which is why handing out memory from the mark again is safe. `ArgsKept` joins them: as long as arguments
may be written or read, a slot of their address is taken (`SlotsTaken`), which `reset_to` below it
is the only call to break (`orphaned`); a kernel does not start before its argument DMA has
completed (`ArgsFirst`: through the order of the queue and `BARRIER`, or because
`launch_async` has awaited the DMA); and arguments that have arrived stay (`ArgsThere`),
because every write to DRAM goes to a place that is apart from a taken slot.

`Trace_proof` proves, for every number of harts, sizes of partitions and headers and lengths of
texts (`TraceAssumption`) and a `None` that is no number (`NoneAssumption`):

| Theorem | |
|---|---|
| `Inductive` | `IInv`, the inductive invariant of the writers |
| `PartitionsKept` | `PartitionsPrivate` |
| `LayoutInductive` | `DInv`, the inductive invariant of entries and decoder |
| `DecodedAlways` | `DecodedAsRecorded` |

`IInv` says that every byte of an entry lies in its hart's partition (`MemoryOwned`), that the
size in a header stays a size (`HeadersIntact`), and that an entry under way fits where it was begun
(`EntriesFit`): the offset is read once by `trace_str` and only the hart itself moves it, so what the
check of the room has found still holds when the bytes are written. `DInv` adds, for every
partition but the one a stray store of the kernel may have hit (`torn`), that there are positions at which the entries its
hart recorded stand one behind the other, headers and all characters in place and the last one up to
the offset (`Layout`), that an entry under way is written as far as its hart has come
(`Written`), and that the decoder has yielded those that lie before its position, and stands at the
next of them (`DecodedTo`). An entry that is recorded lies below the offset and what is
written later above it, so it stays; the size the firmware puts into the header is the offset, so with
the whole buffer copied the decoder neither stops early nor reads on into bytes of no entry, and
with the front of it only it yields a prefix.

`Kernels_proof` proves of `Sgemm`, for every size of tiles, number of Minions and shires and every set of
arguments (`SgemmAssumption`):

| Theorem | |
|---|---|
| `Inductive` | `IInv`, the inductive invariant |
| `StoredWholeAlways` | `StoredWhole` |
| `OneWriterAlways` | `OneWriter` |
| `ResultCompleteAlways` | `ResultComplete` |
| `StoresInsideAlways` | `StoresInside`, with `TypeOK` |

`IInv` says of each Minion where its tile lies (`InBlock`), which instructions may be under way at
each point of the loop (`Underway`), that completed loads have left this turn's operands
(`OperandsLoaded`), that the registers hold the products of the turns that are over, and nothing
else (`SumsUp`), and that the tiles behind it are in memory (`LeftBehind`); `Memory` says that
what is there is whole and stored by its owner (`Owns`). The asynchronous co-processor is met by
`Underway`: an FMA completes only with both operands there, and a wait finds nothing left. The
arithmetic is in a section of its own: a quotient and remainder that fit are the
quotient and remainder, from which tiles have one owner each (`OneWriter`) and no tile is without
one (`ResultComplete`), for numbers of tiles that nothing divides.

Of the programs of `SpmdOutput` it proves, for every set of shires a device may have, every number
of Minions in a shire and of units, and every number of elements not below that of a shire's harts
(`SpmdAssumption`, `EnoughElements`; `reset_test` only on devices without a gap in their mask,
`NoGapInResetTest`):

| Theorem | |
|---|---|
| `SpmdInductive` | `SpmdIInv`, the inductive invariant |
| `SpmdWriters` | `OneWriterInside`, with `SpmdTyped` |
| `SpmdPasses` | `PassMeansWritten` |
| `SpmdFailures` | `NoFalseFailure` |

`Contents`, the core of `SpmdIInv`, says of each cell that it is `Fresh` and `Bare` (no hart has
stored to it, and it holds the prefill) or `Owned` by the one hart whose cell it is (`Put`): the
value is in DDR, or above it, and then DDR still holds the prefill (`Written`); and a hart that is
done with a cell has left it in DDR if the program writes back to memory. So a comparison that finds
a right value finds this launch's, since the prefill is never right, and when all harts
have returned after writing back to memory it finds nothing else (`AllReturned`). `HostFrame` says that
nothing is above DDR when a program passes, so that its next launch starts from memory alone.

Three results about the model's arithmetic carry this. `AlwaysPartitioned`: each kernel deals
the cells out so that every cell of a launched shire has one hart and no hart leaves the array, through
masks with gaps (`MinionsPartition`, `SubtestsPartition`) and through the ranks of `ps_math_test`, which
count the launched shires without gaps (`Ranks`, `UnitsPartition`). `SlicesPartition`: the slices of `range` follow each
other from the first element to the last, whatever the remainder. `SlicesSumUp`: the harts' sums add up
to the host's total. Sums are recursive, so the last needs induction over finite sets. It is
done without the library's induction theorems: of the subsets for which a statement is false
there is a smallest one (`SmallestSet`, from well-foundedness), and that one is refuted (`SumWithout`,
`SumApart`, `SumOfParts`, `SumPositive`).

`SpscQueue_proof` proves, for every number of items, size of the ring and width of the indices
(`SpscAssumption`: the width is a multiple of the ring's size and larger):

| Theorem | | further assumption |
|---|---|---|
| `Inductive` | `IInv`, the inductive invariant | `FreshImage` |
| `InOrderAlways` | `InOrder` | `FreshImage` |
| `ImplementsFifoAlways` | `Spec => ImplementsFifo` | `FreshImage`, `IndicesWritten` |

`FreshImage` says that an unwritten word is not the sentinel and that a relaunched image is
loaded again: "Disagreements found" says what happens otherwise. `IndicesWritten` says that no index
equals what an unwritten word holds, which for the image is the case below 0xDEADBEEF items:
only the refinement needs it, as it tells an index that was initialised from one that was not.
`IInv` speaks of counts that do not wrap (`Handled`, `Published`, `Freed`) where the code has indices
that do: indices are these counts, wrapped (`Counts`), memory lags behind each by one store at most,
because a fence stands between two (`Stores`), and slots between the counts hold their items
(`Shared`). Because counts differ by the ring's size at most, and the width is larger, equal indices
are equal counts, and slots of different items are different.

`CacheChannel_proof` proves, for every length of messages and of lines, every number of iterations,
launches and replacements, all pairs of levels and both placements of the Minions
(`ChannelAssumption`), and a `None` that is no copy of a line (`NoneAssumption`):

| Theorem | |
|---|---|
| `ChannelInductive` | `IInv`, the inductive invariant |
| `ChannelTyped` | `TypeOK` |
| `PayloadAlwaysFresh` | `PayloadFresh` |
| `AlwaysInStep` | `InStep` |
| `AlwaysRetiredToDdr` | `RetiredToDdr` |

The module first forgets the kernel and reasons about a line's *path*, the copies a Minion meets on
its way to it in L1, L2, L3 and DDR (`IsPath`). The path of a line's owner and that of its peer join
where the Minions share a cache (`Joined`). A path is `Settled` at a level if all copies up to one at
that level or beyond it agree, so that what the owner reads is also what a reader finds there; the
peer's copies are `Fresh` if they are what the owner reads; nothing dirty is left if both are
`Quiet`. One lemma for each operation (`LoadCarries`, `BackCarries`, `DropCarries`, `ReplaceCarries`,
`PeerDropCarries`, `StoreSettles`, `UploadQuiet`) says what it makes of these, and that it spoils
none of them by the way (`Carried`); in particular a cache may replace any line at any time. Then the layout: a line
belongs to one Minion (`LinesShared`), which needs `NextLine` between the two payloads, so no
write-back of one Minion undoes words of the other.

`IInv` has three parts. `Owned` says of each line that only its owner's path holds dirty copies, and
that the owner's copies agree while one is dirty, so the store of one word keeps the others on the line; and
that no cache holds a flag that has not been sent (`NoFuture`), so an awaited flag that
is seen was sent in this launch. `Control` says how far the Minions are, one message apart at most (`Steps`), that
the kernel has accepted only levels the Minions share (`Accepted`), and `PayloadFresh`. `Contents` says what
the paths hold at each point of the kernel: a payload is settled at the write-back level before the flag
that announces it is stored (`DataPart`), a flag is settled there when it has been published
(`FlagPart`), and after `invalidate_received` the reader's copies of the payload are fresh and stay so
while it reads (`ReadPart`). These meet in `Read`: the reader is past a flag that was sent, so its peer
has published the payload and will not store in it again before the reply, and what is read is what is
expected. `retire` settles everything in DDR, where nothing dirty can follow; so the host's zeros at the next
launch stay, and whatever flag the caches kept is of an earlier epoch, below any awaited one.

`Staging_proof` proves, for every number of blocks and queues, and every length of buffers,
commands and transfers (`StagingAssumption`, `PowersDouble`):

| Theorem | | further assumption |
|---|---|---|
| `HostMemoryAlways` | `HostState`, inductive | |
| `MappingsAccountedAlways` | `MappingsAccounted` | |
| `CapacityRespectedAlways` | `CapacityRespected` | |
| `TransferInductive` | `Transfer`, inductive | `OnlyLastRejected` |
| `DmaOnlyIntoHeldMemoryAlways` | `DmaOnlyIntoHeldMemory` | `OnlyLastRejected` |
| `DataInductive` | `IInv`, the inductive invariant of the data | `OnlyLastRejected` |
| `DataIntactAlways` | `DataIntact`, with `TypeOK` | `OnlyLastRejected` |

`PowersDouble` says what `2 ^ k` is, of which the prover knows nothing; that every length has a power of
two that is not less and below its double follows (`PowerNotLess`, by a smallest counterexample). `OnlyLastRejected` says that the device rejects no command of a chunk but the
last; `staging_errors` shows that the theorem needs it.

The invariant has layers. `HostState` is about the host's memory: what the host thread is in the
middle of (`Phases`), which blocks are mapped, that a pool and a transfer have two distinct buffers at
most and none larger than half the capacity (`Mappings`), and which tags are pending (`Pushing`).
It holds whatever the device does, and the mappings and the capacity follow from it.
`Transfer` adds the commands: a queue holds those of a transfer in the order of
their places (`Ordered`); a command somebody waits for is on the queue of the transfer, uses one of its
buffers, is not collected and comes after those answered (`Due`), every other one goes to memory
that is leaked (`Held`); and a command that is answered with an error ends its chunk
(`Answered`, `EndsChunk`). The central argument is in `Restore`: buffers go back to the pool only
if nothing is pending and no wait has failed, so by `Due` no command is left on the queue, because
the one whose error ended the transfer was the last of its chunk and the others of its chunk have been
collected, and by then no command is without a waiter except those of leaked buffers.

`Moved`, the third layer, follows the data through the two buffers. `Chunks` fixes which chunk is
being pushed when one is complete, and bounds the tags from below: the older half of `pending` is of
the chunk that is awaited next, the newer of the one after it. `CommandData` says that a queued upload finds its
pieces in its buffer, `StagedData` that the chunk being pushed is staged and that a fill's first
chunks keep the pattern, and `MovedData` that every piece a command was made for has arrived (in the
device's memory, or for a download in the caller's or in the buffer of its chunk) or is on
its way (`OnItsWay`: a queued command covers it, or one was refused and the host will see the
error). The central arguments are that the chunk which is produced next has a buffer no queued
command names (`OtherBuffer`: every tag left is of the chunk before it, and two chunks in a row have
different buffers, `BuffersApart`), that a download writes only one of the two chunks in
flight (`InFlightChunk`) and so spoils no piece that waits to be copied out, and that when a chunk's tags
are collected all its pieces are there, because no tag is left at or below them (`AwaitDoneChunks`).

Only model-checked: liveness and whatever needs `ENABLED`, both out of the prover's reach. Every
invariant and every action property that a passing run checks is stated by a theorem.

## What is not modelled

* The driver and the emulator's device layer, which are outside the repository: `DriverQueues`
  models them from how the transports use them. The in-memory transport of the tests.
* The ELF parser: `DeviceMemory` takes a parsed kernel to be a set of segments.
* Real time: a timeout may happen at any poll, the deadlines of a push and of a reset
  at any point of theirs.
* `_start` and `MsgBuf`: assembly, and formatting into a fixed buffer.
* What vector, tensor and counter instructions compute (`simd.rs`, `pmu.rs`, the rest of
  `tensor.rs`), error texts, generated bindings, build scripts, `hello` and `null`.

## Plan

Modelled first were commands, on which everything rests, then transfers and
memory, where a mistake corrupts data silently, then the kernels, then the driver's
queues, the reset and the programs that check the device, then messages. What is left:

1. Compose `DeviceCommands` with `DeviceMemory`: launches issued through real tags,
   so that a lost tag and a lost slot are seen together.
2. Abstract specifications: a transfer as one atomic copy that `Staging` implements; an
   atomic memory, which `CacheChannel` implements between flag and payload.
3. `elf::parse` over small images with wrapping arithmetic, and what `load_kernel` writes; `Trace`'s
   scalar entries.
