---------------------------- MODULE DeviceMemory ----------------------------
(***************************************************************************)
(* Who owns which part of device DRAM in `Device` (et-rs/src/device.rs):   *)
(* the bump allocator with its marks, kernel images loaded at the address  *)
(* they are linked for, and the argument slots of launches, which a slot   *)
(* table recycles while launches and argument DMAs are still in flight on  *)
(* the submission queues.                                                  *)
(*                                                                         *)
(* DRAM is 0 .. DramSize - 1 in units of which the cache line and the DMA  *)
(* alignment are multiples.  Each unit remembers who wrote it last.        *)
(***************************************************************************)
EXTENDS Integers, Sequences, SequencesExt

CONSTANTS
  DramSize,     \* DramInfo::size; base is 0
  CacheLine,    \* et_abi::CACHE_LINE
  DmaAlign,     \* DramInfo::alignment()
  Images,       \* kernel images: sequences of segments <<vaddr, end>>
  Sizes,        \* sizes the caller allocates
  ArgLens,      \* lengths of launch arguments
  Queues,       \* submission queues
  MaxLaunches,  \* bound on the number of launches
  MaxSerial,    \* bound on the number of allocations and loads
  Budgets,      \* bound on both: pairs of a number of launches and one of
                \* allocations and loads
  Nobody

ASSUME DeviceMemoryAssumption ==
  /\ DramSize \in Nat \ {0} /\ MaxLaunches \in Nat /\ MaxSerial \in Nat
  /\ Budgets \subseteq (0 .. MaxLaunches) \X (0 .. MaxSerial)
  /\ CacheLine \in Nat \ {0} /\ DmaAlign \in Nat \ {0}
  /\ Sizes \subseteq Nat /\ ArgLens \subseteq Nat \ {0}
  /\ \A image \in Images : \A seg \in ToSet(image) :
       seg \in Nat \X Nat /\ seg[1] <= seg[2]

VARIABLES
  next,        \* Device::next
  kernelEnd,   \* Device::kernel_end
  regions,     \* DeviceRegions the caller holds
  kernels,     \* LoadedKernels nothing has been loaded over
  marks,       \* AllocMarks the caller holds
  serial,      \* number of allocations and loads so far
  slots,       \* Device::args_slots: a slot's place in the vector is the order of
               \* the launches their buffers are named after
  hostArgs,    \* what each slot's host buffer holds, Nobody if unmapped
  outstanding, \* commands whose tag is in Device::outstanding
  answered,    \* commands the device has completed
  failedDma,   \* launches whose argument DMA completed with an error
  launch,      \* the launches
  queue,       \* queue[q]: commands submitted and not started, in order
  copying,     \* argument DMAs the device has started and not completed
  running,     \* launches the compute minions are executing
  dram,        \* who wrote each unit last
  orphaned     \* history: a reset went below arguments still outstanding

allocator == <<next, kernelEnd, regions, kernels, marks, serial, orphaned>>
launching == <<slots, hostArgs, outstanding, launch, queue>>
device == <<answered, failedDma, copying, running, dram>>
vars == <<next, kernelEnd, regions, kernels, marks, serial, slots, hostArgs,
          outstanding, launch, queue, answered, failedDma, copying, running, dram, orphaned>>

Addresses == 0 .. DramSize - 1
Launches == 1 .. MaxLaunches
Args(l) == <<"args", l>>
Kernel(l) == <<"launch", l>>
Larger(a, b) == IF a > b THEN a ELSE b

Units(r) == r.addr .. r.addr + r.size - 1
ImageUnits(image) == UNION {seg[1] .. seg[2] - 1 : seg \in ToSet(image)}

Init ==
  /\ next = 0
  /\ kernelEnd = 0
  /\ regions = {}
  /\ kernels = {}
  /\ marks = {}
  /\ serial = 0
  /\ slots = {}
  /\ hostArgs = [b \in Launches |-> Nobody]
  /\ outstanding = {}
  /\ answered = {}
  /\ failedDma = {}
  /\ launch = [l \in Launches |->
                 [stage |-> "unused", addr |-> 0, size |-> 0, q |-> Nobody, barrier |-> TRUE]]
  /\ queue = [q \in Queues |-> <<>>]
  /\ copying = {}
  /\ running = {}
  /\ dram = [a \in Addresses |-> Nobody]
  /\ orphaned = FALSE

\* No launch_async is under way.
Idle == \A l \in Launches : launch[l].stage # "staged"

WithinBudget(launches, serials) == \E b \in Budgets : launches <= b[1] /\ serials <= b[2]
Launched == Cardinality({l \in Launches : launch[l].stage # "unused"})
-----------------------------------------------------------------------------
(***************************************************************************)
(* The allocator.                                                          *)
(***************************************************************************)

\* `align_up`
AlignUp(value, align) == ((value + align - 1) \div align) * align

\* Variant: the cursor is used as it is.
AllocStartUnaligned == next
AllocStart == AlignUp(next, Larger(DmaAlign, CacheLine))
\* Variant: the room is what is left before the start is aligned.
FitsUnaligned(size) == next + size <= DramSize
Fits(size) == AllocStart <= DramSize /\ size <= DramSize - AllocStart

Alloc(size) ==
  /\ Idle
  /\ WithinBudget(Launched, serial + 1)
  /\ Fits(size)
  /\ next' = AllocStart + size
  /\ serial' = serial + 1
  /\ regions' = regions \cup {[id |-> serial + 1, addr |-> AllocStart, size |-> size]}
  /\ UNCHANGED <<kernelEnd, kernels, marks, orphaned, launching, device>>

AllocMark ==
  /\ Idle
  /\ marks' = marks \cup {[at |-> next, serial |-> serial]}
  /\ UNCHANGED <<next, kernelEnd, regions, kernels, serial, orphaned, launching, device>>

\* Variant: the host buffer of every forgotten slot is unmapped.
LeakedNever(slot) == FALSE
\* A forgotten slot whose command is outstanding leaks its host buffer.
Leaked(slot) == slot.owner \in outstanding

ResetTarget(m) == Larger(m.at, kernelEnd)

\* Variant: all argument slots are kept.
KeptAll(target) == slots
Kept(target) == {slot \in slots : slot.addr < target}

\* `reset_to`.  The caller gives up the regions it obtained after the mark, and
\* the marks the allocator went behind.
ResetTo(m) ==
  LET target == ResetTarget(m) IN
  /\ Idle
  /\ next' = IF target < next THEN target ELSE next
  /\ regions' = {r \in regions : r.id <= m.serial}
  /\ marks' = {k \in marks : k.at <= next'}
  /\ slots' = Kept(target)
  /\ hostArgs' = [b \in Launches |->
       IF \E slot \in slots \ Kept(target) : slot.buf = b /\ ~Leaked(slot)
       THEN Nobody ELSE hostArgs[b]]
  /\ orphaned' = (orphaned \/ \E slot \in slots \ Kept(target) : Leaked(slot))
  /\ UNCHANGED <<kernelEnd, kernels, serial, outstanding, launch, queue, device>>

\* The caller fills a region it holds (memcpy_h2d).
WriteRegion(r) ==
  /\ Idle
  /\ dram' = [a \in Addresses |-> IF a \in Units(r) THEN <<"region", r.id>> ELSE dram[a]]
  /\ UNCHANGED <<allocator, launching, answered, failedDma, copying, running>>
-----------------------------------------------------------------------------
(***************************************************************************)
(* Loading kernels.                                                        *)
(***************************************************************************)

\* Variant: memory allocated since the last load is not looked at.
LoadableAnywhere(image) == \A seg \in ToSet(image) : seg[2] <= DramSize
Loadable(image) ==
  \A seg \in ToSet(image) :
    /\ seg[2] <= DramSize
    /\ ~(seg[1] < seg[2] /\ seg[1] < next /\ kernelEnd < seg[2])

WriteImage(units) ==
  /\ dram' = [a \in Addresses |-> IF a \in units THEN <<"kernel", serial + 1>> ELSE dram[a]]
  /\ serial' = serial + 1

LoadedBefore(units) == {k \in kernels : ImageUnits(k.image) \cap units = {}}

\* The highest end of a segment, aligned as far as DRAM goes.
AlignedEnd(end) ==
  IF AlignUp(end, DmaAlign) > DramSize THEN DramSize ELSE AlignUp(end, DmaAlign)
KernelEndAfter(image) ==
  LET ends == {kernelEnd} \cup {seg[2] : seg \in ToSet(image)}
  IN {AlignedEnd(occupied) : occupied \in {e \in ends : \A f \in ends : f <= e}}

LoadKernel(image) ==
  /\ Idle
  /\ WithinBudget(Launched, serial + 1)
  /\ Loadable(image)
  /\ WriteImage(ImageUnits(image))
  /\ kernels' = LoadedBefore(ImageUnits(image)) \cup {[id |-> serial + 1, image |-> image]}
  /\ kernelEnd' \in KernelEndAfter(image)
  /\ next' = Larger(next, kernelEnd')
  /\ UNCHANGED <<regions, marks, orphaned, launching, answered, failedDma, copying, running>>

\* A DMA of the load fails when the image below `cut` is written: nothing is
\* reserved.  (When the device may still be writing is Staging's subject.)
LoadFails(image, cut) ==
  LET written == {a \in ImageUnits(image) : a < cut} IN
  /\ Idle
  /\ WithinBudget(Launched, serial + 1)
  /\ Loadable(image)
  /\ WriteImage(written)
  /\ kernels' = LoadedBefore(written)
  /\ UNCHANGED <<next, kernelEnd, regions, marks, orphaned, launching, answered, failedDma, copying, running>>
-----------------------------------------------------------------------------
(***************************************************************************)
(* Launching.  The arguments are copied to a slot by a DMA on the launch's *)
(* own queue; one command moves them.                                      *)
(***************************************************************************)

\* Variant: a slot is free once its argument DMA is collected.
ReusableEarly(len) ==
  {slot \in slots : slot.size >= len /\ slot.owner \notin {Args(l) : l \in Launches}}
Reusable(len) == {slot \in slots : slot.size >= len /\ slot.owner \notin outstanding}

FirstOfSmallest(reusable) ==
  {slot \in reusable : \A other \in reusable :
     slot.size < other.size \/ (slot.size = other.size /\ slot.buf <= other.buf)}

\* `args_slot`; the buffer of a slot is named by the launch that maps it.
ArgsSlot(l, len) ==
  IF Reusable(len) # {} THEN FirstOfSmallest(Reusable(len))
  ELSE IF Fits(len)
  THEN {[addr |-> AllocStart, size |-> len, buf |-> l, owner |-> Nobody]} ELSE {}

\* A new slot takes memory; the arguments are copied to the slot's host buffer,
\* which is mapped when the slot is first used.
TakeSlot(l, slot, owner) ==
  /\ next' = IF slot \in slots THEN next ELSE slot.addr + slot.size
  /\ slots' = (slots \ {slot}) \cup {[slot EXCEPT !.owner = owner]}
  /\ hostArgs' = [hostArgs EXCEPT ![slot.buf] = l]

IsNextLaunch(l) ==
  /\ Idle
  /\ launch[l].stage = "unused"
  /\ WithinBudget(l, serial)
  /\ \A j \in 1 .. l - 1 : launch[j].stage # "unused"

Stage(l, stage) == launch' = [launch EXCEPT ![l].stage = stage]

\* `launch_async` up to the pushed argument DMA.
StageArgs(l, len, q, barrier) ==
  /\ IsNextLaunch(l)
  /\ \E slot \in ArgsSlot(l, len) :
       /\ TakeSlot(l, slot, Args(l))
       /\ queue' = [queue EXCEPT ![q] = Append(@, [cmd |-> Args(l), buf |-> slot.buf])]
       /\ launch' = [launch EXCEPT ![l] = [stage |-> "staged", addr |-> slot.addr,
                                           size |-> len, q |-> q, barrier |-> barrier]]
  /\ outstanding' = outstanding \cup {Args(l)}
  /\ UNCHANGED <<kernelEnd, regions, kernels, marks, serial, orphaned, device>>

\* The DMA could not be pushed: the slot stays, with the owner it had.
StageArgsFails(l, len) ==
  /\ IsNextLaunch(l)
  /\ \E slot \in ArgsSlot(l, len) : TakeSlot(l, slot, slot.owner)
  /\ Stage(l, "failed")
  /\ UNCHANGED <<kernelEnd, regions, kernels, marks, serial, orphaned, queue, outstanding, device>>

\* Variant: a launch without `barrier` trusts the order of the queue.
ArgsArrivedAssumed(l) == TRUE
\* A launch without `barrier` could overtake its arguments: they are awaited.
ArgsArrived(l) == launch[l].barrier \/ Args(l) \in answered \ {Args(j) : j \in failedDma}

PushLaunch(l) ==
  /\ launch[l].stage = "staged"
  /\ ArgsArrived(l)
  /\ queue' = [queue EXCEPT ![launch[l].q] = Append(@, [cmd |-> Kernel(l), buf |-> Nobody])]
  /\ outstanding' = (IF launch[l].barrier THEN outstanding ELSE outstanding \ {Args(l)})
                    \cup {Kernel(l)}
  /\ slots' = {IF slot.owner = Args(l) THEN [slot EXCEPT !.owner = Kernel(l)] ELSE slot :
                 slot \in slots}
  /\ Stage(l, "pending")
  /\ UNCHANGED <<allocator, hostArgs, device>>

\* The argument DMA is collected if it was awaited and answered, else abandoned.
PushLaunchFails(l) ==
  /\ launch[l].stage = "staged"
  /\ outstanding' \in {outstanding}
       \cup (IF ~launch[l].barrier /\ Args(l) \in answered THEN {outstanding \ {Args(l)}} ELSE {})
  /\ Stage(l, "failed")
  /\ UNCHANGED <<allocator, slots, hostArgs, queue, device>>

\* Variant: the completion of a launch stands for that of its argument DMA.
CollectedKernel(l) == Kernel(l) \in answered
\* The completion of the argument DMA is collected before that of the launch.
Collected(l) == {Args(l), Kernel(l)} \subseteq answered /\ l \notin failedDma

\* `wait_launch`, with whatever status the kernel ended.
WaitLaunch(l) ==
  /\ Idle
  /\ launch[l].stage = "pending"
  /\ Collected(l)
  /\ outstanding' = outstanding \ {Args(l), Kernel(l)}
  /\ Stage(l, "done")
  /\ UNCHANGED <<allocator, slots, hostArgs, queue, device>>

\* A wait that times out, or an argument DMA that failed: the launch is given
\* up, its tag stays reserved.
WaitLaunchFails(l) ==
  /\ Idle
  /\ launch[l].stage = "pending"
  /\ outstanding' \in {outstanding}
       \cup (IF Args(l) \in answered THEN {outstanding \ {Args(l)}} ELSE {})
  /\ Stage(l, "failed")
  /\ UNCHANGED <<allocator, slots, hostArgs, queue, device>>

\* The PendingLaunch is dropped: its tags stay reserved for good.
DropPending(l) ==
  /\ Idle
  /\ Stage(l, "dropped")
  /\ launch[l].stage = "pending"
  /\ UNCHANGED <<allocator, slots, hostArgs, outstanding, queue, device>>

\* The late response of an abandoned command is popped while another is awaited.
ReleaseLate(l) ==
  /\ Idle
  /\ launch[l].stage = "failed"
  /\ \E c \in outstanding \cap answered :
       c \in {Args(l), Kernel(l)} /\ outstanding' = outstanding \ {c}
  /\ UNCHANGED <<allocator, slots, hostArgs, launch, queue, device>>
-----------------------------------------------------------------------------
(***************************************************************************)
(* The device.  Commands of a queue start in order; one with BARRIER waits *)
(* until everything before it on its queue has completed.  DMAs have it.   *)
(***************************************************************************)

DmaLaunch(dma) == dma.cmd[2]

Drained(q) ==
  /\ \A l \in running : launch[l].q # q
  /\ \A dma \in copying : launch[DmaLaunch(dma)].q # q
Dequeue(q) == queue' = [queue EXCEPT ![q] = Tail(@)]

StartArgs(q) ==
  /\ queue[q] # <<>>
  /\ Head(queue[q]).cmd \in {Args(l) : l \in Launches}
  /\ Drained(q)
  /\ copying' = copying \cup {Head(queue[q])}
  /\ Dequeue(q)
  /\ UNCHANGED <<allocator, slots, hostArgs, outstanding, launch, answered, failedDma, running, dram>>

FinishArgs(dma, ok) ==
  LET l == DmaLaunch(dma) IN
  /\ copying' = copying \ {dma}
  /\ dram' = [a \in Addresses |->
                IF ok /\ a \in Units(launch[l]) THEN <<"args", hostArgs[dma.buf]>> ELSE dram[a]]
  /\ answered' = answered \cup {Args(l)}
  /\ failedDma' = IF ok THEN failedDma ELSE failedDma \cup {l}
  /\ UNCHANGED <<allocator, launching, running>>

MayStart(q, l) == launch[l].barrier => Drained(q)

Start(q) ==
  /\ queue[q] # <<>>
  /\ \E l \in Launches :
       /\ Head(queue[q]).cmd = Kernel(l)
       /\ MayStart(q, l)
       /\ running' = running \cup {l}
  /\ Dequeue(q)
  /\ UNCHANGED <<allocator, slots, hostArgs, outstanding, launch, answered, failedDma, copying, dram>>

Finish(l) ==
  /\ l \in running
  /\ running' = running \ {l}
  /\ answered' = answered \cup {Kernel(l)}
  /\ UNCHANGED <<allocator, launching, failedDma, copying, dram>>
-----------------------------------------------------------------------------
Memory ==
  \/ \E size \in Sizes : Alloc(size)
  \/ AllocMark
  \/ \E m \in marks : ResetTo(m)
  \/ \E r \in regions : WriteRegion(r)
  \/ \E image \in Images : LoadKernel(image) \/ \E cut \in Addresses : LoadFails(image, cut)

Launching ==
  \E l \in Launches :
    \/ \E len \in ArgLens : \/ StageArgsFails(l, len)
                            \/ \E q \in Queues, b \in BOOLEAN : StageArgs(l, len, q, b)
    \/ PushLaunch(l) \/ PushLaunchFails(l)
    \/ WaitLaunch(l) \/ WaitLaunchFails(l) \/ DropPending(l) \/ ReleaseLate(l)

Executing ==
  \/ \E q \in Queues : StartArgs(q) \/ Start(q)
  \/ \E dma \in copying, ok \in BOOLEAN : FinishArgs(dma, ok)
  \/ \E l \in Launches : Finish(l)

Next == Memory \/ Launching \/ Executing

Spec == Init /\ [][Next]_vars
-----------------------------------------------------------------------------
(***************************************************************************)
(* Properties.                                                             *)
(***************************************************************************)

Commands == {Args(l) : l \in Launches} \cup {Kernel(l) : l \in Launches}

\* The allocator's cursor and everything it has handed out lie inside DRAM, and
\* a slot's owner is a command or nobody.
TypeOK ==
  /\ next \in 0 .. DramSize
  /\ kernelEnd \in 0 .. DramSize
  /\ regions \subseteq [id : 1 .. serial, addr : 0 .. DramSize, size : Sizes]
  /\ kernels \subseteq [id : 1 .. serial, image : Images]
  /\ marks \subseteq [at : 0 .. DramSize, serial : 0 .. serial]
  /\ serial \in 0 .. MaxSerial
  /\ slots \subseteq [addr : Addresses, size : ArgLens, buf : Launches,
                     owner : Commands \cup {Nobody}]
  /\ hostArgs \in [Launches -> Launches \cup {Nobody}]
  /\ outstanding \cup answered \subseteq Commands
  /\ running \cup failedDma \subseteq Launches
  /\ orphaned \in BOOLEAN
  /\ launch \in [Launches ->
       [stage : {"unused", "staged", "pending", "done", "failed", "dropped"},
        addr : Addresses, size : ArgLens \cup {0}, q : Queues \cup {Nobody}, barrier : BOOLEAN]]
  /\ queue \in [Queues -> Seq([cmd : Commands, buf : Launches \cup {Nobody}])]
  /\ copying \subseteq [cmd : {Args(l) : l \in Launches}, buf : Launches]
  /\ dram \in [Addresses -> {Nobody} \cup ({"region", "kernel"} \X (1 .. MaxSerial))
                                      \cup ({"args"} \X Launches)]

\* The allocations the caller holds, the argument slots and the kernel images
\* lie inside DRAM and share no unit, and the allocator never hands any of it out
\* again.
MemoryPartitioned ==
  TypeOK /\
  LET held == {Units(r) : r \in regions} \cup {ImageUnits(k.image) : k \in kernels}
  IN /\ \A u, v \in held : u # v => u \cap v = {}
     /\ \A s \in slots : \A u \in held : Units(s) \cap u = {}
     /\ \A s, t \in slots : s # t => Units(s) \cap Units(t) = {}
     /\ \A u \in held \cup {Units(s) : s \in slots} : \A a \in u : a \in Addresses /\ a < next

\* No two allocations share a cache line, nor do one and an argument slot.
NoSharedLine ==
  \A r, s \in regions \cup slots :
    (\E a \in Units(r), b \in Units(s) : a \div CacheLine = b \div CacheLine) =>
      r.addr = s.addr

\* A kernel runs with the arguments of its own launch from start to end, unless
\* their DMA failed, or the caller has reset the allocator below arguments still
\* outstanding.  A kernel that ran with other arguments, because it was queued
\* behind a DMA that failed, is never reported as launched by wait_launch.
ArgsStable ==
  /\ ~orphaned => \A l \in running \ failedDma : \A a \in Units(launch[l]) : dram[a] = <<"args", l>>
  /\ \A l \in failedDma : launch[l].stage # "done"

\* Nothing writes to an allocation but its holder, nor to a loaded kernel but a
\* later load over it, which takes its place.  (Arguments below which the caller
\* has reset the allocator may still be under way.)
OnlyHolderWrites ==
  [][~orphaned =>
     /\ \A r \in regions \cap regions' : \A a \in Units(r) :
          dram'[a] # dram[a] => dram'[a] = <<"region", r.id>>
     /\ \A k \in kernels \cap kernels' : \A a \in ImageUnits(k.image) :
          dram'[a] = dram[a]]_vars

\* An argument DMA that is queued or under way reads a host buffer that is still mapped and holds
\* the arguments of its own launch.
ArgsBufferHeld ==
  \A dma \in copying \cup UNION {ToSet(queue[q]) : q \in Queues} : \A l \in Launches :
    dma.cmd = Args(l) => hostArgs[dma.buf] = l

\* A kernel that replaces another at its address does not extend into memory
\* allocated after the kernel it replaces was loaded.
LoadSparesAllocations ==
  \A image \in Images : Loadable(image) =>
    \A k \in kernels, r \in regions :
      image[1][1] = k.image[1][1] /\ r.id > k.id => ImageUnits(image) \cap Units(r) = {}
=============================================================================
