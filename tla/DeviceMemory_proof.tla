------------------------- MODULE DeviceMemory_proof -------------------------
(***************************************************************************)
(* Proofs about DeviceMemory, for every size of DRAM, alignment, number of *)
(* queues and launches, and sizes of allocations and arguments.            *)
(***************************************************************************)
EXTENDS DeviceMemory, TLAPS

\* Slots have buffers of their own, named by launches that have begun.
SlotsNamed ==
  /\ \A s, t \in slots : s.buf = t.buf => s = t
  /\ \A s \in slots : launch[s.buf].stage # "unused"

\* While the argument DMA of launch l is queued or under way, its host buffer
\* keeps the launch's arguments: a slot that has the buffer is taken.
HoldsBuffer(dma, l) ==
  /\ hostArgs[dma.buf] = l
  /\ dma.buf \in Launches /\ launch[dma.buf].stage # "unused"
  /\ \A s \in slots : s.buf = dma.buf => s.owner \in {Args(l), Kernel(l)} /\ s.owner \in outstanding

ArgsPending(l) ==
  /\ launch[l].stage # "unused"
  /\ Args(l) \in outstanding \ answered
  /\ l \notin running /\ Kernel(l) \notin answered

DmasHeld ==
  /\ \A q \in Queues : \A i \in 1 .. Len(queue[q]) : \A l \in Launches :
       queue[q][i].cmd = Args(l) =>
         HoldsBuffer(queue[q][i], l) /\ ArgsPending(l) /\ launch[l].q = q
  /\ \A dma \in copying : \A l \in Launches :
       dma.cmd = Args(l) => HoldsBuffer(dma, l) /\ ArgsPending(l)

\* A queued launch has not started, and may overtake its arguments nowhere.
KernelsQueued ==
  \A q \in Queues : \A i \in 1 .. Len(queue[q]) : \A l \in Launches :
    queue[q][i].cmd = Kernel(l) =>
      /\ launch[l].q = q /\ launch[l].stage \notin {"unused", "staged"}
      /\ Kernel(l) \notin answered /\ l \notin running
      /\ launch[l].barrier \/ Args(l) \in answered

\* Commands stand in one place, and a launch behind its arguments.
QueueOrder ==
  /\ \A q \in Queues : \A i, j \in 1 .. Len(queue[q]) :
       queue[q][i].cmd = queue[q][j].cmd => i = j
  /\ \A q \in Queues : \A i, j \in 1 .. Len(queue[q]) : \A l \in Launches :
       queue[q][i].cmd = Args(l) /\ queue[q][j].cmd = Kernel(l) => i < j
  /\ \A q \in Queues : \A i \in 1 .. Len(queue[q]) : \A dma \in copying : queue[q][i].cmd # dma.cmd
  /\ \A d, e \in copying : d.cmd = e.cmd => d = e

NotBegun ==
  \A l \in Launches :
    /\ launch[l].stage = "unused" => Args(l) \notin outstanding \cup answered
    /\ launch[l].stage \in {"unused", "staged"} =>
         Kernel(l) \notin outstanding \cup answered /\ l \notin running
    /\ l \in running => Kernel(l) \notin answered

ArgsInv == TypeOK /\ SlotsNamed /\ DmasHeld /\ KernelsQueued /\ QueueOrder /\ NotBegun
-----------------------------------------------------------------------------
(***************************************************************************)
(* The allocator, for images that leave no gaps.                           *)
(***************************************************************************)
ImagesContiguous ==
  \A image \in Images : \E end \in Nat :
    ImageUnits(image) = 0 .. end - 1 /\ \A seg \in ToSet(image) : seg[2] <= end

End(r) == r.addr + r.size
Apart(r, s) == End(r) <= s.addr \/ End(s) <= r.addr

\* The cursor lies above everything, the end of the kernels below every region
\* and slot.
CursorAbove ==
  /\ kernelEnd <= next
  /\ kernelEnd = DramSize \/ AlignUp(kernelEnd, DmaAlign) = kernelEnd
  /\ \A k \in kernels : ImageUnits(k.image) \subseteq 0 .. kernelEnd - 1
  /\ \A r \in regions \cup slots : End(r) <= next /\ (r.size > 0 => kernelEnd <= r.addr)
  /\ \A m \in marks : m.at <= next

AllApart ==
  /\ \A r, s \in regions : r # s => Apart(r, s)
  /\ \A s, t \in slots : s # t => Apart(s, t)
  /\ \A r \in regions, s \in slots : Apart(r, s)
  /\ \A j, k \in kernels : j # k => ImageUnits(j.image) \cap ImageUnits(k.image) = {}

\* What a reset to a mark keeps lies below the mark.
MarksSeparate ==
  \A m \in marks :
    /\ \A r \in regions : r.id <= m.serial => End(r) <= m.at
    /\ \A s \in slots : s.addr < m.at => End(s) <= m.at

MemoryInv == CursorAbove /\ AllApart /\ MarksSeparate
-----------------------------------------------------------------------------
(***************************************************************************)
(* Names, arithmetic and types.                                            *)
(***************************************************************************)

\* Commands of different launches or kinds are different.
LEMMA CommandsDistinct ==
  /\ \A l, m \in Launches : Args(l) # Kernel(m)
  /\ \A l, m \in Launches : Args(l) = Args(m) => l = m
  /\ \A l, m \in Launches : Kernel(l) = Kernel(m) => l = m
  /\ \A l \in Launches : Args(l) \in Commands /\ Kernel(l) \in Commands
BY DEF Args, Kernel, Commands

\* The parts of the type invariant.
AllocatorTypes ==
  /\ next \in 0 .. DramSize /\ kernelEnd \in 0 .. DramSize
  /\ regions \subseteq [id : 1 .. serial, addr : 0 .. DramSize, size : Sizes]
  /\ kernels \subseteq [id : 1 .. serial, image : Images]
  /\ marks \subseteq [at : 0 .. DramSize, serial : 0 .. serial]
  /\ serial \in 0 .. MaxSerial
  /\ orphaned \in BOOLEAN
SlotTypes ==
  /\ slots \subseteq [addr : Addresses, size : ArgLens, buf : Launches,
                      owner : Commands \cup {Nobody}]
  /\ hostArgs \in [Launches -> Launches \cup {Nobody}]
CommandTypes ==
  /\ outstanding \subseteq Commands /\ answered \subseteq Commands
  /\ running \subseteq Launches /\ failedDma \subseteq Launches
LaunchTypes ==
  launch \in [Launches ->
    [stage : {"unused", "staged", "pending", "done", "failed", "dropped"},
     addr : Addresses, size : ArgLens \cup {0}, q : Queues \cup {Nobody}, barrier : BOOLEAN]]
QueueTypes ==
  /\ queue \in [Queues -> Seq([cmd : Commands, buf : Launches \cup {Nobody}])]
  /\ copying \subseteq [cmd : {Args(l) : l \in Launches}, buf : Launches]
DramTypes ==
  dram \in [Addresses -> {Nobody} \cup ({"region", "kernel"} \X (1 .. MaxSerial))
                                  \cup ({"args"} \X Launches)]

LEMMA TypesSplit ==
  TypeOK <=> AllocatorTypes /\ SlotTypes /\ CommandTypes /\ LaunchTypes /\ QueueTypes /\ DramTypes
BY DEF TypeOK, AllocatorTypes, SlotTypes, CommandTypes, LaunchTypes, QueueTypes, DramTypes

LEMMA TypesSplitNext ==
  TypeOK' <=> /\ AllocatorTypes' /\ SlotTypes' /\ CommandTypes' /\ LaunchTypes' /\ QueueTypes'
              /\ DramTypes'
BY DEF TypeOK, AllocatorTypes, SlotTypes, CommandTypes, LaunchTypes, QueueTypes, DramTypes

\* A step that changes the allocator only.
LEMMA OnlyAllocatorTyped ==
  ASSUME TypeOK, AllocatorTypes', DramTypes',
         UNCHANGED <<slots, hostArgs, outstanding, launch, queue, answered, failedDma, copying,
                     running>>
  PROVE  TypeOK'
<1>1. SlotTypes' /\ CommandTypes' /\ LaunchTypes' /\ QueueTypes'
  BY TypesSplit DEF SlotTypes, CommandTypes, LaunchTypes, QueueTypes
<1>2. QED
  BY <1>1, TypesSplitNext

\* A value is aligned upwards, by less than the alignment.
LEMMA AlignUpAbove ==
  ASSUME NEW value \in Nat, NEW align \in Nat \ {0}
  PROVE  AlignUp(value, align) \in Nat /\ value <= AlignUp(value, align)
<1> DEFINE q == (value + align - 1) \div align
<1>1. q \in Nat /\ q * align <= value + align - 1 /\ value + align - 1 < q * align + align
  OBVIOUS
<1>2. AlignUp(value, align) = q * align
  BY DEF AlignUp
<1> HIDE DEF q
<1>3. q * align \in Nat
  BY <1>1
<1>4. QED
  BY <1>1, <1>2, <1>3

\* Where alloc would put the next region.
LEMMA AllocStartAbove ==
  ASSUME TypeOK
  PROVE  AllocStart \in Nat /\ next <= AllocStart /\ DramSize \in Nat \ {0} /\ next \in Nat
<1>1. Larger(DmaAlign, CacheLine) \in Nat \ {0}
  BY DeviceMemoryAssumption DEF Larger
<1>2. next \in Nat /\ DramSize \in Nat \ {0}
  BY DeviceMemoryAssumption DEF TypeOK
<1>3. QED
  BY <1>1, <1>2, AlignUpAbove DEF AllocStart

\* A slot that args_slot may hand out: one nobody waits for, or a new one behind
\* everything there is.
LEMMA ArgsSlotGiven ==
  ASSUME TypeOK, NEW l \in Launches, NEW len \in ArgLens, NEW slot \in ArgsSlot(l, len)
  PROVE  /\ slot \in [addr : Addresses, size : ArgLens, buf : Launches,
                      owner : Commands \cup {Nobody}]
         /\ len <= slot.size
         /\ \/ slot \in slots /\ slot.owner \notin outstanding
            \/ /\ slot.addr = AllocStart /\ slot.size = len /\ slot.buf = l
               /\ AllocStart + len <= DramSize
<1>1. ArgLens \subseteq Nat \ {0}
  BY DeviceMemoryAssumption
<1>2. CASE Reusable(len) # {}
  <2>1. slot \in Reusable(len)
    BY <1>2 DEF ArgsSlot, FirstOfSmallest
  <2>2. QED
    BY <2>1 DEF Reusable, TypeOK
<1>3. CASE Reusable(len) = {}
  <2>1. /\ slot = [addr |-> AllocStart, size |-> len, buf |-> l, owner |-> Nobody]
        /\ Fits(len)
    BY <1>3 DEF ArgsSlot
  <2>2. AllocStart \in Addresses /\ AllocStart + len <= DramSize
    BY <1>1, <2>1, AllocStartAbove DEF Fits, Addresses
  <2>3. QED
    BY <1>1, <2>1, <2>2
<1>4. QED
  BY <1>2, <1>3

\* The budget bounds the number of allocations and loads.
LEMMA SerialBounded ==
  ASSUME TypeOK, NEW n, WithinBudget(n, serial + 1)
  PROVE  serial + 1 \in 1 .. MaxSerial /\ MaxSerial \in Nat
BY DeviceMemoryAssumption DEF WithinBudget, TypeOK

LEMMA InitArgsInv == Init => ArgsInv
<1> SUFFICES ASSUME Init PROVE ArgsInv
  OBVIOUS
<1>1. DramSize \in Nat \ {0} /\ MaxSerial \in Nat /\ MaxLaunches \in Nat
  BY DeviceMemoryAssumption
<1>2. TypeOK
  <2>1. launch \in [Launches ->
          [stage : {"unused", "staged", "pending", "done", "failed", "dropped"},
           addr : Addresses, size : ArgLens \cup {0}, q : Queues \cup {Nobody}, barrier : BOOLEAN]]
    BY <1>1 DEF Init, Addresses
  <2>2. queue \in [Queues -> Seq([cmd : Commands, buf : Launches \cup {Nobody}])]
    BY DEF Init
  <2>3. dram \in [Addresses -> {Nobody} \cup ({"region", "kernel"} \X (1 .. MaxSerial))
                                         \cup ({"args"} \X Launches)]
    BY DEF Init
  <2>4. next \in 0 .. DramSize /\ kernelEnd \in 0 .. DramSize /\ serial \in 0 .. MaxSerial
    BY <1>1 DEF Init
  <2>5. /\ outstanding \cup answered \subseteq Commands /\ running \cup failedDma \subseteq Launches
        /\ regions = {} /\ kernels = {} /\ marks = {} /\ slots = {} /\ copying = {}
    BY DEF Init
  <2>6. orphaned \in BOOLEAN /\ hostArgs \in [Launches -> Launches \cup {Nobody}]
    BY DEF Init
  <2>7. QED
    BY <2>1, <2>2, <2>3, <2>4, <2>5, <2>6 DEF TypeOK
<1>3. QED
  BY <1>2 DEF Init, ArgsInv, SlotsNamed, DmasHeld, KernelsQueued, QueueOrder, NotBegun
-----------------------------------------------------------------------------
(***************************************************************************)
(* ArgsInv is kept: the allocator and loads.                               *)
(***************************************************************************)

\* What ArgsInv says of commands depends on the launches and the device only.
LEMMA ArgsInvUnchanged ==
  ASSUME ArgsInv, TypeOK',
         UNCHANGED <<slots, hostArgs, outstanding, launch, queue, answered, copying, running>>
  PROVE  ArgsInv'
BY DEF ArgsInv, SlotsNamed, DmasHeld, HoldsBuffer, ArgsPending, KernelsQueued, QueueOrder, NotBegun

\* Memory that a write of value v leaves well typed.
LEMMA DramTyped ==
  ASSUME TypeOK, NEW units, NEW v,
         v \in ({"region", "kernel"} \X (1 .. MaxSerial)) \cup ({"args"} \X Launches)
  PROVE  [a \in Addresses |-> IF a \in units THEN v ELSE dram[a]]
           \in [Addresses -> {Nobody} \cup ({"region", "kernel"} \X (1 .. MaxSerial))
                                      \cup ({"args"} \X Launches)]
BY DEF TypeOK

LEMMA AllocArgs == ASSUME ArgsInv, NEW size \in Sizes, Alloc(size) PROVE ArgsInv'
<1>1. /\ AllocStart + size <= DramSize /\ next' = AllocStart + size /\ serial' = serial + 1
      /\ regions' = regions \cup {[id |-> serial + 1, addr |-> AllocStart, size |-> size]}
      /\ UNCHANGED <<kernelEnd, kernels, marks, orphaned, slots, hostArgs, outstanding, launch,
                     queue, answered, failedDma, copying, running, dram>>
  BY DeviceMemoryAssumption, AllocStartAbove DEF ArgsInv, Alloc, Fits, launching, device
<1>2. serial + 1 \in 1 .. MaxSerial /\ serial \in Nat /\ size \in Nat
  <2>1. serial + 1 \in 1 .. MaxSerial /\ TypeOK
    BY SerialBounded DEF ArgsInv, Alloc
  <2>2. QED
    BY <2>1, TypesSplit, DeviceMemoryAssumption DEF AllocatorTypes
<1>3. AllocStart \in 0 .. DramSize /\ AllocStart + size \in 0 .. DramSize
  BY <1>1, <1>2, AllocStartAbove DEF ArgsInv
<1>4. /\ regions' \subseteq [id : 1 .. serial', addr : 0 .. DramSize, size : Sizes]
      /\ kernels' \subseteq [id : 1 .. serial', image : Images]
      /\ marks' \subseteq [at : 0 .. DramSize, serial : 0 .. serial']
  BY <1>1, <1>2, <1>3, TypesSplit DEF ArgsInv, AllocatorTypes
<1>5. TypeOK'
  <2>1. AllocatorTypes'
    BY <1>1, <1>2, <1>3, <1>4, TypesSplit DEF ArgsInv, AllocatorTypes
  <2>2. DramTypes'
    BY <1>1, TypesSplit DEF ArgsInv, DramTypes
  <2>3. QED
    BY <1>1, <2>1, <2>2, OnlyAllocatorTyped DEF ArgsInv
<1>6. QED
  BY <1>1, <1>5, ArgsInvUnchanged

LEMMA AllocMarkArgs == ASSUME ArgsInv, AllocMark PROVE ArgsInv'
<1>1. /\ marks' = marks \cup {[at |-> next, serial |-> serial]}
      /\ UNCHANGED <<next, kernelEnd, regions, kernels, serial, orphaned, slots, hostArgs,
                     outstanding, launch, queue, answered, failedDma, copying, running, dram>>
  BY DEF AllocMark, launching, device
<1>2. TypeOK'
  <2>1. AllocatorTypes'
    BY <1>1, TypesSplit, DeviceMemoryAssumption DEF ArgsInv, AllocatorTypes
  <2>2. DramTypes'
    BY <1>1, TypesSplit DEF ArgsInv, DramTypes
  <2>3. QED
    BY <1>1, <2>1, <2>2, OnlyAllocatorTyped DEF ArgsInv
<1>3. QED
  BY <1>1, <1>2, ArgsInvUnchanged

LEMMA WriteRegionArgs == ASSUME ArgsInv, NEW r \in regions, WriteRegion(r) PROVE ArgsInv'
<1>1. /\ dram' = [a \in Addresses |-> IF a \in Units(r) THEN <<"region", r.id>> ELSE dram[a]]
      /\ UNCHANGED <<next, kernelEnd, regions, kernels, marks, serial, orphaned, slots, hostArgs,
                     outstanding, launch, queue, answered, failedDma, copying, running>>
  BY DEF WriteRegion, launching, allocator
<1>2. r.id \in 1 .. MaxSerial
  BY DeviceMemoryAssumption DEF ArgsInv, TypeOK
<1>3. TypeOK'
  <2>1. AllocatorTypes'
    BY <1>1, TypesSplit DEF ArgsInv, AllocatorTypes
  <2>2. DramTypes'
    BY <1>1, <1>2, DramTyped DEF ArgsInv, DramTypes
  <2>3. QED
    BY <1>1, <2>1, <2>2, OnlyAllocatorTyped DEF ArgsInv
<1>4. QED
  BY <1>1, <1>3, ArgsInvUnchanged

\* Where a load may put the end of the kernels.
LEMMA KernelEndTyped ==
  ASSUME TypeOK, NEW image \in Images, NEW end \in KernelEndAfter(image)
  PROVE  end \in 0 .. DramSize
<1>1. \A seg \in ToSet(image) : seg[2] \in Nat
  BY DeviceMemoryAssumption
<1>2. PICK occupied \in Nat : end = AlignedEnd(occupied)
  BY <1>1 DEF KernelEndAfter, TypeOK
<1>3. AlignUp(occupied, DmaAlign) \in Nat /\ DramSize \in Nat
  BY AlignUpAbove, DeviceMemoryAssumption
<1>4. QED
  BY <1>2, <1>3 DEF AlignedEnd

\* What a load writes, whether it succeeds or not.
LEMMA WriteImageTyped ==
  ASSUME ArgsInv, NEW n, WithinBudget(n, serial + 1), NEW units, WriteImage(units),
         next' \in 0 .. DramSize, kernelEnd' \in 0 .. DramSize,
         kernels' \subseteq kernels \cup [id : {serial + 1}, image : Images],
         UNCHANGED <<regions, marks, orphaned, slots, hostArgs, outstanding, launch, queue,
                     answered, failedDma, copying, running>>
  PROVE  ArgsInv'
<1>1. serial' = serial + 1 /\ serial + 1 \in 1 .. MaxSerial /\ serial \in Nat
  <2>1. serial + 1 \in 1 .. MaxSerial /\ serial' = serial + 1 /\ TypeOK
    BY SerialBounded DEF ArgsInv, WriteImage
  <2>2. QED
    BY <2>1, TypesSplit, DeviceMemoryAssumption DEF AllocatorTypes
<1>2. /\ regions' \subseteq [id : 1 .. serial', addr : 0 .. DramSize, size : Sizes]
      /\ kernels' \subseteq [id : 1 .. serial', image : Images]
      /\ marks' \subseteq [at : 0 .. DramSize, serial : 0 .. serial']
  BY <1>1, TypesSplit DEF ArgsInv, AllocatorTypes
<1>3. <<"kernel", serial + 1>> \in {"region", "kernel"} \X (1 .. MaxSerial)
  BY <1>1
<1>4. dram' \in [Addresses -> {Nobody} \cup ({"region", "kernel"} \X (1 .. MaxSerial))
                                       \cup ({"args"} \X Launches)]
  BY <1>3, DramTyped DEF ArgsInv, WriteImage
<1>5. TypeOK'
  <2>1. AllocatorTypes'
    BY <1>1, <1>2, TypesSplit DEF ArgsInv, AllocatorTypes
  <2>2. DramTypes'
    BY <1>4 DEF DramTypes
  <2>3. QED
    BY <2>1, <2>2, OnlyAllocatorTyped DEF ArgsInv
<1>6. QED
  BY <1>5, ArgsInvUnchanged

LEMMA LoadKernelArgs == ASSUME ArgsInv, NEW image \in Images, LoadKernel(image) PROVE ArgsInv'
<1>1. kernelEnd' \in 0 .. DramSize
  BY KernelEndTyped DEF ArgsInv, LoadKernel
<1>2. next' \in 0 .. DramSize
  BY <1>1 DEF ArgsInv, TypeOK, LoadKernel, Larger
<1>3. kernels' \subseteq kernels \cup [id : {serial + 1}, image : Images]
  BY DEF LoadKernel, LoadedBefore
<1>4. QED
  BY <1>1, <1>2, <1>3, WriteImageTyped DEF LoadKernel, launching

LEMMA LoadFailsArgs ==
  ASSUME ArgsInv, NEW image \in Images, NEW cut \in Addresses, LoadFails(image, cut)
  PROVE  ArgsInv'
<1>1. next' \in 0 .. DramSize /\ kernelEnd' \in 0 .. DramSize
  BY DEF ArgsInv, TypeOK, LoadFails
<1>2. kernels' \subseteq kernels \cup [id : {serial + 1}, image : Images]
  BY DEF LoadFails, LoadedBefore
<1>3. QED
  BY <1>1, <1>2, WriteImageTyped DEF LoadFails, launching

LEMMA ResetToArgs == ASSUME ArgsInv, NEW m \in marks, ResetTo(m) PROVE ArgsInv'
<1> DEFINE target == ResetTarget(m)
<1>1. /\ next' = (IF target < next THEN target ELSE next)
      /\ regions' \subseteq regions /\ marks' \subseteq marks /\ slots' \subseteq slots
      /\ hostArgs' = [b \in Launches |->
           IF \E slot \in slots \ Kept(target) : slot.buf = b /\ ~Leaked(slot)
           THEN Nobody ELSE hostArgs[b]]
      /\ orphaned' \in BOOLEAN
      /\ UNCHANGED <<kernelEnd, kernels, serial, outstanding, launch, queue, answered, failedDma,
                     copying, running, dram>>
  BY DEF ResetTo, device, Kept, ArgsInv, TypeOK
<1>2. TypeOK'
  <2>1. target \in 0 .. DramSize
    BY DEF ResetTarget, Larger, ArgsInv, TypeOK
  <2>2. hostArgs' \in [Launches -> Launches \cup {Nobody}]
    BY <1>1 DEF ArgsInv, TypeOK
  <2> HIDE DEF target
  <2>3. AllocatorTypes'
    BY <1>1, <2>1, TypesSplit DEF ArgsInv, AllocatorTypes
  <2>4. SlotTypes' /\ CommandTypes' /\ LaunchTypes' /\ QueueTypes' /\ DramTypes'
    BY <1>1, <2>2, TypesSplit DEF ArgsInv, SlotTypes, CommandTypes, LaunchTypes, QueueTypes, DramTypes
  <2>5. QED
    BY <2>3, <2>4, TypesSplitNext
<1>3. ASSUME NEW dma, NEW l \in Launches, HoldsBuffer(dma, l)
      PROVE  HoldsBuffer(dma, l)'
  <2>1. \A slot \in slots : slot.buf = dma.buf => Leaked(slot)
    BY <1>3 DEF HoldsBuffer, Leaked
  <2>2. hostArgs'[dma.buf] = l
    BY <1>1, <1>3, <2>1 DEF HoldsBuffer
  <2>3. QED
    BY <1>1, <1>3, <2>2 DEF HoldsBuffer
<1> HIDE DEF target
<1>4. DmasHeld'
  BY <1>1, <1>3 DEF ArgsInv, DmasHeld, ArgsPending
<1>5. SlotsNamed' /\ KernelsQueued' /\ QueueOrder' /\ NotBegun'
  BY <1>1 DEF ArgsInv, SlotsNamed, KernelsQueued, QueueOrder, NotBegun
<1>6. QED
  BY <1>2, <1>4, <1>5 DEF ArgsInv
-----------------------------------------------------------------------------
(***************************************************************************)
(* ArgsInv is kept: launches.                                              *)
(***************************************************************************)

\* Where the entries of the queues are after an Append, ...
LEMMA AppendAt ==
  ASSUME QueueTypes, NEW q \in Queues, NEW c \in [cmd : Commands, buf : Launches \cup {Nobody}],
         queue' = [queue EXCEPT ![q] = Append(@, c)]
  PROVE  /\ queue' \in [Queues -> Seq([cmd : Commands, buf : Launches \cup {Nobody}])]
         /\ \A p \in Queues : \A i \in 1 .. Len(queue'[p]) :
              \/ i \in 1 .. Len(queue[p]) /\ queue'[p][i] = queue[p][i]
              \/ p = q /\ i = Len(queue[q]) + 1 /\ queue'[p][i] = c
         /\ \A p \in Queues : \A i \in 1 .. Len(queue[p]) :
              i \in 1 .. Len(queue'[p]) /\ queue'[p][i] = queue[p][i]
         /\ Len(queue[q]) + 1 \in 1 .. Len(queue'[q]) /\ queue'[q][Len(queue[q]) + 1] = c
         /\ \A p \in Queues : Len(queue[p]) \in Nat
<1> DEFINE Entry == [cmd : Commands, buf : Launches \cup {Nobody}]
           longer == Append(queue[q], c)
<1>1. queue \in [Queues -> Seq(Entry)] /\ c \in Entry
  BY DEF QueueTypes
<1> HIDE DEF Entry
<1>2. /\ longer \in Seq(Entry) /\ Len(longer) = Len(queue[q]) + 1 /\ Len(queue[q]) \in Nat
      /\ longer[Len(queue[q]) + 1] = c
      /\ \A i \in 1 .. Len(queue[q]) : longer[i] = queue[q][i]
  BY <1>1
<1>3. queue' = [queue EXCEPT ![q] = longer]
  OBVIOUS
<1> HIDE DEF longer
<1>4. queue'[q] = longer /\ \A p \in Queues \ {q} : queue'[p] = queue[p]
  BY <1>1, <1>3
<1>5. queue' \in [Queues -> Seq(Entry)]
  BY <1>1, <1>2, <1>3
<1>6. \A p \in Queues : Len(queue[p]) \in Nat
  BY <1>1
<1>7. \A p \in Queues : \A i \in 1 .. Len(queue'[p]) :
        \/ i \in 1 .. Len(queue[p]) /\ queue'[p][i] = queue[p][i]
        \/ p = q /\ i = Len(queue[q]) + 1 /\ queue'[p][i] = c
  BY <1>2, <1>4, <1>6
<1>8. \A p \in Queues : \A i \in 1 .. Len(queue[p]) :
        i \in 1 .. Len(queue'[p]) /\ queue'[p][i] = queue[p][i]
  BY <1>2, <1>4, <1>6
<1>9. Len(queue[q]) + 1 \in 1 .. Len(queue'[q]) /\ queue'[q][Len(queue[q]) + 1] = c
  BY <1>2, <1>4
<1>10. QED
  BY <1>5, <1>6, <1>7, <1>8, <1>9, Zenon DEF Entry

\* ... and after the first was taken out.
LEMMA DequeueAt ==
  ASSUME QueueTypes, NEW q \in Queues, queue[q] # <<>>, Dequeue(q)
  PROVE  /\ queue' \in [Queues -> Seq([cmd : Commands, buf : Launches \cup {Nobody}])]
         /\ \A p \in Queues \ {q} : queue'[p] = queue[p]
         /\ \A i \in 1 .. Len(queue'[q]) :
              i + 1 \in 1 .. Len(queue[q]) /\ queue'[q][i] = queue[q][i + 1]
         /\ 1 \in 1 .. Len(queue[q]) /\ Head(queue[q]) = queue[q][1]
         /\ \A i \in 1 .. Len(queue[q]) : i = 1 \/ (i - 1 \in 1 .. Len(queue'[q]) /\ queue'[q][i - 1] = queue[q][i])
         /\ queue[q][1] \in [cmd : Commands, buf : Launches \cup {Nobody}]
         /\ \A p \in Queues : Len(queue[p]) \in Nat
<1> DEFINE Entry == [cmd : Commands, buf : Launches \cup {Nobody}]
           rest == Tail(queue[q])
<1>1. queue \in [Queues -> Seq(Entry)]
  BY DEF QueueTypes
<1> HIDE DEF Entry
<1>2. /\ rest \in Seq(Entry) /\ Len(rest) = Len(queue[q]) - 1 /\ Len(queue[q]) \in Nat \ {0}
      /\ \A i \in 1 .. Len(rest) : rest[i] = queue[q][i + 1]
      /\ Head(queue[q]) = queue[q][1] /\ queue[q][1] \in Entry
  BY <1>1
<1>3. queue' = [queue EXCEPT ![q] = rest]
  BY DEF Dequeue
<1> HIDE DEF rest
<1>4. queue'[q] = rest /\ \A p \in Queues \ {q} : queue'[p] = queue[p]
  BY <1>1, <1>3
<1>5. queue' \in [Queues -> Seq(Entry)]
  BY <1>1, <1>2, <1>3
<1>6. \A p \in Queues : Len(queue[p]) \in Nat
  BY <1>1
<1>7. \A i \in 1 .. Len(queue'[q]) : i + 1 \in 1 .. Len(queue[q]) /\ queue'[q][i] = queue[q][i + 1]
  BY <1>2, <1>4
<1>8. \A i \in 1 .. Len(queue[q]) :
        i = 1 \/ (i - 1 \in 1 .. Len(queue'[q]) /\ queue'[q][i - 1] = queue[q][i])
  <2> SUFFICES ASSUME NEW i \in 1 .. Len(queue[q]), i # 1
               PROVE  i - 1 \in 1 .. Len(queue'[q]) /\ queue'[q][i - 1] = queue[q][i]
    OBVIOUS
  <2>1. i - 1 \in 1 .. Len(rest) /\ (i - 1) + 1 = i
    BY <1>2
  <2>2. QED
    BY <1>2, <1>4, <2>1
<1>9. 1 \in 1 .. Len(queue[q])
  BY <1>2
<1>10. QED
  BY <1>2, <1>4, <1>5, <1>6, <1>7, <1>8, <1>9, Zenon DEF Entry

\* The slot that is taken has a buffer no DMA reads, and gets this launch's
\* arguments and the owner.
LEMMA SlotTaken ==
  ASSUME ArgsInv, NEW l \in Launches, launch[l].stage = "unused", NEW len \in ArgLens,
         NEW slot \in ArgsSlot(l, len), NEW owner \in Commands \cup {Nobody},
         TakeSlot(l, slot, owner)
  PROVE  /\ next' \in 0 .. DramSize /\ SlotTypes'
         /\ slot.buf \in Launches /\ slot.addr \in Addresses
         /\ slot.buf = l \/ launch[slot.buf].stage # "unused"
         /\ \A s \in slots' : s.buf = slot.buf \/ s \in slots
         /\ \A s \in slots' : s.buf = slot.buf => s.owner = owner
         /\ \A s, t \in slots' : s.buf = t.buf => s = t
         /\ hostArgs'[slot.buf] = l
         /\ \A m \in Launches : \A dma : HoldsBuffer(dma, m) =>
              dma.buf # slot.buf /\ hostArgs'[dma.buf] = m
<1> DEFINE new == [slot EXCEPT !.owner = owner]
<1>1. /\ slot \in [addr : Addresses, size : ArgLens, buf : Launches, owner : Commands \cup {Nobody}]
      /\ \/ slot \in slots /\ slot.owner \notin outstanding
         \/ /\ slot.addr = AllocStart /\ slot.size = len /\ slot.buf = l
            /\ AllocStart + len <= DramSize
  BY ArgsSlotGiven DEF ArgsInv
<1>2. /\ new \in [addr : Addresses, size : ArgLens, buf : Launches, owner : Commands \cup {Nobody}]
      /\ new.buf = slot.buf /\ new.owner = owner
  BY <1>1
<1>3. /\ next' = IF slot \in slots THEN next ELSE slot.addr + slot.size
      /\ slots' = (slots \ {slot}) \cup {new}
      /\ hostArgs' = [hostArgs EXCEPT ![slot.buf] = l]
  BY DEF TakeSlot
<1> HIDE DEF new
<1>4. SlotTypes
  BY TypesSplit DEF ArgsInv
<1>5. SlotTypes'
  BY <1>1, <1>2, <1>3, <1>4 DEF SlotTypes
<1>6. next' \in 0 .. DramSize
  <2>1. CASE slot \in slots
    BY <1>3, <2>1, TypesSplit DEF ArgsInv, AllocatorTypes
  <2>2. CASE slot \notin slots
    <3>1. len \in Nat /\ AllocStart \in Nat /\ DramSize \in Nat
      BY AllocStartAbove, DeviceMemoryAssumption DEF ArgsInv
    <3>2. QED
      BY <1>1, <1>3, <2>2, <3>1
  <2>3. QED
    BY <2>1, <2>2
<1>7. \A s \in slots : s.buf = slot.buf => s = slot
  BY <1>1 DEF ArgsInv, SlotsNamed
<1>8. slot.buf = l \/ launch[slot.buf].stage # "unused"
  BY <1>1 DEF ArgsInv, SlotsNamed
<1>9. ASSUME NEW s \in slots', s # new PROVE s \in slots /\ s.buf # slot.buf
  BY <1>3, <1>7, <1>9
<1>10. \A s, t \in slots' : s.buf = t.buf => s = t
  BY <1>2, <1>9 DEF ArgsInv, SlotsNamed
<1>11. ASSUME NEW dma, NEW m \in Launches, HoldsBuffer(dma, m)
       PROVE  dma.buf # slot.buf /\ hostArgs'[dma.buf] = m
  <2>1. dma.buf # slot.buf
    BY <1>1, <1>11 DEF HoldsBuffer
  <2>2. QED
    BY <1>3, <1>4, <1>11, <2>1 DEF HoldsBuffer, SlotTypes
<1>12. hostArgs'[slot.buf] = l
  BY <1>1, <1>3, <1>4 DEF SlotTypes
<1>13. QED
  BY <1>1, <1>2, <1>5, <1>6, <1>8, <1>9, <1>10, <1>11, <1>12

\* A DMA under way is not disturbed when a slot is taken.
LEMMA HoldsWhenTaken ==
  ASSUME ArgsInv, NEW l \in Launches, launch[l].stage = "unused", NEW len \in ArgLens,
         NEW slot \in ArgsSlot(l, len), NEW owner \in Commands \cup {Nobody},
         TakeSlot(l, slot, owner), outstanding \subseteq outstanding',
         \A m \in Launches : launch[m].stage # "unused" => launch'[m].stage # "unused",
         NEW m \in Launches, NEW dma, HoldsBuffer(dma, m)
  PROVE  HoldsBuffer(dma, m)'
<1>1. dma.buf # slot.buf /\ hostArgs'[dma.buf] = m /\ \A s \in slots' : s.buf = slot.buf \/ s \in slots
  BY SlotTaken
<1>2. QED
  BY <1>1 DEF HoldsBuffer

LEMMA StageArgsArgs ==
  ASSUME ArgsInv, NEW l \in Launches, NEW len \in ArgLens, NEW q \in Queues, NEW b \in BOOLEAN,
         StageArgs(l, len, q, b)
  PROVE  ArgsInv'
<1>1. launch[l].stage = "unused"
  BY DEF StageArgs, IsNextLaunch
<1>2. PICK slot \in ArgsSlot(l, len) :
        /\ TakeSlot(l, slot, Args(l))
        /\ queue' = [queue EXCEPT ![q] = Append(@, [cmd |-> Args(l), buf |-> slot.buf])]
        /\ launch' = [launch EXCEPT ![l] = [stage |-> "staged", addr |-> slot.addr,
                                            size |-> len, q |-> q, barrier |-> b]]
  BY DEF StageArgs
<1>3. /\ outstanding' = outstanding \cup {Args(l)}
      /\ UNCHANGED <<kernelEnd, regions, kernels, marks, serial, orphaned, answered, failedDma,
                     copying, running, dram>>
  BY DEF StageArgs, device
<1> DEFINE c == [cmd |-> Args(l), buf |-> slot.buf]
<1>4. /\ Args(l) \in Commands \cup {Nobody} /\ Args(l) \in Commands
      /\ \A m \in Launches : Args(l) # Kernel(m) /\ (Args(l) = Args(m) => l = m)
  BY CommandsDistinct
<1>5. /\ next' \in 0 .. DramSize /\ SlotTypes'
      /\ slot.buf \in Launches /\ slot.addr \in Addresses
      /\ slot.buf = l \/ launch[slot.buf].stage # "unused"
      /\ \A s \in slots' : s.buf = slot.buf \/ s \in slots
      /\ \A s \in slots' : s.buf = slot.buf => s.owner = Args(l)
      /\ \A s, t \in slots' : s.buf = t.buf => s = t
      /\ hostArgs'[slot.buf] = l
  BY <1>1, <1>2, <1>4, SlotTaken
<1>6. c \in [cmd : Commands, buf : Launches \cup {Nobody}] /\ c.cmd = Args(l) /\ c.buf = slot.buf
  BY <1>4, <1>5
<1>7. AllocatorTypes /\ SlotTypes /\ CommandTypes /\ LaunchTypes /\ QueueTypes /\ DramTypes
  BY TypesSplit DEF ArgsInv
<1>8. /\ launch'[l].stage = "staged" /\ launch'[l].q = q
      /\ \A m \in Launches \ {l} : launch'[m] = launch[m]
  BY <1>2, <1>7 DEF LaunchTypes
<1>9. \A m \in Launches : launch[m].stage # "unused" => m # l /\ launch'[m] = launch[m]
  BY <1>1, <1>8
<1>10. LaunchTypes'
  <2> DEFINE new == [stage |-> "staged", addr |-> slot.addr, size |-> len, q |-> q, barrier |-> b]
             Record == [stage : {"unused", "staged", "pending", "done", "failed", "dropped"},
                        addr : Addresses, size : ArgLens \cup {0}, q : Queues \cup {Nobody},
                        barrier : BOOLEAN]
  <2>1. new \in Record
    BY <1>5
  <2>2. launch \in [Launches -> Record] /\ launch' = [launch EXCEPT ![l] = new]
    BY <1>2, <1>7 DEF LaunchTypes
  <2> HIDE DEF new, Record
  <2>3. launch' \in [Launches -> Record]
    BY <2>1, <2>2
  <2>4. QED
    BY <2>3 DEF Record, LaunchTypes
<1> HIDE DEF c
<1>11. /\ queue' \in [Queues -> Seq([cmd : Commands, buf : Launches \cup {Nobody}])]
       /\ \A p \in Queues : \A i \in 1 .. Len(queue'[p]) :
            \/ i \in 1 .. Len(queue[p]) /\ queue'[p][i] = queue[p][i]
            \/ p = q /\ i = Len(queue[q]) + 1 /\ queue'[p][i] = c
       /\ \A p \in Queues : Len(queue[p]) \in Nat
  <2>1. queue' = [queue EXCEPT ![q] = Append(@, c)]
    BY <1>2 DEF c
  <2>2. QED
    BY <1>6, <1>7, <2>1, AppendAt
<1>12. TypeOK'
  <2>1. AllocatorTypes'
    BY <1>3, <1>5, <1>7 DEF AllocatorTypes
  <2>2. CommandTypes'
    BY <1>3, <1>4, <1>7 DEF CommandTypes
  <2>3. QueueTypes'
    BY <1>3, <1>7, <1>11 DEF QueueTypes
  <2>4. DramTypes'
    BY <1>3, <1>7 DEF DramTypes
  <2>5. QED
    BY <1>5, <1>10, <2>1, <2>2, <2>3, <2>4, TypesSplitNext
<1>13. SlotsNamed'
  <2>1. \A s \in slots : s.buf \in Launches /\ launch[s.buf].stage # "unused"
    BY <1>7 DEF SlotTypes, ArgsInv, SlotsNamed
  <2>2. QED
    BY <1>5, <1>8, <1>9, <2>1 DEF SlotsNamed
<1>14. ASSUME NEW m \in Launches, NEW dma, HoldsBuffer(dma, m), ArgsPending(m)
       PROVE  HoldsBuffer(dma, m)' /\ ArgsPending(m)' /\ launch'[m].q = launch[m].q
  <2>1. HoldsBuffer(dma, m)'
    BY <1>1, <1>2, <1>3, <1>4, <1>9, <1>14, HoldsWhenTaken
  <2>2. QED
    BY <1>3, <1>9, <1>14, <2>1 DEF ArgsPending
<1>15. HoldsBuffer(c, l)' /\ ArgsPending(l)'
  BY <1>1, <1>3, <1>5, <1>6, <1>8, <1>9 DEF HoldsBuffer, ArgsPending, ArgsInv, NotBegun
<1>16. DmasHeld'
  <2>1. ASSUME NEW p \in Queues, NEW i \in 1 .. Len(queue'[p]), NEW m \in Launches,
               queue'[p][i].cmd = Args(m)
        PROVE  HoldsBuffer(queue[p][i], m)' /\ ArgsPending(m)' /\ launch'[m].q = p
    <3>1. CASE i \in 1 .. Len(queue[p]) /\ queue'[p][i] = queue[p][i]
      <4>1. PICK dma : dma = queue[p][i]
        OBVIOUS
      <4>2. HoldsBuffer(queue[p][i], m) /\ ArgsPending(m) /\ launch[m].q = p
        BY <2>1, <3>1 DEF ArgsInv, DmasHeld
      <4>3. HoldsBuffer(dma, m)
        BY <4>1, <4>2
      <4>4. HoldsBuffer(dma, m)' /\ ArgsPending(m)' /\ launch'[m].q = launch[m].q
        BY <1>14, <4>2, <4>3
      <4>5. QED
        BY <3>1, <4>1, <4>2, <4>4
    <3>2. CASE p = q /\ queue'[p][i] = c
      <4>1. m = l
        BY <1>4, <1>6, <2>1, <3>2
      <4>2. HoldsBuffer(c, m)' /\ c' = c
        BY <1>15, <4>1 DEF c
      <4>3. QED
        BY <1>8, <1>15, <3>2, <4>1, <4>2
    <3>3. QED
      BY <1>11, <3>1, <3>2
  <2>2. ASSUME NEW dma \in copying, NEW m \in Launches, dma.cmd = Args(m)
        PROVE  HoldsBuffer(dma, m)' /\ ArgsPending(m)'
    BY <1>14, <2>2 DEF ArgsInv, DmasHeld
  <2>3. QED
    BY <1>3, <2>1, <2>2 DEF DmasHeld
<1>17. KernelsQueued'
  <2> SUFFICES ASSUME NEW p \in Queues, NEW i \in 1 .. Len(queue'[p]), NEW m \in Launches,
                      queue'[p][i].cmd = Kernel(m)
               PROVE  /\ launch'[m].q = p /\ launch'[m].stage \notin {"unused", "staged"}
                      /\ Kernel(m) \notin answered /\ m \notin running
                      /\ launch'[m].barrier \/ Args(m) \in answered
    BY <1>3 DEF KernelsQueued
  <2>1. i \in 1 .. Len(queue[p]) /\ queue'[p][i] = queue[p][i]
    BY <1>4, <1>6, <1>11
  <2>2. QED
    BY <1>9, <2>1 DEF ArgsInv, KernelsQueued
<1>18. /\ \A p \in Queues : \A i \in 1 .. Len(queue[p]) : queue[p][i].cmd \notin {Args(l), Kernel(l)}
       /\ \A dma \in copying : dma.cmd # Args(l)
  BY <1>1 DEF ArgsInv, DmasHeld, ArgsPending, KernelsQueued
<1>19. QueueOrder'
  <2>1. \A p \in Queues : \A i, j \in 1 .. Len(queue'[p]) :
          queue'[p][i].cmd = queue'[p][j].cmd => i = j
    BY <1>6, <1>11, <1>18 DEF ArgsInv, QueueOrder
  <2>2. \A p \in Queues : \A i, j \in 1 .. Len(queue'[p]) : \A m \in Launches :
          queue'[p][i].cmd = Args(m) /\ queue'[p][j].cmd = Kernel(m) => i < j
    <3> SUFFICES ASSUME NEW p \in Queues, NEW i \in 1 .. Len(queue'[p]),
                        NEW j \in 1 .. Len(queue'[p]), NEW m \in Launches,
                        queue'[p][i].cmd = Args(m), queue'[p][j].cmd = Kernel(m)
                 PROVE  i < j
      OBVIOUS
    <3>1. j \in 1 .. Len(queue[p]) /\ queue'[p][j] = queue[p][j]
      BY <1>4, <1>6, <1>11
    <3>2. m # l
      BY <1>18, <3>1
    <3>3. i \in 1 .. Len(queue[p]) /\ queue'[p][i] = queue[p][i]
      BY <1>4, <1>6, <1>11, <3>2
    <3>4. QED
      BY <3>1, <3>3 DEF ArgsInv, QueueOrder
  <2>3. \A p \in Queues : \A i \in 1 .. Len(queue'[p]) : \A dma \in copying :
          queue'[p][i].cmd # dma.cmd
    BY <1>6, <1>11, <1>18 DEF ArgsInv, QueueOrder
  <2>4. \A d, e \in copying : d.cmd = e.cmd => d = e
    BY DEF ArgsInv, QueueOrder
  <2>5. QED
    BY <1>3, <2>1, <2>2, <2>3, <2>4 DEF QueueOrder
<1>20. NotBegun'
  BY <1>1, <1>3, <1>4, <1>8, <1>9 DEF ArgsInv, NotBegun
<1>21. QED
  BY <1>12, <1>13, <1>16, <1>17, <1>19, <1>20 DEF ArgsInv

LEMMA StageArgsFailsArgs ==
  ASSUME ArgsInv, NEW l \in Launches, NEW len \in ArgLens, StageArgsFails(l, len)
  PROVE  ArgsInv'
<1>1. launch[l].stage = "unused"
  BY DEF StageArgsFails, IsNextLaunch
<1>2. PICK slot \in ArgsSlot(l, len) : TakeSlot(l, slot, slot.owner)
  BY DEF StageArgsFails
<1>3. /\ launch' = [launch EXCEPT ![l].stage = "failed"]
      /\ UNCHANGED <<kernelEnd, regions, kernels, marks, serial, orphaned, queue, outstanding,
                     answered, failedDma, copying, running, dram>>
  BY DEF StageArgsFails, Stage, device
<1>4. slot.owner \in Commands \cup {Nobody}
  BY ArgsSlotGiven DEF ArgsInv
<1>5. /\ next' \in 0 .. DramSize /\ SlotTypes'
      /\ slot.buf = l \/ launch[slot.buf].stage # "unused"
      /\ \A s \in slots' : s.buf = slot.buf \/ s \in slots
      /\ \A s, t \in slots' : s.buf = t.buf => s = t
  BY <1>1, <1>2, <1>4, SlotTaken
<1>6. AllocatorTypes /\ SlotTypes /\ CommandTypes /\ LaunchTypes /\ QueueTypes /\ DramTypes
  BY TypesSplit DEF ArgsInv
<1>7. /\ launch'[l].stage = "failed" /\ LaunchTypes'
      /\ \A m \in Launches \ {l} : launch'[m] = launch[m]
  BY <1>3, <1>6 DEF LaunchTypes
<1>8. \A m \in Launches : launch[m].stage # "unused" => m # l /\ launch'[m] = launch[m]
  BY <1>1, <1>7
<1>9. TypeOK'
  <2>1. AllocatorTypes' /\ CommandTypes' /\ QueueTypes' /\ DramTypes'
    BY <1>3, <1>5, <1>6 DEF AllocatorTypes, CommandTypes, QueueTypes, DramTypes
  <2>2. QED
    BY <1>5, <1>7, <2>1, TypesSplitNext
<1>10. SlotsNamed'
  <2>1. \A s \in slots : s.buf \in Launches /\ launch[s.buf].stage # "unused"
    BY <1>6 DEF SlotTypes, ArgsInv, SlotsNamed
  <2>2. slot.buf \in Launches
    BY ArgsSlotGiven DEF ArgsInv
  <2>3. QED
    BY <1>5, <1>7, <1>8, <2>1, <2>2 DEF SlotsNamed
<1>11. ASSUME NEW m \in Launches, NEW dma, HoldsBuffer(dma, m), ArgsPending(m)
       PROVE  HoldsBuffer(dma, m)' /\ ArgsPending(m)' /\ launch'[m].q = launch[m].q
  <2>1. HoldsBuffer(dma, m)'
    BY <1>1, <1>2, <1>3, <1>4, <1>8, <1>11, HoldsWhenTaken
  <2>2. QED
    BY <1>3, <1>8, <1>11, <2>1 DEF ArgsPending
<1>12. DmasHeld'
  BY <1>3, <1>11 DEF ArgsInv, DmasHeld
<1>13. KernelsQueued' /\ QueueOrder'
  BY <1>3, <1>8 DEF ArgsInv, KernelsQueued, QueueOrder
<1>14. NotBegun'
  BY <1>1, <1>3, <1>7, <1>8 DEF ArgsInv, NotBegun
<1>15. QED
  BY <1>9, <1>10, <1>12, <1>13, <1>14 DEF ArgsInv

\* A launch comes to an end: tags of answered commands are given back.
LEMMA LaunchEndsArgs ==
  ASSUME ArgsInv, LaunchTypes', outstanding' \subseteq outstanding,
         outstanding \ outstanding' \subseteq answered,
         \A m \in Launches :
           /\ launch'[m].q = launch[m].q /\ launch'[m].barrier = launch[m].barrier
           /\ \/ launch'[m].stage = launch[m].stage
              \/ launch[m].stage # "unused" /\ launch'[m].stage \notin {"unused", "staged"},
         UNCHANGED <<next, kernelEnd, regions, kernels, marks, serial, orphaned, slots, hostArgs,
                     queue, answered, failedDma, copying, running, dram>>
  PROVE  ArgsInv'
<1>1. AllocatorTypes /\ SlotTypes /\ CommandTypes /\ LaunchTypes /\ QueueTypes /\ DramTypes
  BY TypesSplit DEF ArgsInv
<1>2. TypeOK'
  <2>1. AllocatorTypes' /\ SlotTypes' /\ CommandTypes' /\ QueueTypes' /\ DramTypes'
    BY <1>1 DEF AllocatorTypes, SlotTypes, CommandTypes, QueueTypes, DramTypes
  <2>2. QED
    BY <2>1, TypesSplitNext
<1>3. SlotsNamed'
  BY <1>1 DEF ArgsInv, SlotsNamed, SlotTypes
<1>4. ASSUME NEW m \in Launches, NEW dma, HoldsBuffer(dma, m), ArgsPending(m)
      PROVE  HoldsBuffer(dma, m)' /\ ArgsPending(m)' /\ launch'[m].q = launch[m].q
  <2>1. {Args(m), Kernel(m)} \cap outstanding \subseteq outstanding'
    BY <1>4 DEF ArgsPending
  <2>2. HoldsBuffer(dma, m)'
    BY <1>4, <2>1 DEF HoldsBuffer
  <2>3. QED
    BY <1>4, <2>1, <2>2 DEF ArgsPending
<1>5. DmasHeld'
  BY <1>4 DEF ArgsInv, DmasHeld
<1>6. KernelsQueued'
  BY DEF ArgsInv, KernelsQueued
<1>7. QueueOrder' /\ NotBegun'
  BY DEF ArgsInv, QueueOrder, NotBegun
<1>8. QED
  BY <1>2, <1>3, <1>5, <1>6, <1>7 DEF ArgsInv

\* Only the stage of one launch changes.
LEMMA StageChanges ==
  ASSUME LaunchTypes, NEW l \in Launches, NEW stage \in {"pending", "done", "failed", "dropped"},
         Stage(l, stage)
  PROVE  /\ LaunchTypes' /\ launch'[l].stage = stage
         /\ \A m \in Launches :
              /\ launch'[m].q = launch[m].q /\ launch'[m].barrier = launch[m].barrier
              /\ launch'[m].addr = launch[m].addr /\ launch'[m].size = launch[m].size
              /\ m # l => launch'[m].stage = launch[m].stage
BY DEF LaunchTypes, Stage

LEMMA PushLaunchFailsArgs == ASSUME ArgsInv, NEW l \in Launches, PushLaunchFails(l) PROVE ArgsInv'
<1>1. LaunchTypes /\ launch[l].stage = "staged"
  BY TypesSplit DEF ArgsInv, PushLaunchFails
<1>2. outstanding' \subseteq outstanding /\ outstanding \ outstanding' \subseteq answered
  BY DEF PushLaunchFails
<1>3. QED
  BY <1>1, <1>2, StageChanges, LaunchEndsArgs DEF PushLaunchFails, allocator, device

LEMMA WaitLaunchArgs == ASSUME ArgsInv, NEW l \in Launches, WaitLaunch(l) PROVE ArgsInv'
<1>1. LaunchTypes /\ launch[l].stage = "pending"
  BY TypesSplit DEF ArgsInv, WaitLaunch
<1>2. outstanding' \subseteq outstanding /\ outstanding \ outstanding' \subseteq answered
  BY DEF WaitLaunch, Collected
<1>3. QED
  BY <1>1, <1>2, StageChanges, LaunchEndsArgs DEF WaitLaunch, allocator, device

LEMMA WaitLaunchFailsArgs == ASSUME ArgsInv, NEW l \in Launches, WaitLaunchFails(l) PROVE ArgsInv'
<1>1. LaunchTypes /\ launch[l].stage = "pending"
  BY TypesSplit DEF ArgsInv, WaitLaunchFails
<1>2. outstanding' \subseteq outstanding /\ outstanding \ outstanding' \subseteq answered
  BY DEF WaitLaunchFails
<1>3. QED
  BY <1>1, <1>2, StageChanges, LaunchEndsArgs DEF WaitLaunchFails, allocator, device

LEMMA DropPendingArgs == ASSUME ArgsInv, NEW l \in Launches, DropPending(l) PROVE ArgsInv'
<1>1. LaunchTypes /\ launch[l].stage = "pending"
  BY TypesSplit DEF ArgsInv, DropPending
<1>2. QED
  BY <1>1, StageChanges, LaunchEndsArgs DEF DropPending, allocator, device

LEMMA ReleaseLateArgs == ASSUME ArgsInv, NEW l \in Launches, ReleaseLate(l) PROVE ArgsInv'
<1>1. LaunchTypes /\ LaunchTypes'
  BY TypesSplit DEF ArgsInv, ReleaseLate, LaunchTypes
<1>2. outstanding' \subseteq outstanding /\ outstanding \ outstanding' \subseteq answered
  BY DEF ReleaseLate
<1>3. QED
  BY <1>1, <1>2, LaunchEndsArgs DEF ReleaseLate, allocator, device

\* The kernel takes over its argument slot and is queued behind the DMA.
LEMMA PushLaunchArgs == ASSUME ArgsInv, NEW l \in Launches, PushLaunch(l) PROVE ArgsInv'
<1> DEFINE c == [cmd |-> Kernel(l), buf |-> Nobody]
           Moved(s) == IF s.owner = Args(l) THEN [s EXCEPT !.owner = Kernel(l)] ELSE s
<1>1. /\ launch[l].stage = "staged" /\ ArgsArrived(l) /\ Stage(l, "pending")
      /\ queue' = [queue EXCEPT ![launch[l].q] = Append(@, c)]
      /\ outstanding' = (IF launch[l].barrier THEN outstanding ELSE outstanding \ {Args(l)})
                        \cup {Kernel(l)}
      /\ slots' = {Moved(s) : s \in slots}
      /\ UNCHANGED <<next, kernelEnd, regions, kernels, marks, serial, orphaned, hostArgs,
                     answered, failedDma, copying, running, dram>>
  BY DEF PushLaunch, allocator, device
<1>2. AllocatorTypes /\ SlotTypes /\ CommandTypes /\ LaunchTypes /\ QueueTypes /\ DramTypes
  BY TypesSplit DEF ArgsInv
<1>3. /\ Kernel(l) \in Commands
      /\ \A m \in Launches : Kernel(l) # Args(m) /\ (Kernel(l) = Kernel(m) => l = m)
      /\ \A m \in Launches : Args(l) # Kernel(m) /\ (Args(l) = Args(m) => l = m)
  BY CommandsDistinct
<1>4. /\ LaunchTypes' /\ launch'[l].stage = "pending"
      /\ \A m \in Launches :
           /\ launch'[m].q = launch[m].q /\ launch'[m].barrier = launch[m].barrier
           /\ launch'[m].addr = launch[m].addr /\ launch'[m].size = launch[m].size
           /\ m # l => launch'[m].stage = launch[m].stage
  BY <1>1, <1>2, StageChanges
<1>5. c \in [cmd : Commands, buf : Launches \cup {Nobody}] /\ c.cmd = Kernel(l)
  BY <1>3
<1> HIDE DEF c
<1>6. /\ queue' \in [Queues -> Seq([cmd : Commands, buf : Launches \cup {Nobody}])]
      /\ \A p \in Queues : \A i \in 1 .. Len(queue'[p]) :
           \/ i \in 1 .. Len(queue[p]) /\ queue'[p][i] = queue[p][i]
           \/ p = launch[l].q /\ i = Len(queue[p]) + 1 /\ queue'[p][i] = c
      /\ \A p \in Queues : Len(queue[p]) \in Nat
  <2>1. CASE launch[l].q \in Queues
    <3>1. PICK q \in Queues : q = launch[l].q
      BY <2>1
    <3>2. queue' = [queue EXCEPT ![q] = Append(@, c)]
      BY <1>1, <3>1
    <3>3. QueueTypes /\ c \in [cmd : Commands, buf : Launches \cup {Nobody}]
      BY <1>2, <1>5
    <3>4. /\ queue' \in [Queues -> Seq([cmd : Commands, buf : Launches \cup {Nobody}])]
          /\ \A p \in Queues : \A i \in 1 .. Len(queue'[p]) :
               \/ i \in 1 .. Len(queue[p]) /\ queue'[p][i] = queue[p][i]
               \/ p = q /\ i = Len(queue[q]) + 1 /\ queue'[p][i] = c
          /\ \A p \in Queues : Len(queue[p]) \in Nat
      BY <3>2, <3>3, AppendAt
    <3>5. QED
      BY <3>1, <3>4, Zenon
  <2>2. CASE launch[l].q \notin Queues
    <3>1. queue' = queue
      BY <1>1, <1>2, <2>2 DEF QueueTypes
    <3>2. \A p \in Queues : Len(queue[p]) \in Nat
      <4> DEFINE Entry == [cmd : Commands, buf : Launches \cup {Nobody}]
      <4>1. queue \in [Queues -> Seq(Entry)]
        BY <1>2 DEF QueueTypes
      <4> HIDE DEF Entry
      <4>2. QED
        BY <4>1
    <3>3. QED
      BY <1>2, <3>1, <3>2 DEF QueueTypes
  <2>3. QED
    BY <2>1, <2>2
<1>7. \A s \in slots : /\ Moved(s).buf = s.buf
                       /\ Moved(s) \in [addr : Addresses, size : ArgLens, buf : Launches,
                                        owner : Commands \cup {Nobody}]
                       /\ s.owner # Args(l) => Moved(s) = s
                       /\ s.owner = Args(l) => Moved(s).owner = Kernel(l)
  <2> SUFFICES ASSUME NEW s \in slots
               PROVE  /\ Moved(s).buf = s.buf
                      /\ Moved(s) \in [addr : Addresses, size : ArgLens, buf : Launches,
                                       owner : Commands \cup {Nobody}]
                      /\ s.owner # Args(l) => Moved(s) = s
                      /\ s.owner = Args(l) => Moved(s).owner = Kernel(l)
    OBVIOUS
  <2>1. s \in [addr : Addresses, size : ArgLens, buf : Launches, owner : Commands \cup {Nobody}]
    BY <1>2 DEF SlotTypes
  <2>2. QED
    BY <1>3, <2>1
<1> HIDE DEF Moved
<1>8. TypeOK'
  <2>1. AllocatorTypes' /\ DramTypes'
    BY <1>1, <1>2 DEF AllocatorTypes, DramTypes
  <2>2. SlotTypes'
    BY <1>1, <1>2, <1>7 DEF SlotTypes
  <2>3. CommandTypes'
    BY <1>1, <1>2, <1>3 DEF CommandTypes
  <2>4. QueueTypes'
    BY <1>1, <1>2, <1>6 DEF QueueTypes
  <2>5. QED
    BY <1>4, <2>1, <2>2, <2>3, <2>4, TypesSplitNext
<1>9. SlotsNamed'
  <2>1. \A s \in slots : s.buf \in Launches /\ launch'[s.buf].stage # "unused"
    BY <1>1, <1>2, <1>4 DEF SlotTypes, ArgsInv, SlotsNamed
  <2>2. QED
    BY <1>1, <1>7, <2>1 DEF ArgsInv, SlotsNamed
<1>10. \A m \in Launches : launch[m].stage # "unused" => launch'[m].stage # "unused"
  BY <1>1, <1>4
<1>11. ASSUME NEW m \in Launches, NEW dma, HoldsBuffer(dma, m), ArgsPending(m)
       PROVE  HoldsBuffer(dma, m)' /\ ArgsPending(m)' /\ launch'[m].q = launch[m].q
  <2>1. Args(m) \in outstanding'
    BY <1>1, <1>3, <1>11 DEF ArgsPending, ArgsArrived
  <2>2. Kernel(m) \in outstanding => Kernel(m) \in outstanding'
    BY <1>1, <1>3
  <2>3. ASSUME NEW s \in slots, s.buf = dma.buf
        PROVE  Moved(s).owner \in {Args(m), Kernel(m)} /\ Moved(s).owner \in outstanding'
    <3>1. s.owner \in {Args(m), Kernel(m)} /\ s.owner \in outstanding
      BY <1>11, <2>3 DEF HoldsBuffer
    <3>2. CASE s.owner = Args(l)
      BY <1>1, <1>3, <1>7, <3>1, <3>2
    <3>3. CASE s.owner # Args(l)
      BY <1>7, <2>1, <2>2, <3>1, <3>3
    <3>4. QED
      BY <3>2, <3>3
  <2>4. HoldsBuffer(dma, m)'
    BY <1>1, <1>7, <1>10, <1>11, <2>3 DEF HoldsBuffer
  <2>5. ArgsPending(m)'
    BY <1>1, <1>10, <1>11, <2>1 DEF ArgsPending
  <2>6. QED
    BY <1>4, <2>4, <2>5
<1>12. DmasHeld'
  <2>1. ASSUME NEW p \in Queues, NEW i \in 1 .. Len(queue'[p]), NEW m \in Launches,
               queue'[p][i].cmd = Args(m)
        PROVE  HoldsBuffer(queue[p][i], m)' /\ ArgsPending(m)' /\ launch'[m].q = p
    <3>1. i \in 1 .. Len(queue[p]) /\ queue'[p][i] = queue[p][i]
      BY <1>3, <1>5, <1>6, <2>1
    <3>2. PICK dma : dma = queue[p][i]
      OBVIOUS
    <3>3. HoldsBuffer(dma, m) /\ ArgsPending(m) /\ launch[m].q = p
      BY <2>1, <3>1, <3>2 DEF ArgsInv, DmasHeld
    <3>4. HoldsBuffer(dma, m)' /\ ArgsPending(m)' /\ launch'[m].q = launch[m].q
      BY <1>11, <3>3
    <3>5. QED
      BY <3>1, <3>2, <3>3, <3>4
  <2>2. ASSUME NEW dma \in copying, NEW m \in Launches, dma.cmd = Args(m)
        PROVE  HoldsBuffer(dma, m)' /\ ArgsPending(m)'
    BY <1>11, <2>2 DEF ArgsInv, DmasHeld
  <2>3. QED
    BY <1>1, <2>1, <2>2 DEF DmasHeld
<1>13. KernelsQueued'
  <2> SUFFICES ASSUME NEW p \in Queues, NEW i \in 1 .. Len(queue'[p]), NEW m \in Launches,
                      queue'[p][i].cmd = Kernel(m)
               PROVE  /\ launch'[m].q = p /\ launch'[m].stage \notin {"unused", "staged"}
                      /\ Kernel(m) \notin answered /\ m \notin running
                      /\ launch'[m].barrier \/ Args(m) \in answered
    BY <1>1 DEF KernelsQueued
  <2>1. CASE i \in 1 .. Len(queue[p]) /\ queue'[p][i] = queue[p][i]
    BY <1>4, <2>1 DEF ArgsInv, KernelsQueued
  <2>2. CASE p = launch[l].q /\ queue'[p][i] = c
    <3>1. m = l
      BY <1>3, <1>5, <2>2
    <3>2. QED
      BY <1>1, <1>4, <2>2, <3>1 DEF ArgsArrived, ArgsInv, NotBegun
  <2>3. QED
    BY <1>6, <2>1, <2>2
<1>14. \A p \in Queues : \A i \in 1 .. Len(queue[p]) : queue[p][i].cmd # Kernel(l)
  BY <1>1 DEF ArgsInv, KernelsQueued
<1>15. QueueOrder'
  <2>1. \A p \in Queues : \A i, j \in 1 .. Len(queue'[p]) :
          queue'[p][i].cmd = queue'[p][j].cmd => i = j
    BY <1>5, <1>6, <1>14 DEF ArgsInv, QueueOrder
  <2>2. ASSUME NEW p \in Queues, NEW i \in 1 .. Len(queue'[p]), NEW j \in 1 .. Len(queue'[p]),
               NEW m \in Launches, queue'[p][i].cmd = Args(m), queue'[p][j].cmd = Kernel(m)
        PROVE  i < j
    <3>1. i \in 1 .. Len(queue[p]) /\ queue'[p][i] = queue[p][i] /\ Len(queue[p]) \in Nat
      BY <1>3, <1>5, <1>6, <2>2
    <3>2. CASE j \in 1 .. Len(queue[p]) /\ queue'[p][j] = queue[p][j]
      BY <2>2, <3>1, <3>2 DEF ArgsInv, QueueOrder
    <3>3. CASE j = Len(queue[p]) + 1
      BY <3>1, <3>3
    <3>4. QED
      BY <1>6, <3>2, <3>3
  <2>3. ASSUME NEW p \in Queues, NEW i \in 1 .. Len(queue'[p]), NEW dma \in copying
        PROVE  queue'[p][i].cmd # dma.cmd
    <3>1. dma.cmd # Kernel(l)
      BY <1>2, <1>3 DEF QueueTypes
    <3>2. QED
      BY <1>5, <1>6, <3>1 DEF ArgsInv, QueueOrder
  <2>4. \A d, e \in copying : d.cmd = e.cmd => d = e
    BY DEF ArgsInv, QueueOrder
  <2>5. QED
    BY <1>1, <2>1, <2>2, <2>3, <2>4 DEF QueueOrder
<1>16. NotBegun'
  BY <1>1, <1>3, <1>4 DEF ArgsInv, NotBegun
<1>17. QED
  BY <1>8, <1>9, <1>12, <1>13, <1>15, <1>16 DEF ArgsInv
-----------------------------------------------------------------------------
(***************************************************************************)
(* ArgsInv is kept: the device.                                            *)
(***************************************************************************)

\* What is left of the queues when the command at the head of one starts.
Remaining(q, head) ==
  /\ queue' \in [Queues -> Seq([cmd : Commands, buf : Launches \cup {Nobody}])]
  /\ 1 \in 1 .. Len(queue[q]) /\ Head(queue[q]) = head
  /\ head \in [cmd : Commands, buf : Launches \cup {Nobody}]
  /\ \A p \in Queues : \A i \in 1 .. Len(queue'[p]) :
       /\ \E j \in 1 .. Len(queue[p]) : queue'[p][i] = queue[p][j]
       /\ queue'[p][i].cmd # head.cmd
  /\ \A p \in Queues : \A i, j \in 1 .. Len(queue'[p]) :
       queue'[p][i].cmd = queue'[p][j].cmd => i = j
  /\ \A p \in Queues : \A i, j \in 1 .. Len(queue'[p]) : \A l \in Launches :
       queue'[p][i].cmd = Args(l) /\ queue'[p][j].cmd = Kernel(l) => i < j

LEMMA Dequeued ==
  ASSUME ArgsInv, NEW q \in Queues, queue[q] # <<>>, Dequeue(q)
  PROVE  Remaining(q, queue[q][1])
<1>1. QueueTypes /\ QueueOrder
  BY TypesSplit DEF ArgsInv
<1>2. /\ queue' \in [Queues -> Seq([cmd : Commands, buf : Launches \cup {Nobody}])]
      /\ \A p \in Queues \ {q} : queue'[p] = queue[p]
      /\ \A i \in 1 .. Len(queue'[q]) : i + 1 \in 1 .. Len(queue[q]) /\ queue'[q][i] = queue[q][i + 1]
      /\ 1 \in 1 .. Len(queue[q]) /\ Head(queue[q]) = queue[q][1]
      /\ queue[q][1] \in [cmd : Commands, buf : Launches \cup {Nobody}]
      /\ \A p \in Queues : Len(queue[p]) \in Nat
  BY <1>1, DequeueAt
<1>3. ASSUME NEW p \in Queues, NEW i \in 1 .. Len(queue'[p])
      PROVE  \E j \in 1 .. Len(queue[p]) : queue'[p][i] = queue[p][j]
  <2>1. CASE p = q
    BY <1>2, <1>3, <2>1
  <2>2. CASE p # q
    BY <1>2, <1>3, <2>2
  <2>3. QED
    BY <2>1, <2>2
<1>4. ASSUME NEW p \in Queues, NEW i \in 1 .. Len(queue'[p]), queue'[p][i].cmd = queue[q][1].cmd PROVE FALSE
  <2>1. CASE p = q
    <3>1. i + 1 \in 1 .. Len(queue[q]) /\ queue[q][i + 1].cmd = queue[q][1].cmd
      BY <1>2, <1>4, <2>1
    <3>2. i + 1 = 1 /\ i \in Nat \ {0}
      BY <1>1, <1>2, <1>4, <3>1 DEF QueueOrder
    <3>3. QED
      BY <3>2
  <2>2. CASE p # q
    <3>1. PICK l \in Launches : queue[q][1].cmd \in {Args(l), Kernel(l)}
      BY <1>2 DEF Commands
    <3>2. PICK j \in 1 .. Len(queue[p]) : queue[p][j].cmd = queue[q][1].cmd
      BY <1>2, <1>4, <2>2
    <3>3. launch[l].q = p /\ launch[l].q = q
      <4>1. queue[p][j].cmd \in {Args(l), Kernel(l)} /\ queue[q][1].cmd \in {Args(l), Kernel(l)}
        BY <3>1, <3>2
      <4>2. \A o \in Queues : \A n \in 1 .. Len(queue[o]) :
              queue[o][n].cmd \in {Args(l), Kernel(l)} => launch[l].q = o
        BY DEF ArgsInv, DmasHeld, KernelsQueued
      <4>3. QED
        BY <1>2, <4>1, <4>2
    <3>4. QED
      BY <2>2, <3>3
  <2>3. QED
    BY <2>1, <2>2
<1>5. ASSUME NEW p \in Queues, NEW i \in 1 .. Len(queue'[p]), NEW j \in 1 .. Len(queue'[p]),
             queue'[p][i].cmd = queue'[p][j].cmd
      PROVE  i = j
  <2>1. CASE p = q
    <3>1. /\ i + 1 \in 1 .. Len(queue[q]) /\ j + 1 \in 1 .. Len(queue[q])
          /\ queue[q][i + 1].cmd = queue[q][j + 1].cmd
      BY <1>2, <1>5, <2>1
    <3>2. i + 1 = j + 1
      BY <1>1, <3>1 DEF QueueOrder
    <3>3. QED
      BY <3>2
  <2>2. QED
    BY <1>1, <1>2, <1>5, <2>1 DEF QueueOrder
<1>6. ASSUME NEW p \in Queues, NEW i \in 1 .. Len(queue'[p]), NEW j \in 1 .. Len(queue'[p]),
             NEW l \in Launches, queue'[p][i].cmd = Args(l), queue'[p][j].cmd = Kernel(l)
      PROVE  i < j
  <2>1. CASE p = q
    <3>1. /\ i + 1 \in 1 .. Len(queue[q]) /\ j + 1 \in 1 .. Len(queue[q])
          /\ queue[q][i + 1].cmd = Args(l) /\ queue[q][j + 1].cmd = Kernel(l)
      BY <1>2, <1>6, <2>1
    <3>2. i + 1 < j + 1
      BY <1>1, <3>1 DEF QueueOrder
    <3>3. QED
      BY <3>2
  <2>2. QED
    BY <1>1, <1>2, <1>6, <2>1 DEF QueueOrder
<1>7. \A p \in Queues : \A i \in 1 .. Len(queue'[p]) :
        /\ \E j \in 1 .. Len(queue[p]) : queue'[p][i] = queue[p][j]
        /\ queue'[p][i].cmd # queue[q][1].cmd
  BY <1>3, <1>4, Zenon
<1>8. \A p \in Queues : \A i, j \in 1 .. Len(queue'[p]) :
        queue'[p][i].cmd = queue'[p][j].cmd => i = j
  BY <1>5, Zenon
<1>9. \A p \in Queues : \A i, j \in 1 .. Len(queue'[p]) : \A l \in Launches :
        queue'[p][i].cmd = Args(l) /\ queue'[p][j].cmd = Kernel(l) => i < j
  BY <1>6, Zenon
<1>10. QED
  BY <1>2, <1>7, <1>8, <1>9, Zenon DEF Remaining

LEMMA StartArgsArgs == ASSUME ArgsInv, NEW q \in Queues, StartArgs(q) PROVE ArgsInv'
<1>1. PICK head : head = queue[q][1]
  OBVIOUS
<1>2. queue[q] # <<>> /\ Dequeue(q)
  BY DEF StartArgs
<1>3. /\ queue' \in [Queues -> Seq([cmd : Commands, buf : Launches \cup {Nobody}])]
      /\ 1 \in 1 .. Len(queue[q]) /\ Head(queue[q]) = head
      /\ head \in [cmd : Commands, buf : Launches \cup {Nobody}]
      /\ \A p \in Queues : \A i \in 1 .. Len(queue'[p]) :
           /\ \E j \in 1 .. Len(queue[p]) : queue'[p][i] = queue[p][j]
           /\ queue'[p][i].cmd # head.cmd
      /\ \A p \in Queues : \A i, j \in 1 .. Len(queue'[p]) :
           queue'[p][i].cmd = queue'[p][j].cmd => i = j
      /\ \A p \in Queues : \A i, j \in 1 .. Len(queue'[p]) : \A l \in Launches :
           queue'[p][i].cmd = Args(l) /\ queue'[p][j].cmd = Kernel(l) => i < j
  <2>1. Remaining(q, queue[q][1])
    BY <1>2, Dequeued DEF ArgsInv
  <2>2. Remaining(q, head)
    BY <1>1, <2>1
  <2>3. QED
    BY <2>2, Zenon DEF Remaining
<1>4. /\ copying' = copying \cup {head}
      /\ UNCHANGED <<next, kernelEnd, regions, kernels, marks, serial, orphaned, slots, hostArgs,
                     outstanding, launch, answered, failedDma, running, dram>>
  BY <1>3 DEF StartArgs, allocator
<1>5. PICK l \in Launches : head.cmd = Args(l)
  BY <1>3 DEF StartArgs
<1>6. HoldsBuffer(head, l) /\ ArgsPending(l)
  <2>1. HoldsBuffer(queue[q][1], l) /\ ArgsPending(l)
    BY <1>1, <1>3, <1>5 DEF ArgsInv, DmasHeld
  <2>2. QED
    BY <1>1, <2>1
<1>7. AllocatorTypes /\ SlotTypes /\ CommandTypes /\ LaunchTypes /\ QueueTypes /\ DramTypes
  BY TypesSplit DEF ArgsInv
<1>8. head \in [cmd : {Args(m) : m \in Launches}, buf : Launches]
  BY <1>3, <1>5, <1>6 DEF HoldsBuffer
<1>9. TypeOK'
  <2>1. /\ AllocatorTypes' /\ SlotTypes' /\ CommandTypes' /\ LaunchTypes' /\ DramTypes'
    BY <1>4, <1>7 DEF AllocatorTypes, SlotTypes, CommandTypes, LaunchTypes, DramTypes
  <2>2. QueueTypes'
    BY <1>3, <1>4, <1>7, <1>8 DEF QueueTypes
  <2>3. QED
    BY <2>1, <2>2, TypesSplitNext
<1>10. SlotsNamed' /\ NotBegun'
  BY <1>4 DEF ArgsInv, SlotsNamed, NotBegun
<1>11. \A dma : \A m \in Launches : HoldsBuffer(dma, m) /\ ArgsPending(m) =>
         HoldsBuffer(dma, m)' /\ ArgsPending(m)' /\ launch'[m].q = launch[m].q
  BY <1>4 DEF HoldsBuffer, ArgsPending
<1>12. DmasHeld'
  <2>1. ASSUME NEW p \in Queues, NEW i \in 1 .. Len(queue'[p]), NEW m \in Launches,
               queue'[p][i].cmd = Args(m)
        PROVE  HoldsBuffer(queue[p][i], m)' /\ ArgsPending(m)' /\ launch'[m].q = p
    <3>1. PICK j \in 1 .. Len(queue[p]) : queue'[p][i] = queue[p][j]
      BY <1>3
    <3>2. PICK dma : dma = queue[p][j]
      OBVIOUS
    <3>3. HoldsBuffer(dma, m) /\ ArgsPending(m) /\ launch[m].q = p
      BY <2>1, <3>1, <3>2 DEF ArgsInv, DmasHeld
    <3>4. HoldsBuffer(dma, m)' /\ ArgsPending(m)' /\ launch'[m].q = launch[m].q
      BY <1>11, <3>3
    <3>5. QED
      BY <3>1, <3>2, <3>3, <3>4
  <2>2. ASSUME NEW dma \in copying', NEW m \in Launches, dma.cmd = Args(m)
        PROVE  HoldsBuffer(dma, m)' /\ ArgsPending(m)'
    <3>1. CASE dma = head
      BY <1>5, <1>6, <1>11, <2>2, <3>1, CommandsDistinct
    <3>2. CASE dma \in copying
      BY <1>11, <2>2, <3>2 DEF ArgsInv, DmasHeld
    <3>3. QED
      BY <1>4, <2>2, <3>1, <3>2
  <2>3. QED
    BY <2>1, <2>2 DEF DmasHeld
<1>13. KernelsQueued'
  BY <1>3, <1>4 DEF ArgsInv, KernelsQueued
<1>14. QueueOrder'
  <2>1. \A dma \in copying : dma.cmd # head.cmd
    BY <1>1, <1>3 DEF ArgsInv, QueueOrder
  <2>2. \A p \in Queues : \A i \in 1 .. Len(queue'[p]) : \A dma \in copying' :
          queue'[p][i].cmd # dma.cmd
    BY <1>3, <1>4 DEF ArgsInv, QueueOrder
  <2>3. \A d, e \in copying' : d.cmd = e.cmd => d = e
    BY <1>4, <2>1 DEF ArgsInv, QueueOrder
  <2>4. QED
    BY <1>3, <2>2, <2>3 DEF QueueOrder
<1>15. QED
  BY <1>9, <1>10, <1>12, <1>13, <1>14 DEF ArgsInv

LEMMA StartLaunchArgs == ASSUME ArgsInv, NEW q \in Queues, Start(q) PROVE ArgsInv'
<1>1. PICK head : head = queue[q][1]
  OBVIOUS
<1>2. queue[q] # <<>> /\ Dequeue(q)
  BY DEF Start
<1>3. /\ queue' \in [Queues -> Seq([cmd : Commands, buf : Launches \cup {Nobody}])]
      /\ 1 \in 1 .. Len(queue[q]) /\ Head(queue[q]) = head
      /\ \A p \in Queues : \A i \in 1 .. Len(queue'[p]) :
           /\ \E j \in 1 .. Len(queue[p]) : queue'[p][i] = queue[p][j]
           /\ queue'[p][i].cmd # head.cmd
      /\ \A p \in Queues : \A i, j \in 1 .. Len(queue'[p]) :
           queue'[p][i].cmd = queue'[p][j].cmd => i = j
      /\ \A p \in Queues : \A i, j \in 1 .. Len(queue'[p]) : \A l \in Launches :
           queue'[p][i].cmd = Args(l) /\ queue'[p][j].cmd = Kernel(l) => i < j
  <2>1. Remaining(q, queue[q][1])
    BY <1>2, Dequeued DEF ArgsInv
  <2>2. Remaining(q, head)
    BY <1>1, <2>1
  <2>3. QED
    BY <2>2, Zenon DEF Remaining
<1>4. PICK l \in Launches : head.cmd = Kernel(l) /\ MayStart(q, l) /\ running' = running \cup {l}
  BY <1>3 DEF Start
<1>5. UNCHANGED <<next, kernelEnd, regions, kernels, marks, serial, orphaned, slots, hostArgs,
                  outstanding, launch, answered, failedDma, copying, dram>>
  BY DEF Start, allocator
<1>6. /\ launch[l].q = q /\ launch[l].stage \notin {"unused", "staged"}
      /\ Kernel(l) \notin answered /\ l \notin running
      /\ launch[l].barrier \/ Args(l) \in answered
  BY <1>1, <1>3, <1>4 DEF ArgsInv, KernelsQueued
<1>7. AllocatorTypes /\ SlotTypes /\ CommandTypes /\ LaunchTypes /\ QueueTypes /\ DramTypes
  BY TypesSplit DEF ArgsInv
<1>8. TypeOK'
  <2>1. /\ AllocatorTypes' /\ SlotTypes' /\ CommandTypes' /\ LaunchTypes' /\ DramTypes'
    BY <1>4, <1>5, <1>7 DEF AllocatorTypes, SlotTypes, CommandTypes, LaunchTypes, DramTypes
  <2>2. QueueTypes'
    BY <1>3, <1>5, <1>7 DEF QueueTypes
  <2>3. QED
    BY <2>1, <2>2, TypesSplitNext
<1>9. SlotsNamed' /\ NotBegun'
  BY <1>4, <1>5, <1>6 DEF ArgsInv, SlotsNamed, NotBegun
\* The arguments of l have arrived.
<1>10. ASSUME NEW p \in Queues, NEW i \in 1 .. Len(queue[p]), queue[p][i].cmd = Args(l),
              i # 1 \/ p # q
       PROVE  FALSE
  <2>1. p = q
    BY <1>6, <1>10 DEF ArgsInv, DmasHeld
  <2>2. i < 1 /\ i \in 1 .. Len(queue[p])
    BY <1>1, <1>3, <1>4, <1>10, <2>1 DEF ArgsInv, QueueOrder
  <2>3. QED
    BY <2>2
<1>11. ASSUME NEW dma \in copying, dma.cmd = Args(l) PROVE FALSE
  <2>1. DmaLaunch(dma) = l
    BY <1>11 DEF DmaLaunch, Args
  <2>2. Args(l) \notin answered
    BY <1>11 DEF ArgsInv, DmasHeld, ArgsPending
  <2>3. Drained(q)
    BY <1>4, <1>6, <2>2 DEF MayStart
  <2>4. QED
    BY <1>6, <1>11, <2>1, <2>3 DEF Drained
<1>12. \A dma : \A m \in Launches \ {l} : HoldsBuffer(dma, m) /\ ArgsPending(m) =>
         HoldsBuffer(dma, m)' /\ ArgsPending(m)' /\ launch'[m].q = launch[m].q
  BY <1>4, <1>5 DEF HoldsBuffer, ArgsPending
<1>13. DmasHeld'
  <2>1. ASSUME NEW p \in Queues, NEW i \in 1 .. Len(queue'[p]), NEW m \in Launches,
               queue'[p][i].cmd = Args(m)
        PROVE  HoldsBuffer(queue[p][i], m)' /\ ArgsPending(m)' /\ launch'[m].q = p
    <3>1. PICK j \in 1 .. Len(queue[p]) : queue'[p][i] = queue[p][j]
      BY <1>3
    <3>2. PICK dma : dma = queue[p][j]
      OBVIOUS
    <3>3. HoldsBuffer(dma, m) /\ ArgsPending(m) /\ launch[m].q = p
      BY <2>1, <3>1, <3>2 DEF ArgsInv, DmasHeld
    <3>4. m # l
      <4>1. queue[q][1].cmd # Args(l)
        BY <1>1, <1>4, CommandsDistinct
      <4>2. QED
        BY <1>10, <2>1, <3>1, <4>1
    <3>5. HoldsBuffer(dma, m)' /\ ArgsPending(m)' /\ launch'[m].q = launch[m].q
      BY <1>12, <3>3, <3>4
    <3>6. QED
      BY <3>1, <3>2, <3>3, <3>5
  <2>2. ASSUME NEW dma \in copying, NEW m \in Launches, dma.cmd = Args(m)
        PROVE  HoldsBuffer(dma, m)' /\ ArgsPending(m)'
    <3>1. m # l
      BY <1>11, <2>2
    <3>2. QED
      BY <1>12, <2>2, <3>1 DEF ArgsInv, DmasHeld
  <2>3. QED
    BY <1>5, <2>1, <2>2 DEF DmasHeld
<1>14. KernelsQueued'
  <2> SUFFICES ASSUME NEW p \in Queues, NEW i \in 1 .. Len(queue'[p]), NEW m \in Launches,
                      queue'[p][i].cmd = Kernel(m)
               PROVE  /\ launch[m].q = p /\ launch[m].stage \notin {"unused", "staged"}
                      /\ Kernel(m) \notin answered /\ m \notin running'
                      /\ launch[m].barrier \/ Args(m) \in answered
    BY <1>5 DEF KernelsQueued
  <2>1. m # l
    BY <1>3, <1>4
  <2>2. PICK j \in 1 .. Len(queue[p]) : queue[p][j].cmd = Kernel(m)
    BY <1>3
  <2>3. QED
    BY <1>4, <2>1, <2>2 DEF ArgsInv, KernelsQueued
<1>15. QueueOrder'
  <2>1. ASSUME NEW p \in Queues, NEW i \in 1 .. Len(queue'[p]), NEW dma \in copying
        PROVE  queue'[p][i].cmd # dma.cmd
    <3>1. PICK j \in 1 .. Len(queue[p]) : queue'[p][i] = queue[p][j]
      BY <1>3
    <3>2. QED
      BY <3>1 DEF ArgsInv, QueueOrder
  <2>2. \A d, e \in copying : d.cmd = e.cmd => d = e
    BY DEF ArgsInv, QueueOrder
  <2>3. copying' = copying
    BY <1>5
  <2>4. QED
    BY <1>3, <2>1, <2>2, <2>3, Zenon DEF QueueOrder
<1>16. QED
  BY <1>8, <1>9, <1>13, <1>14, <1>15 DEF ArgsInv

LEMMA FinishArgsArgs ==
  ASSUME ArgsInv, NEW dma \in copying, NEW ok \in BOOLEAN, FinishArgs(dma, ok)
  PROVE  ArgsInv'
<1>1. AllocatorTypes /\ SlotTypes /\ CommandTypes /\ LaunchTypes /\ QueueTypes /\ DramTypes
  BY TypesSplit DEF ArgsInv
<1>2. PICK l \in Launches : dma.cmd = Args(l)
  BY <1>1 DEF QueueTypes
<1>3. DmaLaunch(dma) = l
  BY <1>2 DEF DmaLaunch, Args
<1>4. HoldsBuffer(dma, l) /\ ArgsPending(l)
  BY <1>2 DEF ArgsInv, DmasHeld
<1>5. /\ copying' = copying \ {dma} /\ answered' = answered \cup {Args(l)}
      /\ dram' = [a \in Addresses |-> IF ok /\ a \in Units(launch[l]) THEN <<"args", l>> ELSE dram[a]]
      /\ failedDma' = IF ok THEN failedDma ELSE failedDma \cup {l}
      /\ UNCHANGED <<next, kernelEnd, regions, kernels, marks, serial, orphaned, slots, hostArgs,
                     outstanding, launch, queue, running>>
  BY <1>3, <1>4 DEF FinishArgs, HoldsBuffer, allocator, launching
<1>6. \A m \in Launches : Args(l) # Kernel(m) /\ (Args(l) = Args(m) => l = m) /\ Args(l) \in Commands
  BY CommandsDistinct
<1>7. TypeOK'
  <2>1. AllocatorTypes' /\ SlotTypes' /\ LaunchTypes' /\ QueueTypes'
    BY <1>1, <1>5 DEF AllocatorTypes, SlotTypes, LaunchTypes, QueueTypes
  <2>2. CommandTypes'
    BY <1>1, <1>5, <1>6 DEF CommandTypes
  <2>3. DramTypes'
    BY <1>1, <1>5 DEF DramTypes
  <2>4. QED
    BY <2>1, <2>2, <2>3, TypesSplitNext
<1>8. SlotsNamed' /\ NotBegun'
  BY <1>4, <1>5, <1>6 DEF ArgsInv, SlotsNamed, NotBegun, ArgsPending
<1>9. \A d : \A m \in Launches \ {l} : HoldsBuffer(d, m) /\ ArgsPending(m) =>
        HoldsBuffer(d, m)' /\ ArgsPending(m)'
  BY <1>5, <1>6 DEF HoldsBuffer, ArgsPending
<1>10. DmasHeld'
  <2>1. ASSUME NEW p \in Queues, NEW i \in 1 .. Len(queue[p]), NEW m \in Launches,
               queue[p][i].cmd = Args(m)
        PROVE  HoldsBuffer(queue[p][i], m)' /\ ArgsPending(m)' /\ launch'[m].q = p
    <3>1. m # l
      BY <1>2, <2>1 DEF ArgsInv, QueueOrder
    <3>2. PICK d : d = queue[p][i]
      OBVIOUS
    <3>3. HoldsBuffer(d, m) /\ ArgsPending(m) /\ launch[m].q = p
      BY <2>1, <3>2 DEF ArgsInv, DmasHeld
    <3>4. HoldsBuffer(d, m)' /\ ArgsPending(m)'
      BY <1>9, <3>1, <3>3
    <3>5. QED
      BY <1>5, <3>2, <3>3, <3>4
  <2>2. ASSUME NEW d \in copying', NEW m \in Launches, d.cmd = Args(m)
        PROVE  HoldsBuffer(d, m)' /\ ArgsPending(m)'
    <3>1. m # l
      BY <1>2, <1>5, <2>2 DEF ArgsInv, QueueOrder
    <3>2. QED
      BY <1>5, <1>9, <2>2, <3>1 DEF ArgsInv, DmasHeld
  <2>3. QED
    BY <1>5, <2>1, <2>2 DEF DmasHeld
<1>11. KernelsQueued' /\ QueueOrder'
  BY <1>5, <1>6 DEF ArgsInv, KernelsQueued, QueueOrder
<1>12. QED
  BY <1>7, <1>8, <1>10, <1>11 DEF ArgsInv

LEMMA FinishLaunchArgs == ASSUME ArgsInv, NEW l \in Launches, Finish(l) PROVE ArgsInv'
<1>1. /\ l \in running /\ running' = running \ {l} /\ answered' = answered \cup {Kernel(l)}
      /\ UNCHANGED <<next, kernelEnd, regions, kernels, marks, serial, orphaned, slots, hostArgs,
                     outstanding, launch, queue, failedDma, copying, dram>>
  BY DEF Finish, allocator, launching
<1>2. AllocatorTypes /\ SlotTypes /\ CommandTypes /\ LaunchTypes /\ QueueTypes /\ DramTypes
  BY TypesSplit DEF ArgsInv
<1>3. /\ \A m \in Launches : Kernel(l) # Args(m) /\ (Kernel(l) = Kernel(m) => l = m)
      /\ Kernel(l) \in Commands
  BY CommandsDistinct
<1>4. TypeOK'
  <2>1. /\ AllocatorTypes' /\ SlotTypes' /\ CommandTypes' /\ LaunchTypes' /\ QueueTypes'
        /\ DramTypes'
    BY <1>1, <1>2, <1>3 DEF AllocatorTypes, SlotTypes, CommandTypes, LaunchTypes, QueueTypes,
         DramTypes
  <2>2. QED
    BY <2>1, TypesSplitNext
<1>5. SlotsNamed' /\ NotBegun'
  BY <1>1, <1>3 DEF ArgsInv, SlotsNamed, NotBegun
<1>6. \A d : \A m \in Launches : HoldsBuffer(d, m) /\ ArgsPending(m) =>
        HoldsBuffer(d, m)' /\ ArgsPending(m)'
  BY <1>1, <1>3 DEF HoldsBuffer, ArgsPending
<1>7. DmasHeld'
  BY <1>1, <1>6 DEF ArgsInv, DmasHeld
<1>8. KernelsQueued' /\ QueueOrder'
  BY <1>1, <1>3 DEF ArgsInv, KernelsQueued, QueueOrder
<1>9. QED
  BY <1>4, <1>5, <1>7, <1>8 DEF ArgsInv
-----------------------------------------------------------------------------
(***************************************************************************)
(* ArgsInv holds throughout.                                               *)
(***************************************************************************)
LEMMA NextArgsInv == ASSUME ArgsInv, [Next]_vars PROVE ArgsInv'
<1>1. CASE Memory
  <2>1. CASE \E size \in Sizes : Alloc(size)
    BY <2>1, AllocArgs
  <2>2. CASE AllocMark
    BY <2>2, AllocMarkArgs
  <2>3. CASE \E m \in marks : ResetTo(m)
    BY <2>3, ResetToArgs
  <2>4. CASE \E r \in regions : WriteRegion(r)
    BY <2>4, WriteRegionArgs
  <2>5. CASE \E image \in Images : LoadKernel(image) \/ \E cut \in Addresses : LoadFails(image, cut)
    BY <2>5, LoadKernelArgs, LoadFailsArgs
  <2>6. QED
    BY <1>1, <2>1, <2>2, <2>3, <2>4, <2>5 DEF Memory
<1>2. CASE Launching
  <2>1. PICK l \in Launches :
          \/ \E len \in ArgLens : \/ StageArgsFails(l, len)
                                  \/ \E q \in Queues, b \in BOOLEAN : StageArgs(l, len, q, b)
          \/ PushLaunch(l) \/ PushLaunchFails(l)
          \/ WaitLaunch(l) \/ WaitLaunchFails(l) \/ DropPending(l) \/ ReleaseLate(l)
    BY <1>2 DEF Launching
  <2>2. CASE \E len \in ArgLens : \/ StageArgsFails(l, len)
                                  \/ \E q \in Queues, b \in BOOLEAN : StageArgs(l, len, q, b)
    BY <2>2, StageArgsArgs, StageArgsFailsArgs
  <2>3. CASE PushLaunch(l) \/ PushLaunchFails(l)
    BY <2>3, PushLaunchArgs, PushLaunchFailsArgs
  <2>4. CASE WaitLaunch(l) \/ WaitLaunchFails(l) \/ DropPending(l) \/ ReleaseLate(l)
    BY <2>4, WaitLaunchArgs, WaitLaunchFailsArgs, DropPendingArgs, ReleaseLateArgs
  <2>5. QED
    BY <2>1, <2>2, <2>3, <2>4
<1>3. CASE Executing
  <2>1. CASE \E q \in Queues : StartArgs(q) \/ Start(q)
    BY <2>1, StartArgsArgs, StartLaunchArgs
  <2>2. CASE \E dma \in copying, ok \in BOOLEAN : FinishArgs(dma, ok)
    BY <2>2, FinishArgsArgs
  <2>3. CASE \E l \in Launches : Finish(l)
    BY <2>3, FinishLaunchArgs
  <2>4. QED
    BY <1>3, <2>1, <2>2, <2>3 DEF Executing
<1>4. CASE UNCHANGED vars
  <2>1. TypeOK'
    BY <1>4 DEF vars, TypeOK, ArgsInv
  <2>2. QED
    BY <1>4, <2>1, ArgsInvUnchanged DEF vars
<1>5. QED
  BY <1>1, <1>2, <1>3, <1>4 DEF Next

\* What the launches need of the slot table and the queues holds throughout.
THEOREM ArgsInvariant == Spec => []ArgsInv
<1>1. Init => ArgsInv
  BY InitArgsInv
<1>2. ArgsInv /\ [Next]_vars => ArgsInv'
  BY NextArgsInv
<1>3. QED
  BY <1>1, <1>2, PTL DEF Spec

\* Every value of Device stays within its range.
THEOREM TypeCorrect == Spec => []TypeOK
<1>1. ArgsInv => TypeOK
  BY DEF ArgsInv
<1>2. QED
  BY <1>1, ArgsInvariant, PTL

\* The host buffer that an argument DMA reads is neither unmapped nor handed to
\* another launch before the DMA has completed.
THEOREM ArgsBufferKept == Spec => []ArgsBufferHeld
<1>1. ArgsInv => ArgsBufferHeld
  <2> SUFFICES ASSUME ArgsInv,
                      NEW dma \in copying \cup UNION {ToSet(queue[q]) : q \in Queues},
                      NEW l \in Launches, dma.cmd = Args(l)
               PROVE  hostArgs[dma.buf] = l
    BY DEF ArgsBufferHeld
  <2>1. CASE dma \in copying
    BY <2>1 DEF ArgsInv, DmasHeld, HoldsBuffer
  <2>2. CASE dma \in UNION {ToSet(queue[q]) : q \in Queues}
    <3>1. PICK q \in Queues : dma \in ToSet(queue[q])
      BY <2>2
    <3>2. PICK i \in 1 .. Len(queue[q]) : dma = queue[q][i]
      <4> DEFINE Entry == [cmd : Commands, buf : Launches \cup {Nobody}]
      <4>1. queue[q] \in Seq(Entry)
        BY TypesSplit DEF ArgsInv, QueueTypes
      <4> HIDE DEF Entry
      <4>2. DOMAIN queue[q] = 1 .. Len(queue[q])
        BY <4>1
      <4>3. QED
        BY <3>1, <4>2 DEF ToSet
    <3>3. HoldsBuffer(queue[q][i], l)
      BY <3>2 DEF ArgsInv, DmasHeld
    <3>4. QED
      BY <3>2, <3>3 DEF HoldsBuffer
  <2>3. QED
    BY <2>1, <2>2
<1>2. QED
  BY <1>1, ArgsInvariant, PTL
-----------------------------------------------------------------------------
(***************************************************************************)
(* MemoryInv is kept, if images leave no gaps.                             *)
(***************************************************************************)

\* Where the things the allocator has handed out lie are numbers.
LEMMA PlacesTyped ==
  ASSUME TypeOK
  PROVE  /\ next \in Nat /\ kernelEnd \in Nat /\ serial \in Nat /\ DramSize \in Nat
         /\ \A r \in regions \cup slots : r.addr \in Nat /\ r.size \in Nat /\ End(r) \in Nat
         /\ \A s \in slots : s.size > 0
         /\ \A r \in regions : r.id \in Nat /\ r.id <= serial
         /\ \A m \in marks : m.at \in Nat /\ m.serial \in Nat /\ m.serial <= serial
<1>1. AllocatorTypes /\ SlotTypes
  BY TypesSplit
<1>2. Sizes \subseteq Nat /\ ArgLens \subseteq Nat \ {0} /\ DramSize \in Nat /\ MaxSerial \in Nat
  BY DeviceMemoryAssumption
<1>3. next \in Nat /\ kernelEnd \in Nat /\ serial \in Nat
  BY <1>1, <1>2 DEF AllocatorTypes
<1>4. ASSUME NEW r \in regions
      PROVE  r.addr \in Nat /\ r.size \in Nat /\ r.id \in Nat /\ r.id <= serial
  <2>1. r \in [id : 1 .. serial, addr : 0 .. DramSize, size : Sizes]
    BY <1>1 DEF AllocatorTypes
  <2>2. r.id \in 1 .. serial /\ r.addr \in 0 .. DramSize /\ r.size \in Sizes
    BY <2>1
  <2>3. r.size \in Nat
    BY <1>2, <2>2
  <2>4. r.addr \in Nat /\ r.id \in Nat /\ r.id <= serial
    BY <1>2, <1>3, <2>2
  <2>5. QED
    BY <2>3, <2>4
<1>5. ASSUME NEW s \in slots PROVE s.addr \in Nat /\ s.size \in Nat /\ s.size > 0
  <2>1. s \in [addr : Addresses, size : ArgLens, buf : Launches, owner : Commands \cup {Nobody}]
    BY <1>1 DEF SlotTypes
  <2>2. s.addr \in 0 .. DramSize - 1 /\ s.size \in ArgLens
    BY <2>1 DEF Addresses
  <2>3. s.size \in Nat \ {0}
    BY <1>2, <2>2
  <2>4. s.addr \in Nat
    BY <1>2, <2>2
  <2>5. QED
    BY <2>3, <2>4
<1>6. \A m \in marks : m.at \in Nat /\ m.serial \in Nat /\ m.serial <= serial
  BY <1>1, <1>2, <1>3 DEF AllocatorTypes
<1>7. QED
  BY <1>2, <1>3, <1>4, <1>5, <1>6 DEF End

LEMMA InitMemory == Init => MemoryInv
<1> SUFFICES ASSUME Init PROVE MemoryInv
  OBVIOUS
<1>1. kernelEnd = 0 /\ next = 0 /\ regions = {} /\ slots = {} /\ kernels = {} /\ marks = {}
  BY DEF Init
<1>2. AlignUp(0, DmaAlign) = 0
  BY DeviceMemoryAssumption DEF AlignUp
<1>3. QED
  BY <1>1, <1>2 DEF MemoryInv, CursorAbove, AllApart, MarksSeparate

LEMMA MemoryUnchanged ==
  ASSUME MemoryInv, UNCHANGED <<next, kernelEnd, regions, kernels, marks, slots>>
  PROVE  MemoryInv'
BY DEF MemoryInv, CursorAbove, AllApart, MarksSeparate

LEMMA AllocMemory == ASSUME TypeOK, MemoryInv, NEW size \in Sizes, Alloc(size) PROVE MemoryInv'
<1> DEFINE new == [id |-> serial + 1, addr |-> AllocStart, size |-> size]
<1>1. /\ next' = AllocStart + size /\ regions' = regions \cup {new}
      /\ UNCHANGED <<kernelEnd, kernels, marks, slots>>
  BY DEF Alloc, launching
<1>2. /\ new.addr = AllocStart /\ new.size = size /\ new.id = serial + 1
      /\ End(new) = AllocStart + size /\ size \in Nat
  BY DeviceMemoryAssumption DEF End
<1> HIDE DEF new
<1>3. AllocStart \in Nat /\ next <= AllocStart
  BY AllocStartAbove
<1>4. next <= next' /\ next' \in Nat /\ AllocStart <= next'
  BY <1>1, <1>2, <1>3, PlacesTyped
<1>5. CursorAbove'
  <2>1. kernelEnd <= AllocStart /\ kernelEnd <= next'
    BY <1>3, <1>4, PlacesTyped DEF MemoryInv, CursorAbove
  <2>2. ASSUME NEW r \in regions' \cup slots'
        PROVE  End(r) <= next' /\ (r.size > 0 => kernelEnd <= r.addr)
    <3>1. CASE r = new
      BY <1>1, <1>2, <1>4, <2>1, <3>1
    <3>2. CASE r \in regions \cup slots
      BY <1>4, <3>2, PlacesTyped DEF MemoryInv, CursorAbove
    <3>3. QED
      BY <1>1, <2>2, <3>1, <3>2
  <2>3. \A m \in marks : m.at <= next'
    BY <1>4, PlacesTyped DEF MemoryInv, CursorAbove
  <2>4. QED
    BY <1>1, <2>1, <2>2, <2>3 DEF MemoryInv, CursorAbove
<1>6. ASSUME NEW r \in regions \cup slots PROVE Apart(r, new) /\ Apart(new, r)
  <2>1. End(r) <= next /\ End(r) \in Nat
    BY PlacesTyped DEF MemoryInv, CursorAbove
  <2>2. End(r) <= new.addr
    BY <1>2, <1>3, <2>1, PlacesTyped
  <2>3. QED
    BY <2>2 DEF Apart
<1>7. AllApart'
  BY <1>1, <1>6 DEF MemoryInv, AllApart
<1>8. MarksSeparate'
  BY <1>1, <1>2, PlacesTyped DEF MemoryInv, MarksSeparate
<1>9. QED
  BY <1>5, <1>7, <1>8 DEF MemoryInv

LEMMA AllocMarkMemory == ASSUME TypeOK, MemoryInv, AllocMark PROVE MemoryInv'
<1> DEFINE mark == [at |-> next, serial |-> serial]
<1>1. /\ marks' = marks \cup {mark}
      /\ UNCHANGED <<next, kernelEnd, regions, kernels, slots>>
  BY DEF AllocMark, launching
<1>2. mark.at = next /\ mark.serial = serial
  OBVIOUS
<1> HIDE DEF mark
<1>3. CursorAbove'
  BY <1>1, <1>2, PlacesTyped DEF MemoryInv, CursorAbove
<1>4. AllApart'
  BY <1>1 DEF MemoryInv, AllApart
<1>5. MarksSeparate'
  BY <1>1, <1>2 DEF MemoryInv, MarksSeparate, CursorAbove
<1>6. QED
  BY <1>3, <1>4, <1>5 DEF MemoryInv

LEMMA ResetToMemory == ASSUME TypeOK, MemoryInv, NEW m \in marks, ResetTo(m) PROVE MemoryInv'
<1> DEFINE target == ResetTarget(m)
<1>1. /\ next' = (IF target < next THEN target ELSE next)
      /\ regions' = {r \in regions : r.id <= m.serial}
      /\ marks' = {k \in marks : k.at <= next'}
      /\ slots' = {s \in slots : s.addr < target}
      /\ UNCHANGED <<kernelEnd, kernels>>
  BY DEF ResetTo, Kept
<1>2. target \in Nat /\ m.at <= target /\ kernelEnd <= target /\ (target = m.at \/ target = kernelEnd)
  BY PlacesTyped DEF ResetTarget, Larger
<1> HIDE DEF target
<1>3. next' \in Nat /\ next' <= next /\ kernelEnd <= next'
  BY <1>1, <1>2, PlacesTyped DEF MemoryInv, CursorAbove
<1>4. \A r \in regions' : r \in regions /\ End(r) <= next'
  BY <1>1, <1>2, PlacesTyped DEF MemoryInv, CursorAbove, MarksSeparate
<1>5. ASSUME NEW s \in slots' PROVE s \in slots /\ End(s) <= next'
  <2>1. s \in slots /\ s.addr < target
    BY <1>1, <1>5
  <2>2. kernelEnd <= s.addr /\ End(s) <= next
    BY <2>1, PlacesTyped DEF MemoryInv, CursorAbove
  <2>3. s.addr < m.at
    BY <1>2, <2>1, <2>2, PlacesTyped
  <2>4. End(s) <= m.at
    BY <2>1, <2>3 DEF MemoryInv, MarksSeparate
  <2>5. QED
    BY <1>1, <1>2, <2>1, <2>2, <2>4, PlacesTyped
<1>6. CursorAbove'
  BY <1>1, <1>3, <1>4, <1>5 DEF MemoryInv, CursorAbove
<1>7. AllApart' /\ MarksSeparate'
  BY <1>1, <1>4, <1>5 DEF MemoryInv, AllApart, MarksSeparate
<1>8. QED
  BY <1>6, <1>7 DEF MemoryInv

\* An aligned value stays where it is.
LEMMA AlignUpAgain ==
  ASSUME NEW value \in Nat, NEW align \in Nat \ {0}
  PROVE  AlignUp(AlignUp(value, align), align) = AlignUp(value, align)
<1> DEFINE q == (value + align - 1) \div align
<1>1. q \in Nat
  OBVIOUS
<1>2. AlignUp(value, align) = q * align
  BY DEF AlignUp
<1> HIDE DEF q
<1>3. (q * align + align - 1) \div align = q
  <2> DEFINE p == q * align
  <2>1. p \in Nat
    BY <1>1
  <2>2. (p + align - 1) \div align \in Nat
    BY <2>1
  <2>3. QED
    BY <1>1, <2>1, <2>2
<1>4. QED
  BY <1>2, <1>3 DEF AlignUp

\* Where a load leaves the end of the kernels.
LEMMA AlignedEndAbove ==
  ASSUME TypeOK, NEW end \in Nat, end <= DramSize
  PROVE  /\ AlignedEnd(end) \in Nat /\ end <= AlignedEnd(end)
         /\ AlignedEnd(end) = DramSize \/ AlignUp(AlignedEnd(end), DmaAlign) = AlignedEnd(end)
<1>1. DmaAlign \in Nat \ {0} /\ DramSize \in Nat
  BY DeviceMemoryAssumption
<1>2. AlignUp(end, DmaAlign) \in Nat /\ end <= AlignUp(end, DmaAlign)
  BY <1>1, AlignUpAbove
<1>3. AlignUp(AlignUp(end, DmaAlign), DmaAlign) = AlignUp(end, DmaAlign)
  BY <1>1, AlignUpAgain
<1>4. QED
  BY <1>1, <1>2, <1>3 DEF AlignedEnd

\* An image that reaches beyond the end of the kernels loads only when nothing
\* is allocated.
LEMMA LoadedAbove ==
  ASSUME TypeOK, MemoryInv, NEW image \in Images, Loadable(image),
         NEW end \in Nat, ImageUnits(image) = 0 .. end - 1, kernelEnd < end
  PROVE  \A r \in regions \cup slots : r.size = 0
<1>1. \A seg \in ToSet(image) : seg[1] \in Nat /\ seg[2] \in Nat
  BY DeviceMemoryAssumption
<1>2. kernelEnd \in Nat /\ next \in Nat
  BY PlacesTyped
<1>3. PICK seg \in ToSet(image) : kernelEnd \in seg[1] .. seg[2] - 1
  <2>1. kernelEnd \in ImageUnits(image)
    BY <1>2
  <2>2. QED
    BY <2>1 DEF ImageUnits
<1>4. seg[1] <= kernelEnd /\ kernelEnd < seg[2]
  BY <1>1, <1>2, <1>3
<1>5. next <= kernelEnd
  BY <1>1, <1>2, <1>4 DEF Loadable
<1>6. QED
  BY <1>2, <1>5, PlacesTyped DEF MemoryInv, CursorAbove, End

\* An image ends at or below the end of the kernels, or else nothing is allocated.
LEMMA LoadedImage ==
  ASSUME ImagesContiguous, TypeOK, MemoryInv, NEW image \in Images, Loadable(image),
         NEW newEnd \in KernelEndAfter(image)
  PROVE  /\ newEnd \in Nat /\ kernelEnd <= newEnd
         /\ newEnd = DramSize \/ AlignUp(newEnd, DmaAlign) = newEnd
         /\ ImageUnits(image) \subseteq 0 .. newEnd - 1
         /\ newEnd = kernelEnd \/ \A r \in regions \cup slots : r.size = 0
<1>1. PICK end \in Nat : /\ ImageUnits(image) = 0 .. end - 1
                         /\ \A seg \in ToSet(image) : seg[2] <= end
  BY DEF ImagesContiguous
<1>2. \A seg \in ToSet(image) : seg[1] \in Nat /\ seg[2] \in Nat
  BY DeviceMemoryAssumption
<1> DEFINE ends == {kernelEnd} \cup {seg[2] : seg \in ToSet(image)}
<1>3. PICK occupied \in ends : newEnd = AlignedEnd(occupied) /\ \A f \in ends : f <= occupied
  BY DEF KernelEndAfter
<1>4. kernelEnd \in Nat /\ kernelEnd <= DramSize /\ DramSize \in Nat /\ next \in Nat
  BY DeviceMemoryAssumption, PlacesTyped DEF TypeOK
<1>5. occupied \in Nat /\ occupied <= DramSize /\ kernelEnd <= occupied
  BY <1>2, <1>3, <1>4 DEF Loadable
<1>6. /\ newEnd \in Nat /\ occupied <= newEnd
      /\ newEnd = DramSize \/ AlignUp(newEnd, DmaAlign) = newEnd
  BY <1>3, <1>5, AlignedEndAbove
<1>7. ASSUME NEW a \in ImageUnits(image) PROVE a \in 0 .. newEnd - 1
  <2>1. PICK seg \in ToSet(image) : a \in seg[1] .. seg[2] - 1
    BY DEF ImageUnits
  <2>2. seg[2] <= occupied
    BY <1>3
  <2>3. QED
    BY <1>2, <1>5, <1>6, <2>1, <2>2
<1>8. CASE end <= kernelEnd
  <2>1. \A f \in ends : f <= kernelEnd
    BY <1>1, <1>2, <1>4, <1>8
  <2>2. occupied = kernelEnd
    BY <1>3, <1>4, <1>5, <2>1
  <2>3. AlignedEnd(kernelEnd) = kernelEnd
    <3>1. kernelEnd <= AlignUp(kernelEnd, DmaAlign) /\ AlignUp(kernelEnd, DmaAlign) \in Nat
      BY <1>4, AlignUpAbove, DeviceMemoryAssumption
    <3>2. kernelEnd = DramSize \/ AlignUp(kernelEnd, DmaAlign) = kernelEnd
      BY DEF MemoryInv, CursorAbove
    <3>3. QED
      BY <1>4, <3>1, <3>2 DEF AlignedEnd
  <2>4. QED
    BY <1>3, <1>5, <1>6, <1>7, <2>2, <2>3
<1>9. CASE kernelEnd < end
  BY <1>1, <1>4, <1>5, <1>6, <1>7, <1>9, LoadedAbove
<1>10. QED
  BY <1>1, <1>4, <1>8, <1>9

LEMMA LoadKernelMemory ==
  ASSUME ImagesContiguous, TypeOK, MemoryInv, NEW image \in Images, LoadKernel(image)
  PROVE  MemoryInv'
<1> DEFINE new == [id |-> serial + 1, image |-> image]
<1>1. /\ Loadable(image) /\ kernelEnd' \in KernelEndAfter(image)
      /\ kernels' = LoadedBefore(ImageUnits(image)) \cup {new}
      /\ next' = Larger(next, kernelEnd')
      /\ UNCHANGED <<regions, marks, slots>>
  BY DEF LoadKernel, launching
<1>2. new.image = image
  OBVIOUS
<1> HIDE DEF new
<1>3. /\ kernelEnd' \in Nat /\ kernelEnd <= kernelEnd'
      /\ kernelEnd' = DramSize \/ AlignUp(kernelEnd', DmaAlign) = kernelEnd'
      /\ ImageUnits(image) \subseteq 0 .. kernelEnd' - 1
      /\ kernelEnd' = kernelEnd \/ \A r \in regions \cup slots : r.size = 0
  BY <1>1, LoadedImage
<1>4. next' \in Nat /\ next <= next' /\ kernelEnd' <= next' /\ kernelEnd \in Nat /\ next \in Nat
  BY <1>1, <1>3, PlacesTyped DEF Larger
<1>5. CursorAbove'
  <2>1. ASSUME NEW k \in kernels' PROVE ImageUnits(k.image) \subseteq 0 .. kernelEnd' - 1
    <3>1. CASE k = new
      BY <1>2, <1>3, <3>1
    <3>2. CASE k \in kernels
      <4>1. ImageUnits(k.image) \subseteq 0 .. kernelEnd - 1
        BY <3>2 DEF MemoryInv, CursorAbove
      <4>2. QED
        BY <1>3, <1>4, <4>1
    <3>3. QED
      BY <1>1, <2>1, <3>1, <3>2 DEF LoadedBefore
  <2>2. ASSUME NEW r \in regions \cup slots
        PROVE  End(r) <= next' /\ (r.size > 0 => kernelEnd' <= r.addr)
    <3>1. End(r) <= next /\ (r.size > 0 => kernelEnd <= r.addr)
      BY DEF MemoryInv, CursorAbove
    <3>2. QED
      BY <1>3, <1>4, <3>1, PlacesTyped
  <2>3. \A m \in marks : m.at <= next'
    BY <1>4, PlacesTyped DEF MemoryInv, CursorAbove
  <2>4. QED
    BY <1>1, <1>3, <1>4, <2>1, <2>2, <2>3 DEF CursorAbove
<1>6. \A j, k \in kernels' : j # k => ImageUnits(j.image) \cap ImageUnits(k.image) = {}
  BY <1>1, <1>2 DEF LoadedBefore, MemoryInv, AllApart
<1>7. AllApart' /\ MarksSeparate'
  BY <1>1, <1>6 DEF MemoryInv, AllApart, MarksSeparate
<1>8. QED
  BY <1>5, <1>7 DEF MemoryInv

LEMMA LoadFailsMemory ==
  ASSUME MemoryInv, NEW image \in Images, NEW cut \in Addresses, LoadFails(image, cut)
  PROVE  MemoryInv'
<1>1. /\ kernels' \subseteq kernels
      /\ UNCHANGED <<next, kernelEnd, regions, marks, slots>>
  BY DEF LoadFails, LoadedBefore, launching
<1>2. QED
  BY <1>1 DEF MemoryInv, CursorAbove, AllApart, MarksSeparate

\* A slot is used again where it is, or lies behind everything there is.
LEMMA TakeSlotMemory ==
  ASSUME TypeOK, MemoryInv, NEW l \in Launches, NEW len \in ArgLens, NEW slot \in ArgsSlot(l, len),
         NEW owner, TakeSlot(l, slot, owner), UNCHANGED <<kernelEnd, regions, kernels, marks>>
  PROVE  MemoryInv'
<1> DEFINE new == [slot EXCEPT !.owner = owner]
<1>1. /\ slot \in [addr : Addresses, size : ArgLens, buf : Launches, owner : Commands \cup {Nobody}]
      /\ \/ slot \in slots
         \/ slot.addr = AllocStart
  BY ArgsSlotGiven
<1>2. /\ next' = IF slot \in slots THEN next ELSE slot.addr + slot.size
      /\ slots' = (slots \ {slot}) \cup {new}
  BY DEF TakeSlot
<1>3. new.addr = slot.addr /\ new.size = slot.size /\ End(new) = End(slot)
  BY <1>1 DEF End
<1> HIDE DEF new
<1>4. CASE slot \in slots
  <2>1. next' = next
    BY <1>2, <1>4
  <2>2. \A s \in slots' : s = new \/ (s \in slots /\ s # slot)
    BY <1>2
  <2>3. CursorAbove'
    BY <1>3, <1>4, <2>1, <2>2 DEF MemoryInv, CursorAbove
  <2>4. AllApart'
    <3>1. \A s \in slots \ {slot} : Apart(s, new) /\ Apart(new, s)
      BY <1>3, <1>4 DEF MemoryInv, AllApart, Apart
    <3>2. \A r \in regions : Apart(r, new)
      BY <1>3, <1>4 DEF MemoryInv, AllApart, Apart
    <3>3. QED
      BY <2>2, <3>1, <3>2 DEF MemoryInv, AllApart
  <2>5. MarksSeparate'
    BY <1>3, <1>4, <2>2 DEF MemoryInv, MarksSeparate
  <2>6. QED
    BY <2>3, <2>4, <2>5 DEF MemoryInv
<1>5. CASE slot \notin slots
  <2>1. slot.size \in Nat
    <3>1. slot.size \in ArgLens
      BY <1>1
    <3>2. QED
      BY <3>1, DeviceMemoryAssumption
  <2>2. /\ AllocStart \in Nat /\ next <= AllocStart /\ new.addr = AllocStart
        /\ next' \in Nat /\ End(new) = next' /\ next <= next' /\ AllocStart <= next'
    BY <1>1, <1>2, <1>3, <1>5, <2>1, AllocStartAbove DEF End
  <2>3. slots' = slots \cup {new}
    BY <1>2, <1>5
  <2>4. CursorAbove'
    <3>1. kernelEnd <= AllocStart /\ kernelEnd <= next'
      BY <2>2, PlacesTyped DEF MemoryInv, CursorAbove
    <3>2. ASSUME NEW r \in regions \cup slots'
          PROVE  End(r) <= next' /\ (r.size > 0 => kernelEnd <= r.addr)
      <4>1. CASE r = new
        BY <2>2, <3>1, <4>1
      <4>2. CASE r \in regions \cup slots
        BY <2>2, <4>2, PlacesTyped DEF MemoryInv, CursorAbove
      <4>3. QED
        BY <2>3, <3>2, <4>1, <4>2
    <3>3. \A m \in marks : m.at <= next'
      BY <2>2, PlacesTyped DEF MemoryInv, CursorAbove
    <3>4. QED
      BY <3>1, <3>2, <3>3 DEF MemoryInv, CursorAbove
  <2>5. ASSUME NEW r \in regions \cup slots PROVE Apart(r, new) /\ Apart(new, r)
    <3>1. End(r) <= next /\ End(r) \in Nat
      BY PlacesTyped DEF MemoryInv, CursorAbove
    <3>2. End(r) <= new.addr
      BY <2>2, <3>1, PlacesTyped
    <3>3. QED
      BY <3>2 DEF Apart
  <2>6. AllApart'
    BY <2>3, <2>5 DEF MemoryInv, AllApart
  <2>7. MarksSeparate'
    <3>1. ASSUME NEW m \in marks PROVE ~(new.addr < m.at)
      BY <2>2, PlacesTyped DEF MemoryInv, CursorAbove
    <3>2. QED
      BY <2>3, <3>1 DEF MemoryInv, MarksSeparate
  <2>8. QED
    BY <2>4, <2>6, <2>7 DEF MemoryInv
<1>6. QED
  BY <1>4, <1>5

LEMMA PushLaunchMemory ==
  ASSUME TypeOK, MemoryInv, NEW l \in Launches, PushLaunch(l)
  PROVE  MemoryInv'
<1> DEFINE Moved(s) == IF s.owner = Args(l) THEN [s EXCEPT !.owner = Kernel(l)] ELSE s
<1>1. /\ slots' = {Moved(s) : s \in slots}
      /\ UNCHANGED <<next, kernelEnd, regions, kernels, marks>>
  BY DEF PushLaunch, allocator
<1>2. ASSUME NEW s \in slots
      PROVE  Moved(s).addr = s.addr /\ Moved(s).size = s.size /\ End(Moved(s)) = End(s)
  <2>1. s \in [addr : Addresses, size : ArgLens, buf : Launches, owner : Commands \cup {Nobody}]
    BY TypesSplit DEF SlotTypes
  <2>2. QED
    BY <2>1 DEF End
<1> HIDE DEF Moved
<1>3. CursorAbove'
  BY <1>1, <1>2 DEF MemoryInv, CursorAbove
<1>4. AllApart'
  <2>1. \A s, t \in slots' : s # t => Apart(s, t)
    BY <1>1, <1>2 DEF MemoryInv, AllApart, Apart
  <2>2. \A r \in regions, s \in slots' : Apart(r, s)
    BY <1>1, <1>2 DEF MemoryInv, AllApart, Apart
  <2>3. QED
    BY <1>1, <2>1, <2>2 DEF MemoryInv, AllApart
<1>5. MarksSeparate'
  BY <1>1, <1>2 DEF MemoryInv, MarksSeparate
<1>6. QED
  BY <1>3, <1>4, <1>5 DEF MemoryInv

LEMMA NextMemoryInv ==
  ASSUME ImagesContiguous, TypeOK, MemoryInv, [Next]_vars
  PROVE  MemoryInv'
<1>1. CASE Memory
  <2>1. CASE (\E size \in Sizes : Alloc(size)) \/ AllocMark
    BY <2>1, AllocMemory, AllocMarkMemory
  <2>2. CASE \E m \in marks : ResetTo(m)
    BY <2>2, ResetToMemory
  <2>3. CASE \E r \in regions : WriteRegion(r)
    BY <2>3, MemoryUnchanged DEF WriteRegion, allocator, launching
  <2>4. CASE \E image \in Images : LoadKernel(image) \/ \E cut \in Addresses : LoadFails(image, cut)
    BY <2>4, LoadKernelMemory, LoadFailsMemory
  <2>5. QED
    BY <1>1, <2>1, <2>2, <2>3, <2>4 DEF Memory
<1>2. CASE Launching
  <2>1. PICK l \in Launches :
          \/ \E len \in ArgLens : \/ StageArgsFails(l, len)
                                  \/ \E q \in Queues, b \in BOOLEAN : StageArgs(l, len, q, b)
          \/ PushLaunch(l) \/ PushLaunchFails(l)
          \/ WaitLaunch(l) \/ WaitLaunchFails(l) \/ DropPending(l) \/ ReleaseLate(l)
    BY <1>2 DEF Launching
  <2>2. ASSUME NEW len \in ArgLens, StageArgsFails(l, len) PROVE MemoryInv'
    <3>1. PICK slot \in ArgsSlot(l, len) : TakeSlot(l, slot, slot.owner)
      BY <2>2 DEF StageArgsFails
    <3>2. QED
      BY <2>2, <3>1, TakeSlotMemory DEF StageArgsFails
  <2>3. ASSUME NEW len \in ArgLens, NEW q \in Queues, NEW b \in BOOLEAN, StageArgs(l, len, q, b)
        PROVE  MemoryInv'
    <3>1. PICK slot \in ArgsSlot(l, len) : TakeSlot(l, slot, Args(l))
      BY <2>3 DEF StageArgs
    <3>2. QED
      BY <2>3, <3>1, TakeSlotMemory DEF StageArgs
  <2>4. CASE PushLaunch(l)
    BY <2>4, PushLaunchMemory
  <2>5. CASE PushLaunchFails(l) \/ WaitLaunch(l) \/ WaitLaunchFails(l) \/ DropPending(l)
             \/ ReleaseLate(l)
    BY <2>5, MemoryUnchanged DEF PushLaunchFails, WaitLaunch, WaitLaunchFails, DropPending,
         ReleaseLate, allocator
  <2>6. QED
    BY <2>1, <2>2, <2>3, <2>4, <2>5
<1>3. CASE Executing
  <2>1. UNCHANGED <<next, kernelEnd, regions, kernels, marks, slots>>
    BY <1>3 DEF Executing, StartArgs, Start, FinishArgs, Finish, allocator, launching
  <2>2. QED
    BY <2>1, MemoryUnchanged
<1>4. CASE UNCHANGED vars
  BY <1>4, MemoryUnchanged DEF vars
<1>5. QED
  BY <1>1, <1>2, <1>3, <1>4 DEF Next

\* What the allocator has handed out lies inside DRAM, in parts that share
\* nothing.
LEMMA PartsDisjoint == ASSUME TypeOK, MemoryInv PROVE MemoryPartitioned
<1> DEFINE Held == {Units(r) : r \in regions} \cup {ImageUnits(k.image) : k \in kernels}
<1>1. ASSUME NEW r \in regions \cup slots, NEW s \in regions \cup slots, Apart(r, s)
      PROVE  Units(r) \cap Units(s) = {}
  <2>1. /\ r.addr \in Nat /\ r.size \in Nat /\ s.addr \in Nat /\ s.size \in Nat
    BY PlacesTyped
  <2>2. QED
    BY <1>1, <2>1 DEF Apart, Units, End
<1>2. ASSUME NEW r \in regions \cup slots, NEW a \in Units(r)
      PROVE  a \in Nat /\ kernelEnd <= a /\ a < next
  <2>1. r.addr \in Nat /\ r.size \in Nat /\ kernelEnd \in Nat /\ next \in Nat
    BY PlacesTyped
  <2>2. a \in r.addr .. r.addr + r.size - 1
    BY DEF Units
  <2>3. r.addr + r.size <= next /\ (r.size > 0 => kernelEnd <= r.addr)
    BY DEF MemoryInv, CursorAbove, End
  <2>4. QED
    BY <2>1, <2>2, <2>3
<1>3. ASSUME NEW k \in kernels, NEW a \in ImageUnits(k.image)
      PROVE  a \in Nat /\ a < kernelEnd /\ a < next
  <2>1. a \in 0 .. kernelEnd - 1 /\ kernelEnd <= next
    BY DEF MemoryInv, CursorAbove
  <2>2. QED
    BY <2>1, PlacesTyped
<1>4. ASSUME NEW r \in regions \cup slots, NEW k \in kernels
      PROVE  Units(r) \cap ImageUnits(k.image) = {}
  <2>1. ASSUME NEW a, a \in Units(r), a \in ImageUnits(k.image) PROVE FALSE
    BY <1>2, <1>3, <2>1, PlacesTyped
  <2>2. QED
    BY <2>1
<1>5. \A u, v \in Held : u # v => u \cap v = {}
  <2>1. ASSUME NEW r \in regions, NEW s \in regions, Units(r) # Units(s)
        PROVE  Units(r) \cap Units(s) = {}
    BY <1>1, <2>1 DEF MemoryInv, AllApart
  <2>2. ASSUME NEW j \in kernels, NEW k \in kernels, ImageUnits(j.image) # ImageUnits(k.image)
        PROVE  ImageUnits(j.image) \cap ImageUnits(k.image) = {}
    BY <2>2 DEF MemoryInv, AllApart
  <2>3. QED
    BY <1>4, <2>1, <2>2
<1>6. \A s \in slots : \A u \in Held : Units(s) \cap u = {}
  <2>1. \A s \in slots, r \in regions : Units(r) \cap Units(s) = {}
    BY <1>1 DEF MemoryInv, AllApart
  <2>2. QED
    BY <1>4, <2>1
<1>7. \A s, t \in slots : s # t => Units(s) \cap Units(t) = {}
  BY <1>1 DEF MemoryInv, AllApart
<1>8. \A u \in Held \cup {Units(s) : s \in slots} : \A a \in u : a \in Addresses /\ a < next
  <2>1. \A a \in Nat : a < next => a \in Addresses
    BY DeviceMemoryAssumption DEF TypeOK, Addresses
  <2>2. QED
    BY <1>2, <1>3, <2>1
<1>9. QED
  BY <1>5, <1>6, <1>7, <1>8 DEF MemoryPartitioned

\* The allocator never hands out the same memory twice, whatever is loaded,
\* launched and reset in between, as long as images leave no gaps.
THEOREM MemoryStaysPartitioned ==
  ASSUME ImagesContiguous
  PROVE  Spec => []MemoryPartitioned
<1>1. Init => MemoryInv
  BY InitMemory
<1>2. TypeOK /\ MemoryInv /\ [Next]_vars => MemoryInv'
  BY NextMemoryInv
<1>3. TypeOK /\ MemoryInv => MemoryPartitioned
  BY PartsDisjoint
<1>4. QED
  BY <1>1, <1>2, <1>3, TypeCorrect, PTL DEF Spec
-----------------------------------------------------------------------------
(***************************************************************************)
(* Cache lines.                                                            *)
(***************************************************************************)

\* The coarser of the two alignments is a multiple of a line: both are powers of 2.
LinesAligned == \E k \in Nat : Larger(DmaAlign, CacheLine) = k * CacheLine

OnLine(r) == \E j \in Nat : r.addr = j * CacheLine
PlacesAligned == \A r \in regions \cup slots : OnLine(r)

LEMMA AllocStartOnLine ==
  ASSUME LinesAligned, TypeOK
  PROVE  \E j \in Nat : AllocStart = j * CacheLine
<1>1. PICK k \in Nat : Larger(DmaAlign, CacheLine) = k * CacheLine
  BY DEF LinesAligned
<1> DEFINE A == Larger(DmaAlign, CacheLine)
           q == (next + A - 1) \div A
<1>2. A \in Nat \ {0} /\ next \in Nat /\ CacheLine \in Nat
  BY DeviceMemoryAssumption, PlacesTyped DEF Larger
<1>3. q \in Nat
  <2> HIDE DEF A
  <2>1. QED
    BY <1>2
<1>4. AllocStart = q * A
  BY DEF AllocStart, AlignUp
<1>5. A = k * CacheLine
  BY <1>1
<1> HIDE DEF A, q
<1>6. q * (k * CacheLine) = (q * k) * CacheLine /\ q * k \in Nat
  BY <1>1, <1>2, <1>3
<1>7. QED
  BY <1>4, <1>5, <1>6

LEMMA NextPlacesAligned ==
  ASSUME LinesAligned, TypeOK, PlacesAligned, [Next]_vars
  PROVE  PlacesAligned'
<1>1. CASE Memory
  <2>1. ASSUME NEW size \in Sizes, Alloc(size) PROVE PlacesAligned'
    <3>1. OnLine([id |-> serial + 1, addr |-> AllocStart, size |-> size])
      BY AllocStartOnLine DEF OnLine
    <3>2. QED
      BY <2>1, <3>1 DEF Alloc, PlacesAligned, OnLine, launching
  <2>2. CASE AllocMark \/ (\E r \in regions : WriteRegion(r)) \/
             \E image \in Images : LoadKernel(image) \/ \E cut \in Addresses : LoadFails(image, cut)
    BY <2>2 DEF AllocMark, WriteRegion, LoadKernel, LoadFails, allocator, launching, PlacesAligned,
         OnLine
  <2>3. CASE \E m \in marks : ResetTo(m)
    BY <2>3 DEF ResetTo, Kept, PlacesAligned, OnLine
  <2>4. QED
    BY <1>1, <2>1, <2>2, <2>3 DEF Memory
<1>2. ASSUME NEW l \in Launches, NEW len \in ArgLens, NEW slot \in ArgsSlot(l, len), NEW owner,
             TakeSlot(l, slot, owner), UNCHANGED regions
      PROVE  PlacesAligned'
  <2>1. /\ slot \in [addr : Addresses, size : ArgLens, buf : Launches, owner : Commands \cup {Nobody}]
        /\ slot \in slots \/ slot.addr = AllocStart
    BY ArgsSlotGiven
  <2>2. \E j \in Nat : slot.addr = j * CacheLine
    BY <2>1, AllocStartOnLine DEF PlacesAligned, OnLine
  <2>3. PICK new : new = [slot EXCEPT !.owner = owner]
    OBVIOUS
  <2>4. new.addr = slot.addr
    BY <2>1, <2>3
  <2>5. slots' = (slots \ {slot}) \cup {new}
    BY <1>2, <2>3 DEF TakeSlot
  <2>6. QED
    BY <1>2, <2>2, <2>4, <2>5 DEF PlacesAligned, OnLine
<1>3. CASE Launching
  <2>1. PICK l \in Launches :
          \/ \E len \in ArgLens : \/ StageArgsFails(l, len)
                                  \/ \E q \in Queues, b \in BOOLEAN : StageArgs(l, len, q, b)
          \/ PushLaunch(l) \/ PushLaunchFails(l)
          \/ WaitLaunch(l) \/ WaitLaunchFails(l) \/ DropPending(l) \/ ReleaseLate(l)
    BY <1>3 DEF Launching
  <2>2. CASE \E len \in ArgLens : \/ StageArgsFails(l, len)
                                  \/ \E q \in Queues, b \in BOOLEAN : StageArgs(l, len, q, b)
    BY <1>2, <2>2 DEF StageArgs, StageArgsFails
  <2>3. CASE PushLaunch(l)
    <3>1. \A s \in slots : [s EXCEPT !.owner = Kernel(l)].addr = s.addr
      <4> SUFFICES ASSUME NEW s \in slots PROVE [s EXCEPT !.owner = Kernel(l)].addr = s.addr
        OBVIOUS
      <4>1. s \in [addr : Addresses, size : ArgLens, buf : Launches, owner : Commands \cup {Nobody}]
        BY TypesSplit DEF SlotTypes
      <4>2. QED
        BY <4>1
    <3>2. /\ regions' = regions
          /\ slots' = {IF s.owner = Args(l) THEN [s EXCEPT !.owner = Kernel(l)] ELSE s :
                        s \in slots}
      BY <2>3 DEF PushLaunch, allocator
    <3>3. ASSUME NEW p \in slots' PROVE \E s \in slots : p.addr = s.addr
      BY <3>1, <3>2
    <3>4. ASSUME NEW p \in slots' PROVE OnLine(p)
      BY <3>3 DEF PlacesAligned, OnLine
    <3>5. ASSUME NEW p \in regions' PROVE OnLine(p)
      BY <3>2 DEF PlacesAligned
    <3> HIDE DEF OnLine
    <3>6. \A p \in regions' \cup slots' : OnLine(p)
      BY <3>4, <3>5
    <3>7. QED
      BY <3>6 DEF PlacesAligned, OnLine
  <2>4. CASE PushLaunchFails(l) \/ WaitLaunch(l) \/ WaitLaunchFails(l) \/ DropPending(l)
             \/ ReleaseLate(l)
    BY <2>4 DEF PushLaunchFails, WaitLaunch, WaitLaunchFails, DropPending, ReleaseLate, allocator,
         PlacesAligned, OnLine
  <2>5. QED
    BY <2>1, <2>2, <2>3, <2>4
<1>4. CASE Executing
  BY <1>4 DEF Executing, StartArgs, Start, FinishArgs, Finish, allocator, launching, PlacesAligned,
       OnLine
<1>5. CASE UNCHANGED vars
  BY <1>5 DEF vars, PlacesAligned, OnLine
<1>6. QED
  BY <1>1, <1>3, <1>4, <1>5 DEF Next

\* Of two places that do not overlap, the second begins on a line of its own.
LEMMA LinesApart ==
  ASSUME NEW j \in Nat, NEW a \in Nat, NEW b \in Nat, a < j * CacheLine, j * CacheLine <= b
  PROVE  a \div CacheLine # b \div CacheLine
<1>1. CacheLine \in Nat \ {0}
  BY DeviceMemoryAssumption
<1> DEFINE m == a \div CacheLine
           n == b \div CacheLine
<1>2. m \in Nat /\ n \in Nat /\ m * CacheLine <= a /\ b < n * CacheLine + CacheLine
  BY <1>1
<1> HIDE DEF m, n
<1>3. m * CacheLine < j * CacheLine /\ j * CacheLine < (n + 1) * CacheLine
  BY <1>1, <1>2
<1>4. m < j /\ j < n + 1
  BY <1>1, <1>2, <1>3
<1>5. m # n
  BY <1>2, <1>4
<1>6. QED
  BY <1>5 DEF m, n

\* No two allocations, nor an allocation and an argument slot, share a cache line:
\* evicting one writes back nothing of the other.
THEOREM LinesKeptApart ==
  ASSUME ImagesContiguous, LinesAligned
  PROVE  Spec => []NoSharedLine
<1>1. Init => MemoryInv /\ PlacesAligned
  BY InitMemory DEF Init, PlacesAligned
<1>2. TypeOK /\ MemoryInv /\ PlacesAligned /\ [Next]_vars => MemoryInv' /\ PlacesAligned'
  BY NextMemoryInv, NextPlacesAligned
<1>3. TypeOK /\ MemoryInv /\ PlacesAligned => NoSharedLine
  <2> SUFFICES ASSUME TypeOK, MemoryInv, PlacesAligned,
                      NEW r \in regions \cup slots, NEW s \in regions \cup slots,
                      NEW a \in Units(r), NEW b \in Units(s), a \div CacheLine = b \div CacheLine,
                      r.addr # s.addr
               PROVE  FALSE
    BY DEF NoSharedLine
  <2>1. /\ r.addr \in Nat /\ r.size \in Nat /\ s.addr \in Nat /\ s.size \in Nat
    BY PlacesTyped
  <2>2. /\ a \in Nat /\ r.addr <= a /\ a < End(r) /\ b \in Nat /\ s.addr <= b /\ b < End(s)
        /\ End(r) \in Nat /\ End(s) \in Nat
    BY <2>1 DEF Units, End
  <2>3. Apart(r, s)
    <3>1. r # s
      OBVIOUS
    <3>2. Apart(s, r) => Apart(r, s)
      BY DEF Apart
    <3>3. QED
      BY <3>1, <3>2 DEF MemoryInv, AllApart
  <2>4. CASE End(r) <= s.addr
    <3>1. PICK j \in Nat : s.addr = j * CacheLine
      BY DEF PlacesAligned, OnLine
    <3>2. a < j * CacheLine /\ j * CacheLine <= b
      BY <2>1, <2>2, <2>4, <3>1
    <3>3. QED
      BY <2>2, <3>2, LinesApart
  <2>5. CASE End(s) <= r.addr
    <3>1. PICK j \in Nat : r.addr = j * CacheLine
      BY DEF PlacesAligned, OnLine
    <3>2. b < j * CacheLine /\ j * CacheLine <= a
      BY <2>1, <2>2, <2>5, <3>1
    <3>3. QED
      BY <2>2, <3>2, LinesApart
  <2>6. QED
    BY <2>3, <2>4, <2>5 DEF Apart
<1>4. QED
  BY <1>1, <1>2, <1>3, TypeCorrect, PTL DEF Spec

-----------------------------------------------------------------------------
(***************************************************************************)
(* A kernel runs with the arguments of its own launch, and nobody writes   *)
(* to memory somebody else holds: what follows rests on both invariants.   *)
(***************************************************************************)

Queued(c) == \E q \in Queues : \E i \in 1 .. Len(queue[q]) : queue[q][i].cmd = c
ArgsUnderway(l) == Queued(Args(l)) \/ \E dma \in copying : dma.cmd = Args(l)
KernelUnderway(l) == Queued(Kernel(l)) \/ l \in running

SlotOf(l, owners) ==
  \E s \in slots :
    /\ s.owner \in owners /\ s.owner \in outstanding
    /\ s.addr = launch[l].addr /\ launch[l].size <= s.size

\* As long as arguments may be written or read, a slot is taken for them.
SlotsTaken ==
  ~orphaned => \A l \in Launches :
    /\ launch[l].stage = "staged" => SlotOf(l, {Args(l)})
    /\ KernelUnderway(l) => SlotOf(l, {Kernel(l)})
    /\ ArgsUnderway(l) => SlotOf(l, {Args(l), Kernel(l)})

\* No kernel runs before its argument DMA has completed, and none whose DMA
\* failed is reported as launched.
ArgsFirst ==
  \A l \in Launches :
    /\ launch[l].stage = "staged" \/ Queued(Kernel(l)) => ArgsUnderway(l) \/ Args(l) \in answered
    /\ l \in running => Args(l) \in answered
    /\ launch[l].stage = "done" => Args(l) \in answered /\ l \notin failedDma

\* Arguments that have arrived stay until their kernel has ended.
ArgsHere(l) ==
  /\ ~orphaned
  /\ launch[l].stage = "staged" \/ KernelUnderway(l)
  /\ Args(l) \in answered /\ l \notin failedDma
ArgsThere == \A l \in Launches : ArgsHere(l) => \A a \in Units(launch[l]) : dram[a] = <<"args", l>>

PlacesInv == ArgsInv /\ MemoryInv
ArgsKept == SlotsTaken /\ ArgsFirst /\ ArgsThere
-----------------------------------------------------------------------------
(***************************************************************************)
(* What is queued and under way.                                           *)
(***************************************************************************)

\* Launches under way have begun and their commands have no answer.
LEMMA UnderwayBegun ==
  ASSUME ArgsInv, NEW l \in Launches
  PROVE  /\ KernelUnderway(l) => launch[l].stage \notin {"unused", "staged"} /\ Kernel(l) \notin answered
         /\ ArgsUnderway(l) => ArgsPending(l)
<1>1. Queued(Kernel(l)) => launch[l].stage \notin {"unused", "staged"} /\ Kernel(l) \notin answered
  BY DEF ArgsInv, KernelsQueued, Queued
<1>2. l \in running => launch[l].stage \notin {"unused", "staged"} /\ Kernel(l) \notin answered
  BY DEF ArgsInv, NotBegun
<1>3. ArgsUnderway(l) => ArgsPending(l)
  BY DEF ArgsInv, DmasHeld, Queued, ArgsUnderway
<1>4. QED
  BY <1>1, <1>2, <1>3 DEF KernelUnderway

LEMMA QueuedUnchanged ==
  ASSUME UNCHANGED <<queue, copying, running>>, NEW l \in Launches
  PROVE  /\ ArgsUnderway(l)' <=> ArgsUnderway(l)
         /\ KernelUnderway(l)' <=> KernelUnderway(l)
         /\ Queued(Kernel(l))' <=> Queued(Kernel(l))
BY DEF Queued, ArgsUnderway, KernelUnderway

\* A command joins a queue.
LEMMA QueuedAppended ==
  ASSUME QueueTypes, NEW q \in Queues, NEW e \in [cmd : Commands, buf : Launches \cup {Nobody}],
         queue' = [queue EXCEPT ![q] = Append(@, e)], NEW c
  PROVE  Queued(c)' <=> Queued(c) \/ c = e.cmd
<1>1. /\ \A p \in Queues : \A i \in 1 .. Len(queue'[p]) :
           \/ i \in 1 .. Len(queue[p]) /\ queue'[p][i] = queue[p][i]
           \/ p = q /\ i = Len(queue[q]) + 1 /\ queue'[p][i] = e
      /\ \A p \in Queues : \A i \in 1 .. Len(queue[p]) :
           i \in 1 .. Len(queue'[p]) /\ queue'[p][i] = queue[p][i]
      /\ Len(queue[q]) + 1 \in 1 .. Len(queue'[q]) /\ queue'[q][Len(queue[q]) + 1] = e
  BY AppendAt
<1>2. Queued(c)' => Queued(c) \/ c = e.cmd
  BY <1>1 DEF Queued
<1>3. Queued(c) => Queued(c)'
  BY <1>1 DEF Queued
<1>4. c = e.cmd => Queued(c)'
  BY <1>1 DEF Queued
<1>5. QED
  BY <1>2, <1>3, <1>4

\* A command leaves a queue.
LEMMA QueuedDequeued ==
  ASSUME QueueTypes, NEW q \in Queues, queue[q] # <<>>, Dequeue(q), NEW c
  PROVE  /\ Queued(c)' => Queued(c)
         /\ Queued(c) => Queued(c)' \/ c = Head(queue[q]).cmd
         /\ Queued(Head(queue[q]).cmd)
<1>1. /\ \A p \in Queues \ {q} : queue'[p] = queue[p]
      /\ \A i \in 1 .. Len(queue'[q]) :
           i + 1 \in 1 .. Len(queue[q]) /\ queue'[q][i] = queue[q][i + 1]
      /\ 1 \in 1 .. Len(queue[q]) /\ Head(queue[q]) = queue[q][1]
      /\ \A i \in 1 .. Len(queue[q]) :
           i = 1 \/ (i - 1 \in 1 .. Len(queue'[q]) /\ queue'[q][i - 1] = queue[q][i])
  BY DequeueAt
<1>2. ASSUME Queued(c)' PROVE Queued(c)
  <2>1. PICK p \in Queues : \E i \in 1 .. Len(queue'[p]) : queue'[p][i].cmd = c
    BY <1>2 DEF Queued
  <2>2. CASE p = q
    BY <1>1, <2>1, <2>2 DEF Queued
  <2>3. CASE p # q
    BY <1>1, <2>1, <2>3 DEF Queued
  <2>4. QED
    BY <2>2, <2>3
<1>3. ASSUME Queued(c), c # Head(queue[q]).cmd PROVE Queued(c)'
  <2>1. PICK p \in Queues : \E i \in 1 .. Len(queue[p]) : queue[p][i].cmd = c
    BY <1>3 DEF Queued
  <2>2. CASE p = q
    <3>1. PICK i \in 1 .. Len(queue[q]) : queue[q][i].cmd = c
      BY <2>1, <2>2
    <3>2. i # 1
      BY <1>1, <1>3, <3>1
    <3>3. i - 1 \in 1 .. Len(queue'[q]) /\ queue'[q][i - 1].cmd = c
      BY <1>1, <3>1, <3>2
    <3>4. QED
      BY <3>3 DEF Queued
  <2>3. CASE p # q
    BY <1>1, <2>1, <2>3 DEF Queued
  <2>4. QED
    BY <2>2, <2>3
<1>4. Queued(Head(queue[q]).cmd)
  BY <1>1 DEF Queued
<1>5. QED
  BY <1>2, <1>3, <1>4

\* After a step too.
LEMMA UnderwayPending ==
  ASSUME ArgsInv', NEW l \in Launches, ArgsUnderway(l)'
  PROVE  ArgsPending(l)'
<1>1. CASE Queued(Args(l))'
  <2>1. PICK q \in Queues : \E i \in 1 .. Len(queue'[q]) : queue'[q][i].cmd = Args(l)
    BY <1>1 DEF Queued
  <2>2. QED
    BY <2>1 DEF ArgsInv, DmasHeld
<1>2. CASE \E dma \in copying' : dma.cmd = Args(l)
  BY <1>2 DEF ArgsInv, DmasHeld
<1>3. QED
  BY <1>1, <1>2 DEF ArgsUnderway

\* What a step of the device does to the launches under way.
DeviceStep(l) ==
  /\ UNCHANGED <<slots, hostArgs, outstanding, launch, orphaned, regions, kernels>>
  /\ Queued(Kernel(l))' => Queued(Kernel(l))
  /\ ArgsUnderway(l)' => ArgsUnderway(l)
  /\ ArgsUnderway(l) => ArgsUnderway(l)' \/ Args(l) \in answered'
  /\ KernelUnderway(l)' => KernelUnderway(l)
  /\ l \in running' => l \in running \/ Queued(Kernel(l))
  /\ answered \subseteq answered'

LEMMA StartArgsStep ==
  ASSUME ArgsInv, NEW q \in Queues, StartArgs(q), NEW l \in Launches
  PROVE  DeviceStep(l) /\ UNCHANGED <<answered, failedDma, dram>>
<1>1. /\ queue[q] # <<>> /\ Dequeue(q) /\ copying' = copying \cup {Head(queue[q])}
      /\ UNCHANGED <<slots, hostArgs, outstanding, launch, orphaned, regions, kernels, answered,
                     failedDma, running, dram>>
  BY DEF StartArgs, allocator
<1>2. PICK head : head = Head(queue[q])
  OBVIOUS
<1>3. PICK m \in Launches : head.cmd = Args(m)
  BY <1>2 DEF StartArgs
<1>4. QueueTypes
  BY TypesSplit DEF ArgsInv
<1>5. /\ Queued(Args(l))' => Queued(Args(l))
      /\ Queued(Args(l)) => Queued(Args(l))' \/ Args(l) = head.cmd
      /\ Queued(head.cmd)
  BY <1>1, <1>2, <1>4, QueuedDequeued
<1>6. Queued(Kernel(l))' => Queued(Kernel(l))
  BY <1>1, <1>4, QueuedDequeued
<1>7. ArgsUnderway(l)' => ArgsUnderway(l)
  BY <1>1, <1>2, <1>5 DEF ArgsUnderway
<1>8. ArgsUnderway(l) => ArgsUnderway(l)'
  BY <1>1, <1>2, <1>5 DEF ArgsUnderway
<1>9. QED
  BY <1>1, <1>6, <1>7, <1>8 DEF DeviceStep, KernelUnderway

LEMMA StartLaunchStep ==
  ASSUME ArgsInv, NEW q \in Queues, Start(q), NEW l \in Launches
  PROVE  DeviceStep(l) /\ UNCHANGED <<answered, failedDma, dram>>
<1>1. /\ queue[q] # <<>> /\ Dequeue(q)
      /\ UNCHANGED <<slots, hostArgs, outstanding, launch, orphaned, regions, kernels, answered,
                     failedDma, copying, dram>>
  BY DEF Start, allocator
<1>2. PICK head : head = Head(queue[q])
  OBVIOUS
<1>3. PICK m \in Launches : head.cmd = Kernel(m) /\ running' = running \cup {m}
  BY <1>2 DEF Start
<1>4. QueueTypes
  BY TypesSplit DEF ArgsInv
<1>5. /\ Queued(Args(l))' => Queued(Args(l))
      /\ Queued(Args(l)) => Queued(Args(l))' \/ Args(l) = head.cmd
      /\ Queued(head.cmd)
  BY <1>1, <1>2, <1>4, QueuedDequeued
<1>6. Queued(Kernel(l))' => Queued(Kernel(l))
  BY <1>1, <1>4, QueuedDequeued
<1>7. Queued(Args(l)) => Queued(Args(l))'
  BY <1>3, <1>5, CommandsDistinct
<1>8. ArgsUnderway(l)' <=> ArgsUnderway(l)
  BY <1>1, <1>5, <1>7 DEF ArgsUnderway
<1>9. l \in running' => l \in running \/ Queued(Kernel(l))
  BY <1>3, <1>5
<1>10. QED
  BY <1>1, <1>6, <1>8, <1>9 DEF DeviceStep, KernelUnderway

LEMMA FinishArgsStep ==
  ASSUME ArgsInv, NEW dma \in copying, NEW ok \in BOOLEAN, FinishArgs(dma, ok)
  PROVE  \E m \in Launches :
           /\ dma.cmd = Args(m) /\ ArgsPending(m) /\ ArgsUnderway(m)
           /\ answered' = answered \cup {Args(m)}
           /\ failedDma' = IF ok THEN failedDma ELSE failedDma \cup {m}
           /\ dram' = [a \in Addresses |->
                         IF ok /\ a \in Units(launch[m]) THEN <<"args", m>> ELSE dram[a]]
           /\ \A l \in Launches : DeviceStep(l)
<1>1. /\ copying' = copying \ {dma}
      /\ UNCHANGED <<slots, hostArgs, outstanding, launch, orphaned, regions, kernels, queue, running>>
  BY DEF FinishArgs, allocator, launching
<1>2. PICK m \in Launches : dma.cmd = Args(m)
  BY TypesSplit DEF ArgsInv, QueueTypes
<1>3. DmaLaunch(dma) = m
  BY <1>2 DEF DmaLaunch, Args
<1>4. HoldsBuffer(dma, m) /\ ArgsPending(m)
  BY <1>2 DEF ArgsInv, DmasHeld
<1>5. /\ answered' = answered \cup {Args(m)}
      /\ dram' = [a \in Addresses |-> IF ok /\ a \in Units(launch[m]) THEN <<"args", m>> ELSE dram[a]]
      /\ failedDma' = IF ok THEN failedDma ELSE failedDma \cup {m}
  BY <1>3, <1>4 DEF FinishArgs, HoldsBuffer
<1>6. ArgsUnderway(m)
  BY <1>2 DEF ArgsUnderway
<1>7. ASSUME NEW l \in Launches PROVE DeviceStep(l)
  <2>1. \A c : Queued(c)' <=> Queued(c)
    BY <1>1 DEF Queued
  <2>2. ArgsUnderway(l)' => ArgsUnderway(l)
    BY <1>1, <2>1 DEF ArgsUnderway
  <2>3. ArgsUnderway(l) => ArgsUnderway(l)' \/ Args(l) \in answered'
    BY <1>1, <1>2, <1>5, <2>1 DEF ArgsUnderway
  <2>4. QED
    BY <1>1, <1>5, <2>1, <2>2, <2>3 DEF DeviceStep, KernelUnderway
<1>8. QED
  BY <1>2, <1>4, <1>5, <1>6, <1>7

LEMMA FinishLaunchStep ==
  ASSUME NEW k \in Launches, Finish(k), NEW l \in Launches
  PROVE  DeviceStep(l) /\ UNCHANGED <<failedDma, dram>> /\ answered' = answered \cup {Kernel(k)}
<1>1. /\ running' = running \ {k} /\ answered' = answered \cup {Kernel(k)}
      /\ UNCHANGED <<slots, hostArgs, outstanding, launch, orphaned, regions, kernels, queue,
                     copying, failedDma, dram>>
  BY DEF Finish, allocator, launching
<1>2. ArgsUnderway(l)' <=> ArgsUnderway(l)
  BY <1>1 DEF ArgsUnderway, Queued
<1>3. Queued(Kernel(l))' <=> Queued(Kernel(l))
  BY <1>1 DEF Queued
<1>4. QED
  BY <1>1, <1>2, <1>3 DEF DeviceStep, KernelUnderway
-----------------------------------------------------------------------------
(***************************************************************************)
(* What keeps the three parts of the invariant.                            *)
(***************************************************************************)

\* No launch changes, and the table forgets no slot in use.
LEMMA SlotsTakenKept ==
  ASSUME SlotsTaken, UNCHANGED <<outstanding, launch>>,
         ~orphaned' => ~orphaned /\ \A s \in slots : s.owner \in outstanding => s \in slots',
         \A l \in Launches : /\ KernelUnderway(l)' => KernelUnderway(l)
                             /\ ArgsUnderway(l)' => ArgsUnderway(l)
  PROVE  SlotsTaken'
<1>1. ASSUME NEW l \in Launches, NEW owners, ~orphaned', SlotOf(l, owners)
      PROVE  SlotOf(l, owners)'
  BY <1>1 DEF SlotOf
<1>2. SUFFICES ASSUME ~orphaned', NEW l \in Launches
               PROVE  /\ launch'[l].stage = "staged" => SlotOf(l, {Args(l)})'
                      /\ KernelUnderway(l)' => SlotOf(l, {Kernel(l)})'
                      /\ ArgsUnderway(l)' => SlotOf(l, {Args(l), Kernel(l)})'
  BY DEF SlotsTaken
<1>3. QED
  BY <1>1, <1>2 DEF SlotsTaken

\* Answered commands of a launch that is no longer staged give up their tags.
LEMMA SlotsTakenEnds ==
  ASSUME ArgsInv, SlotsTaken, NEW l \in Launches,
         UNCHANGED <<slots, queue, copying, running, orphaned>>,
         outstanding \ outstanding' \subseteq {Args(l), Kernel(l)} \cap answered,
         launch'[l].stage # "staged",
         \A m \in Launches :
           /\ launch'[m].addr = launch[m].addr /\ launch'[m].size = launch[m].size
           /\ m # l => launch'[m].stage = launch[m].stage
  PROVE  SlotsTaken'
<1>1. ASSUME NEW m \in Launches, NEW owners \in SUBSET {Args(m), Kernel(m)}, SlotOf(m, owners),
             m # l \/ owners \cap answered = {}
      PROVE  SlotOf(m, owners)'
  <2>1. PICK s \in slots : /\ s.owner \in owners /\ s.owner \in outstanding
                           /\ s.addr = launch[m].addr /\ launch[m].size <= s.size
    BY <1>1 DEF SlotOf
  <2>2. s.owner \in outstanding'
    BY <1>1, <2>1, CommandsDistinct
  <2>3. QED
    BY <2>1, <2>2 DEF SlotOf
<1>2. SUFFICES ASSUME ~orphaned', NEW m \in Launches
               PROVE  /\ launch'[m].stage = "staged" => SlotOf(m, {Args(m)})'
                      /\ KernelUnderway(m)' => SlotOf(m, {Kernel(m)})'
                      /\ ArgsUnderway(m)' => SlotOf(m, {Args(m), Kernel(m)})'
  BY DEF SlotsTaken
<1>3. KernelUnderway(m)' = KernelUnderway(m) /\ ArgsUnderway(m)' = ArgsUnderway(m)
  BY DEF KernelUnderway, ArgsUnderway, Queued
<1>4. launch'[m].stage = "staged" => SlotOf(m, {Args(m)})'
  BY <1>1, <1>2 DEF SlotsTaken
<1>5. KernelUnderway(m) => {Kernel(m)} \cap answered = {}
  BY UnderwayBegun
<1>6. ArgsUnderway(m) => {Args(m), Kernel(m)} \cap answered = {}
  BY UnderwayBegun DEF ArgsPending
<1>7. KernelUnderway(m)' => SlotOf(m, {Kernel(m)})'
  BY <1>1, <1>2, <1>3, <1>5 DEF SlotsTaken
<1>8. ArgsUnderway(m)' => SlotOf(m, {Args(m), Kernel(m)})'
  BY <1>1, <1>2, <1>3, <1>6 DEF SlotsTaken
<1>9. QED
  BY <1>4, <1>7, <1>8

\* No launch changes.
LEMMA ArgsFirstKept ==
  ASSUME ArgsInv, ArgsInv', ArgsFirst, UNCHANGED launch, answered \subseteq answered',
         \A l \in Launches :
           /\ Queued(Kernel(l))' => Queued(Kernel(l))
           /\ ArgsUnderway(l) => ArgsUnderway(l)' \/ Args(l) \in answered'
           /\ l \in running' => l \in running \/ Queued(Kernel(l))
           /\ launch[l].stage = "done" /\ l \in failedDma' => l \in failedDma
  PROVE  ArgsFirst'
<1> SUFFICES ASSUME NEW l \in Launches
             PROVE  /\ launch'[l].stage = "staged" \/ Queued(Kernel(l))' =>
                         ArgsUnderway(l)' \/ Args(l) \in answered'
                    /\ l \in running' => Args(l) \in answered'
                    /\ launch'[l].stage = "done" => Args(l) \in answered' /\ l \notin failedDma'
  BY DEF ArgsFirst
<1>1. launch'[l].stage = "staged" \/ Queued(Kernel(l))' => ArgsUnderway(l)' \/ Args(l) \in answered'
  BY DEF ArgsFirst
<1>2. l \in running' => Args(l) \in answered'
  <2>1. ASSUME l \in running', ArgsUnderway(l)' PROVE FALSE
    BY <2>1, UnderwayPending DEF ArgsPending
  <2>2. QED
    BY <2>1 DEF ArgsFirst
<1>3. launch'[l].stage = "done" => Args(l) \in answered' /\ l \notin failedDma'
  BY DEF ArgsFirst
<1>4. QED
  BY <1>1, <1>2, <1>3

\* A launch ends, or fails before it is staged.
LEMMA ArgsFirstEnds ==
  ASSUME ArgsFirst, UNCHANGED <<queue, copying, running, answered, failedDma>>,
         \A m \in Launches :
           /\ launch'[m].stage = "staged" => launch[m].stage = "staged"
           /\ launch'[m].stage = "done" =>
                launch[m].stage = "done" \/ (Args(m) \in answered /\ m \notin failedDma)
  PROVE  ArgsFirst'
BY DEF ArgsFirst, Queued, ArgsUnderway

\* Memory is left alone, and no launch's arguments begin to count.
LEMMA ArgsThereKept ==
  ASSUME ArgsThere, UNCHANGED dram,
         \A l \in Launches : ArgsHere(l)' => ArgsHere(l) /\ Units(launch'[l]) = Units(launch[l])
  PROVE  ArgsThere'
<1> SUFFICES ASSUME NEW l \in Launches, ArgsHere(l)', NEW a \in Units(launch'[l])
             PROVE  dram'[a] = <<"args", l>>
  BY DEF ArgsThere, Units
<1>1. ArgsHere(l) /\ a \in Units(launch[l])
  OBVIOUS
<1>2. QED
  BY <1>1 DEF ArgsThere

\* The arguments of a launch lie in a slot that is taken for the launch.
LEMMA ArgsInSlot ==
  ASSUME TypeOK, NEW l \in Launches, NEW owners, SlotOf(l, owners)
  PROVE  \E s \in slots : s.owner \in owners /\ Units(launch[l]) \subseteq Units(s)
<1>1. PICK s \in slots : /\ s.owner \in owners
                         /\ s.addr = launch[l].addr /\ launch[l].size <= s.size
  BY DEF SlotOf
<1>2. launch[l].addr \in Nat /\ launch[l].size \in Nat
  <2>1. LaunchTypes /\ ArgLens \subseteq Nat
    BY TypesSplit, DeviceMemoryAssumption
  <2>2. launch[l].addr \in Addresses /\ launch[l].size \in ArgLens \cup {0}
    BY <2>1 DEF LaunchTypes
  <2>3. ArgLens \cup {0} \subseteq Nat
    BY <2>1
  <2>4. launch[l].size \in Nat
    BY <2>2, <2>3
  <2>5. launch[l].addr \in Nat
    BY <2>2, DeviceMemoryAssumption DEF Addresses
  <2>6. QED
    BY <2>4, <2>5
<1>3. s.addr \in Nat /\ s.size \in Nat
  BY PlacesTyped
<1>4. Units(launch[l]) \subseteq Units(s)
  BY <1>1, <1>2, <1>3 DEF Units
<1>5. QED
  BY <1>1, <1>4
-----------------------------------------------------------------------------
(***************************************************************************)
(* Who writes to memory.                                                   *)
(***************************************************************************)

\* An image that loads reaches nothing that is allocated.
LEMMA LoadSpares ==
  ASSUME ImagesContiguous, TypeOK, MemoryInv, NEW image \in Images, Loadable(image),
         NEW x \in regions \cup slots, NEW a \in Units(x)
  PROVE  a \notin ImageUnits(image)
<1>1. PICK end \in Nat : ImageUnits(image) = 0 .. end - 1
  BY DEF ImagesContiguous
<1>2. x.addr \in Nat /\ x.size \in Nat /\ kernelEnd \in Nat
  BY PlacesTyped
<1>3. a \in x.addr .. x.addr + x.size - 1
  BY DEF Units
<1>4. kernelEnd <= a /\ x.size > 0
  BY <1>2, <1>3 DEF MemoryInv, CursorAbove
<1>5. CASE kernelEnd < end
  BY <1>1, <1>4, <1>5, LoadedAbove
<1>6. CASE end <= kernelEnd
  BY <1>1, <1>2, <1>3, <1>4, <1>6
<1>7. QED
  BY <1>1, <1>2, <1>5, <1>6

\* The caller's own writes: to a region it holds, or an image it loads.
LEMMA MemoryWrites ==
  ASSUME ImagesContiguous, TypeOK, MemoryInv, Memory
  PROVE  \/ UNCHANGED dram
         \/ \E r \in regions : /\ kernels' = kernels
                               /\ dram' = [a \in Addresses |-> IF a \in Units(r)
                                                              THEN <<"region", r.id>> ELSE dram[a]]
         \/ \E written :
              /\ kernels \cap kernels' \subseteq LoadedBefore(written)
              /\ dram' = [a \in Addresses |-> IF a \in written
                                             THEN <<"kernel", serial + 1>> ELSE dram[a]]
              /\ \A x \in regions \cup slots : Units(x) \cap written = {}
<1>1. CASE (\E size \in Sizes : Alloc(size)) \/ AllocMark \/ \E m \in marks : ResetTo(m)
  BY <1>1 DEF Alloc, AllocMark, ResetTo, device
<1>2. CASE \E r \in regions : WriteRegion(r)
  BY <1>2 DEF WriteRegion, allocator
<1>3. ASSUME NEW image \in Images, LoadKernel(image)
      PROVE  /\ kernels \cap kernels' \subseteq LoadedBefore(ImageUnits(image))
             /\ dram' = [a \in Addresses |-> IF a \in ImageUnits(image)
                                            THEN <<"kernel", serial + 1>> ELSE dram[a]]
             /\ \A x \in regions \cup slots : Units(x) \cap ImageUnits(image) = {}
  <2>1. [id |-> serial + 1, image |-> image] \notin kernels
    <3>1. \A k \in kernels : k.id \in 1 .. serial
      BY TypesSplit DEF AllocatorTypes
    <3>2. QED
      BY <3>1, PlacesTyped
  <2>2. Loadable(image) /\ kernels' = LoadedBefore(ImageUnits(image))
                                        \cup {[id |-> serial + 1, image |-> image]}
    BY <1>3 DEF LoadKernel
  <2>3. \A x \in regions \cup slots : Units(x) \cap ImageUnits(image) = {}
    BY <2>2, LoadSpares
  <2>4. QED
    BY <1>3, <2>1, <2>2, <2>3 DEF LoadKernel, WriteImage
<1>4. ASSUME NEW image \in Images, NEW cut \in Addresses, LoadFails(image, cut)
      PROVE  \E written :
               /\ kernels \cap kernels' \subseteq LoadedBefore(written)
               /\ dram' = [a \in Addresses |-> IF a \in written
                                              THEN <<"kernel", serial + 1>> ELSE dram[a]]
               /\ \A x \in regions \cup slots : Units(x) \cap written = {}
  <2> DEFINE written == {a \in ImageUnits(image) : a < cut}
  <2>1. Loadable(image) /\ kernels' = LoadedBefore(written) /\ WriteImage(written)
    BY <1>4 DEF LoadFails
  <2>2. \A x \in regions \cup slots : Units(x) \cap written = {}
    BY <2>1, LoadSpares
  <2>3. QED
    BY <2>1, <2>2 DEF WriteImage
<1>5. CASE \E image \in Images : LoadKernel(image) \/ \E cut \in Addresses : LoadFails(image, cut)
  BY <1>3, <1>4, <1>5
<1>6. QED
  BY <1>1, <1>2, <1>5 DEF Memory

\* The device writes to the slot of the arguments it copies.
LEMMA ExecutingWrites ==
  ASSUME ArgsInv, SlotsTaken, ~orphaned, Executing
  PROVE  /\ UNCHANGED <<regions, kernels>>
         /\ \A a \in Addresses :
              dram'[a] # dram[a] =>
                \E m \in Launches, s \in slots :
                  /\ s.owner \in {Args(m), Kernel(m)} /\ a \in Units(s)
                  /\ dram'[a] = <<"args", m>> /\ ArgsUnderway(m)
<1>1. CASE \E q \in Queues : StartArgs(q) \/ Start(q)
  BY <1>1 DEF StartArgs, Start, allocator
<1>2. CASE \E l \in Launches : Finish(l)
  BY <1>2 DEF Finish, allocator
<1>3. ASSUME NEW dma \in copying, NEW ok \in BOOLEAN, FinishArgs(dma, ok)
      PROVE  /\ UNCHANGED <<regions, kernels>>
             /\ \A a \in Addresses :
                  dram'[a] # dram[a] =>
                    \E m \in Launches, s \in slots :
                      /\ s.owner \in {Args(m), Kernel(m)} /\ a \in Units(s)
                      /\ dram'[a] = <<"args", m>> /\ ArgsUnderway(m)
  <2>1. PICK m \in Launches :
          /\ ArgsUnderway(m)
          /\ dram' = [a \in Addresses |->
                        IF ok /\ a \in Units(launch[m]) THEN <<"args", m>> ELSE dram[a]]
    BY <1>3, FinishArgsStep
  <2>2. PICK s \in slots : s.owner \in {Args(m), Kernel(m)} /\ Units(launch[m]) \subseteq Units(s)
    <3>1. SlotOf(m, {Args(m), Kernel(m)})
      BY <2>1 DEF SlotsTaken
    <3>2. QED
      BY <3>1, ArgsInSlot DEF ArgsInv
  <2>3. UNCHANGED <<regions, kernels>>
    BY <1>3 DEF FinishArgs, allocator
  <2>4. QED
    BY <2>1, <2>2, <2>3
<1>4. QED
  BY <1>1, <1>2, <1>3 DEF Executing

LEMMA LaunchingWrites == ASSUME Launching PROVE UNCHANGED dram
BY DEF Launching, StageArgs, StageArgsFails, PushLaunch, PushLaunchFails, WaitLaunch,
       WaitLaunchFails, DropPending, ReleaseLate, device
-----------------------------------------------------------------------------
(***************************************************************************)
(* The invariant is kept.                                                  *)
(***************************************************************************)
LEMMA InitKept == Init => ArgsKept
<1> SUFFICES ASSUME Init PROVE ArgsKept
  OBVIOUS
<1>1. queue \in [Queues -> {<<>>}] /\ copying = {} /\ running = {}
  BY DEF Init
<1>2. \A l \in Launches : launch[l].stage = "unused"
  BY DEF Init
<1>3. \A l \in Launches : ~ArgsUnderway(l) /\ ~KernelUnderway(l) /\ ~Queued(Kernel(l))
  BY <1>1 DEF ArgsUnderway, KernelUnderway, Queued
<1>4. QED
  BY <1>1, <1>2, <1>3 DEF ArgsKept, SlotsTaken, ArgsFirst, ArgsThere, ArgsHere

LEMMA MemoryKept ==
  ASSUME ImagesContiguous, PlacesInv, ArgsInv', ArgsKept, Memory
  PROVE  ArgsKept'
<1>1. UNCHANGED <<queue, copying, running, launch, outstanding, answered, failedDma>>
  BY DEF Memory, Alloc, AllocMark, ResetTo, WriteRegion, LoadKernel, LoadFails, launching, device
<1>2. ~orphaned' => ~orphaned /\ \A s \in slots : s.owner \in outstanding => s \in slots'
  <2>1. ASSUME NEW m \in marks, ResetTo(m), ~orphaned'
        PROVE  ~orphaned /\ \A s \in slots : s.owner \in outstanding => s \in slots'
    BY <2>1 DEF ResetTo, Leaked
  <2>2. CASE UNCHANGED <<slots, orphaned>>
    BY <2>2
  <2>3. QED
    BY <2>1, <2>2 DEF Memory, Alloc, AllocMark, WriteRegion, LoadKernel, LoadFails, allocator,
         launching
<1>3. \A l \in Launches : /\ KernelUnderway(l)' <=> KernelUnderway(l)
                          /\ ArgsUnderway(l)' <=> ArgsUnderway(l)
                          /\ Queued(Kernel(l))' <=> Queued(Kernel(l))
  BY <1>1, QueuedUnchanged
<1>4. SlotsTaken'
  BY <1>1, <1>2, <1>3, SlotsTakenKept DEF ArgsKept
<1>5. ArgsFirst'
  BY <1>1, <1>3, ArgsFirstKept DEF PlacesInv, ArgsKept
<1>6. ArgsThere'
  <2> SUFFICES ASSUME NEW l \in Launches, ArgsHere(l)', NEW a \in Units(launch'[l])
               PROVE  dram'[a] = <<"args", l>>
    BY DEF ArgsThere, Units
  <2>1. ArgsHere(l) /\ launch' = launch
    BY <1>1, <1>2, <1>3 DEF ArgsHere
  <2>2. a \in Units(launch[l]) /\ dram[a] = <<"args", l>>
    BY <2>1 DEF ArgsKept, ArgsThere
  <2>3. PICK s \in slots : a \in Units(s)
    <3>1. SlotOf(l, {Args(l)}) \/ SlotOf(l, {Kernel(l)})
      BY <2>1 DEF ArgsKept, SlotsTaken, ArgsHere
    <3>2. QED
      BY <2>2, <3>1, ArgsInSlot DEF PlacesInv, ArgsInv
  <2>4. MemoryPartitioned
    BY PartsDisjoint DEF PlacesInv, ArgsInv
  <2>5. a \in Addresses /\ \A r \in regions : a \notin Units(r)
    BY <2>3, <2>4 DEF MemoryPartitioned
  <2>6. dram'[a] = dram[a]
    <3>1. CASE UNCHANGED dram
      BY <3>1
    <3>2. CASE \E r \in regions : dram' = [b \in Addresses |->
                                             IF b \in Units(r) THEN <<"region", r.id>> ELSE dram[b]]
      BY <2>5, <3>2
    <3>3. CASE \E written :
                 /\ dram' = [b \in Addresses |-> IF b \in written
                                                THEN <<"kernel", serial + 1>> ELSE dram[b]]
                 /\ \A x \in regions \cup slots : Units(x) \cap written = {}
      BY <2>3, <2>5, <3>3
    <3>4. QED
      BY <3>1, <3>2, <3>3, MemoryWrites DEF PlacesInv, ArgsInv
  <2>7. QED
    BY <2>2, <2>6
<1>7. QED
  BY <1>4, <1>5, <1>6 DEF ArgsKept

\* A step of the device other than the end of an argument DMA.
LEMMA DeviceKept ==
  ASSUME ArgsInv, ArgsInv', ArgsKept, \A l \in Launches : DeviceStep(l),
         UNCHANGED <<failedDma, dram>>, \A l \in Launches : Args(l) \in answered' => Args(l) \in answered,
         UNCHANGED <<slots, outstanding, launch, orphaned>>, answered \subseteq answered'
  PROVE  ArgsKept'
<1>1. SlotsTaken'
  BY SlotsTakenKept DEF ArgsKept, DeviceStep
<1>2. ArgsFirst'
  BY ArgsFirstKept DEF ArgsKept, DeviceStep
<1>3. ArgsThere'
  BY ArgsThereKept DEF ArgsKept, DeviceStep, ArgsHere
<1>4. QED
  BY <1>1, <1>2, <1>3 DEF ArgsKept

LEMMA FinishArgsKept ==
  ASSUME PlacesInv, ArgsInv', ArgsKept, NEW dma \in copying, NEW ok \in BOOLEAN,
         FinishArgs(dma, ok)
  PROVE  ArgsKept'
<1>1. PICK m \in Launches :
        /\ dma.cmd = Args(m) /\ ArgsPending(m) /\ ArgsUnderway(m)
        /\ answered' = answered \cup {Args(m)}
        /\ failedDma' = IF ok THEN failedDma ELSE failedDma \cup {m}
        /\ dram' = [a \in Addresses |-> IF ok /\ a \in Units(launch[m]) THEN <<"args", m>> ELSE dram[a]]
        /\ \A l \in Launches : DeviceStep(l)
  BY FinishArgsStep DEF PlacesInv
<1>2. UNCHANGED <<slots, outstanding, launch, orphaned>>
  BY DEF FinishArgs, allocator, launching
<1>3. SlotsTaken'
  BY <1>1, <1>2, SlotsTakenKept DEF ArgsKept, DeviceStep
<1>4. ArgsFirst'
  <2>1. launch[m].stage # "done"
    BY <1>1 DEF ArgsPending, ArgsKept, ArgsFirst
  <2>2. QED
    BY <1>1, <1>2, <2>1, ArgsFirstKept DEF PlacesInv, ArgsKept, DeviceStep
<1>5. ArgsThere'
  <2> SUFFICES ASSUME NEW l \in Launches, ArgsHere(l)', NEW a \in Units(launch'[l])
               PROVE  dram'[a] = <<"args", l>>
    BY DEF ArgsThere, Units
  <2>1. MemoryPartitioned /\ TypeOK
    BY PartsDisjoint DEF PlacesInv, ArgsInv
  <2>2. /\ ~orphaned /\ launch' = launch /\ a \in Units(launch[l])
        /\ launch[l].stage = "staged" \/ KernelUnderway(l)
    BY <1>1, <1>2 DEF ArgsHere, DeviceStep
  <2>3. PICK s \in slots : s.owner \in {Args(l), Kernel(l)} /\ a \in Units(s)
    <3>1. SlotOf(l, {Args(l)}) \/ SlotOf(l, {Kernel(l)})
      BY <2>2 DEF ArgsKept, SlotsTaken
    <3>2. QED
      BY <2>1, <2>2, <3>1, ArgsInSlot
  <2>4. a \in Addresses
    BY <2>1, <2>3 DEF MemoryPartitioned
  <2>5. CASE l = m
    <3>1. ok
      BY <1>1, <2>5 DEF ArgsHere
    <3>2. QED
      BY <1>1, <2>2, <2>4, <2>5, <3>1
  <2>6. CASE l # m
    <3>1. ArgsHere(l)
      <4>1. Args(l) \in answered /\ l \notin failedDma
        BY <1>1, <2>6, CommandsDistinct DEF ArgsHere
      <4>2. QED
        BY <2>2, <4>1 DEF ArgsHere
    <3>2. dram[a] = <<"args", l>>
      BY <2>2, <3>1 DEF ArgsKept, ArgsThere
    <3>3. PICK t \in slots : t.owner \in {Args(m), Kernel(m)} /\ Units(launch[m]) \subseteq Units(t)
      <4>1. SlotOf(m, {Args(m), Kernel(m)})
        BY <1>1, <2>2 DEF ArgsKept, SlotsTaken
      <4>2. QED
        BY <2>1, <4>1, ArgsInSlot
    <3>4. s # t
      BY <2>3, <2>6, <3>3, CommandsDistinct
    <3>5. a \notin Units(launch[m])
      BY <2>1, <2>3, <3>3, <3>4 DEF MemoryPartitioned
    <3>6. QED
      BY <1>1, <2>4, <3>2, <3>5
  <2>7. QED
    BY <2>5, <2>6
<1>6. QED
  BY <1>3, <1>4, <1>5 DEF ArgsKept

LEMMA ExecutingKept ==
  ASSUME PlacesInv, ArgsInv', ArgsKept, Executing
  PROVE  ArgsKept'
<1>1. CASE \E q \in Queues : StartArgs(q)
  BY <1>1, StartArgsStep, DeviceKept DEF PlacesInv, StartArgs, allocator
<1>2. CASE \E q \in Queues : Start(q)
  BY <1>2, StartLaunchStep, DeviceKept DEF PlacesInv, Start, allocator
<1>3. CASE \E dma \in copying, ok \in BOOLEAN : FinishArgs(dma, ok)
  BY <1>3, FinishArgsKept
<1>4. ASSUME NEW k \in Launches, Finish(k) PROVE ArgsKept'
  <2>1. /\ answered' = answered \cup {Kernel(k)}
        /\ UNCHANGED <<slots, outstanding, launch, orphaned, failedDma, dram>>
    BY <1>4 DEF Finish, allocator, launching
  <2>2. \A l \in Launches : DeviceStep(l)
    BY <1>4, FinishLaunchStep
  <2>3. \A l \in Launches : Args(l) \in answered' => Args(l) \in answered
    BY <2>1, CommandsDistinct
  <2>4. QED
    BY <2>1, <2>2, <2>3, DeviceKept DEF PlacesInv
<1>5. QED
  BY <1>1, <1>2, <1>3, <1>4 DEF Executing

\* A launch that has not begun has nothing under way.
LEMMA NothingUnderway ==
  ASSUME ArgsInv, NEW l \in Launches, launch[l].stage = "unused"
  PROVE  ~KernelUnderway(l) /\ ~ArgsUnderway(l) /\ Args(l) \notin answered
<1>1. Args(l) \notin answered
  BY DEF ArgsInv, NotBegun
<1>2. ~KernelUnderway(l)
  BY UnderwayBegun
<1>3. ~ArgsUnderway(l)
  BY UnderwayBegun DEF ArgsPending
<1>4. QED
  BY <1>1, <1>2, <1>3

\* Taking a slot leaves those in use where they are.
LEMMA SlotsInUse ==
  ASSUME TypeOK, MemoryInv, NEW l \in Launches, NEW len \in ArgLens, NEW slot \in ArgsSlot(l, len),
         NEW owner, TakeSlot(l, slot, owner), NEW s \in slots, s.owner \in outstanding
  PROVE  s \in slots'
<1>1. slot.owner \notin outstanding \/ slot.addr = AllocStart
  BY ArgsSlotGiven
<1>2. s.addr < AllocStart
  <2>1. /\ s.addr \in Nat /\ s.size \in Nat /\ s.size > 0 /\ s.addr + s.size <= next
        /\ next \in Nat /\ AllocStart \in Nat /\ next <= AllocStart
    BY PlacesTyped, AllocStartAbove DEF MemoryInv, CursorAbove, End
  <2>2. QED
    BY <2>1
<1>3. s # slot
  BY <1>1, <1>2, PlacesTyped, AllocStartAbove
<1>4. QED
  BY <1>3 DEF TakeSlot

LEMMA StageArgsKept ==
  ASSUME PlacesInv, ArgsKept, NEW l \in Launches, NEW len \in ArgLens,
         NEW q \in Queues, NEW b \in BOOLEAN, StageArgs(l, len, q, b)
  PROVE  ArgsKept'
<1>1. launch[l].stage = "unused"
  BY DEF StageArgs, IsNextLaunch
<1>2. PICK slot \in ArgsSlot(l, len) :
        /\ TakeSlot(l, slot, Args(l))
        /\ queue' = [queue EXCEPT ![q] = Append(@, [cmd |-> Args(l), buf |-> slot.buf])]
        /\ launch' = [launch EXCEPT ![l] = [stage |-> "staged", addr |-> slot.addr,
                                            size |-> len, q |-> q, barrier |-> b]]
  BY DEF StageArgs
<1>3. /\ outstanding' = outstanding \cup {Args(l)}
      /\ UNCHANGED <<orphaned, answered, failedDma, copying, running, dram>>
  BY DEF StageArgs, device
<1>4. QueueTypes /\ LaunchTypes /\ TypeOK /\ ArgsInv /\ MemoryInv
  BY TypesSplit DEF PlacesInv, ArgsInv
<1>5. /\ launch'[l].stage = "staged" /\ launch'[l].addr = slot.addr /\ launch'[l].size = len
      /\ \A m \in Launches \ {l} : launch'[m] = launch[m]
  BY <1>2, <1>4 DEF LaunchTypes
<1>6. slot \in [addr : Addresses, size : ArgLens, buf : Launches, owner : Commands \cup {Nobody}]
      /\ len <= slot.size
  BY <1>4, ArgsSlotGiven
<1>7. PICK e : e = [cmd |-> Args(l), buf |-> slot.buf]
  OBVIOUS
<1>8. e \in [cmd : Commands, buf : Launches \cup {Nobody}] /\ e.cmd = Args(l)
  BY <1>6, <1>7, CommandsDistinct
<1>9. \A c : Queued(c)' <=> Queued(c) \/ c = Args(l)
  BY <1>2, <1>4, <1>7, <1>8, QueuedAppended
<1>10. /\ ArgsUnderway(l)' /\ ~KernelUnderway(l)' /\ Args(l) \notin answered
       /\ \A m \in Launches \ {l} : /\ ArgsUnderway(m)' <=> ArgsUnderway(m)
                                    /\ KernelUnderway(m)' <=> KernelUnderway(m)
                                    /\ Queued(Kernel(m))' <=> Queued(Kernel(m))
       /\ ~Queued(Kernel(l))' /\ l \notin running
  BY <1>1, <1>3, <1>4, <1>9, NothingUnderway, CommandsDistinct DEF ArgsUnderway, KernelUnderway
<1>11. SlotsTaken'
  <2>1. ASSUME NEW m \in Launches \ {l}, NEW owners, SlotOf(m, owners) PROVE SlotOf(m, owners)'
    <3>1. PICK s \in slots : /\ s.owner \in owners /\ s.owner \in outstanding
                             /\ s.addr = launch[m].addr /\ launch[m].size <= s.size
      BY <2>1 DEF SlotOf
    <3>2. s \in slots'
      BY <1>2, <1>4, <3>1, SlotsInUse
    <3>3. QED
      BY <1>3, <1>5, <3>1, <3>2 DEF SlotOf
  <2>2. SlotOf(l, {Args(l)})' /\ SlotOf(l, {Args(l), Kernel(l)})'
    <3> DEFINE new == [slot EXCEPT !.owner = Args(l)]
    <3>1. new \in slots'
      BY <1>2 DEF TakeSlot
    <3>2. new.owner = Args(l) /\ new.addr = slot.addr /\ new.size = slot.size
      BY <1>6
    <3> HIDE DEF new
    <3>3. QED
      BY <1>3, <1>5, <1>6, <3>1, <3>2 DEF SlotOf
  <2>3. SUFFICES ASSUME ~orphaned', NEW m \in Launches
                 PROVE  /\ launch'[m].stage = "staged" => SlotOf(m, {Args(m)})'
                        /\ KernelUnderway(m)' => SlotOf(m, {Kernel(m)})'
                        /\ ArgsUnderway(m)' => SlotOf(m, {Args(m), Kernel(m)})'
    BY DEF SlotsTaken
  <2>4. CASE m = l
    BY <1>10, <2>2, <2>4
  <2>5. CASE m # l
    BY <1>3, <1>5, <1>10, <2>1, <2>3, <2>5 DEF ArgsKept, SlotsTaken
  <2>6. QED
    BY <2>4, <2>5
<1>12. ArgsFirst'
  BY <1>3, <1>5, <1>10 DEF ArgsKept, ArgsFirst
<1>13. ArgsThere'
  <2>1. ASSUME NEW m \in Launches, ArgsHere(m)'
        PROVE  ArgsHere(m) /\ Units(launch'[m]) = Units(launch[m])
    <3>1. m # l
      BY <1>3, <1>10, <2>1 DEF ArgsHere
    <3>2. QED
      BY <1>3, <1>5, <1>10, <2>1, <3>1 DEF ArgsHere
  <2>2. QED
    BY <1>3, <2>1, ArgsThereKept DEF ArgsKept
<1>14. QED
  BY <1>11, <1>12, <1>13 DEF ArgsKept

LEMMA StageArgsFailsKept ==
  ASSUME PlacesInv, ArgsKept, NEW l \in Launches, NEW len \in ArgLens, StageArgsFails(l, len)
  PROVE  ArgsKept'
<1>1. launch[l].stage = "unused"
  BY DEF StageArgsFails, IsNextLaunch
<1>2. PICK slot \in ArgsSlot(l, len) : TakeSlot(l, slot, slot.owner)
  BY DEF StageArgsFails
<1>3. /\ Stage(l, "failed")
      /\ UNCHANGED <<orphaned, queue, outstanding, answered, failedDma, copying, running, dram>>
  BY DEF StageArgsFails, device
<1>4. TypeOK /\ ArgsInv /\ LaunchTypes /\ MemoryInv
  BY TypesSplit DEF PlacesInv, ArgsInv
<1>5. /\ launch'[l].stage = "failed"
      /\ \A m \in Launches :
           /\ launch'[m].addr = launch[m].addr /\ launch'[m].size = launch[m].size
           /\ m # l => launch'[m].stage = launch[m].stage
  BY <1>3, <1>4, StageChanges
<1>6. \A m \in Launches : /\ KernelUnderway(m)' <=> KernelUnderway(m)
                          /\ ArgsUnderway(m)' <=> ArgsUnderway(m)
  BY <1>3, QueuedUnchanged
<1>7. SlotsTaken'
  <2>1. ASSUME NEW m \in Launches, NEW owners, SlotOf(m, owners) PROVE SlotOf(m, owners)'
    <3>1. PICK s \in slots : /\ s.owner \in owners /\ s.owner \in outstanding
                             /\ s.addr = launch[m].addr /\ launch[m].size <= s.size
      BY <2>1 DEF SlotOf
    <3>2. s \in slots'
      BY <1>2, <1>4, <3>1, SlotsInUse
    <3>3. QED
      BY <1>3, <1>5, <3>1, <3>2 DEF SlotOf
  <2>2. QED
    BY <1>3, <1>5, <1>6, <2>1 DEF ArgsKept, SlotsTaken
<1>8. ArgsFirst'
  <2>1. \A m \in Launches :
          /\ launch'[m].stage = "staged" => launch[m].stage = "staged"
          /\ launch'[m].stage = "done" =>
               launch[m].stage = "done" \/ (Args(m) \in answered /\ m \notin failedDma)
    BY <1>5
  <2>2. UNCHANGED <<queue, copying, running, answered, failedDma>> /\ ArgsFirst
    BY <1>3 DEF ArgsKept
  <2>3. QED
    BY <2>1, <2>2, ArgsFirstEnds
<1>9. ArgsThere'
  <2>1. ASSUME NEW m \in Launches, ArgsHere(m)'
        PROVE  ArgsHere(m) /\ Units(launch'[m]) = Units(launch[m])
    <3>1. Units(launch'[m]) = Units(launch[m])
      BY <1>5 DEF Units
    <3>2. QED
      BY <1>3, <1>5, <1>6, <2>1, <3>1 DEF ArgsHere
  <2>2. QED
    BY <1>3, <2>1, ArgsThereKept DEF ArgsKept
<1>10. QED
  BY <1>7, <1>8, <1>9 DEF ArgsKept

LEMMA PushLaunchKept == ASSUME PlacesInv, ArgsKept, NEW l \in Launches, PushLaunch(l) PROVE ArgsKept'
<1> DEFINE c == [cmd |-> Kernel(l), buf |-> Nobody]
           Moved(s) == IF s.owner = Args(l) THEN [s EXCEPT !.owner = Kernel(l)] ELSE s
<1>1. /\ launch[l].stage = "staged" /\ ArgsArrived(l) /\ Stage(l, "pending")
      /\ queue' = [queue EXCEPT ![launch[l].q] = Append(@, c)]
      /\ outstanding' = (IF launch[l].barrier THEN outstanding ELSE outstanding \ {Args(l)})
                        \cup {Kernel(l)}
      /\ slots' = {Moved(s) : s \in slots}
      /\ UNCHANGED <<orphaned, answered, failedDma, copying, running, dram>>
  BY DEF PushLaunch, allocator, device
<1>2. TypeOK /\ ArgsInv /\ LaunchTypes /\ QueueTypes
  BY TypesSplit DEF PlacesInv, ArgsInv
<1>3. /\ launch'[l].stage = "pending"
      /\ \A m \in Launches :
           /\ launch'[m].addr = launch[m].addr /\ launch'[m].size = launch[m].size
           /\ m # l => launch'[m].stage = launch[m].stage
  BY <1>1, <1>2, StageChanges
<1>4. ASSUME NEW d
      PROVE  /\ Queued(d)' => Queued(d) \/ d = Kernel(l)
             /\ Queued(d) => Queued(d)'
  <2>1. CASE launch[l].q \in Queues
    <3>1. PICK q \in Queues : q = launch[l].q
      BY <2>1
    <3>2. c \in [cmd : Commands, buf : Launches \cup {Nobody}] /\ c.cmd = Kernel(l)
      BY CommandsDistinct
    <3> HIDE DEF c
    <3>3. queue' = [queue EXCEPT ![q] = Append(@, c)]
      BY <1>1, <3>1
    <3>4. Queued(d)' <=> Queued(d) \/ d = c.cmd
      BY <1>2, <3>2, <3>3, QueuedAppended
    <3>5. QED
      BY <3>2, <3>4
  <2>2. CASE launch[l].q \notin Queues
    <3>1. queue' = queue
      BY <1>1, <1>2, <2>2 DEF QueueTypes
    <3>2. QED
      BY <3>1 DEF Queued
  <2>3. QED
    BY <2>1, <2>2
<1>5. ASSUME NEW s \in slots
      PROVE  /\ Moved(s).addr = s.addr /\ Moved(s).size = s.size
             /\ s.owner # Args(l) => Moved(s) = s
             /\ s.owner = Args(l) => Moved(s).owner = Kernel(l)
  <2>1. s \in [addr : Addresses, size : ArgLens, buf : Launches, owner : Commands \cup {Nobody}]
    BY <1>2, TypesSplit DEF SlotTypes
  <2>2. QED
    BY <2>1
<1> HIDE DEF c, Moved
<1>6. ASSUME NEW m \in Launches
      PROVE  /\ ArgsUnderway(m)' <=> ArgsUnderway(m)
             /\ KernelUnderway(m)' => KernelUnderway(m) \/ m = l
             /\ Queued(Kernel(m))' => Queued(Kernel(m)) \/ m = l
  BY <1>1, <1>4, CommandsDistinct DEF ArgsUnderway, KernelUnderway
<1>7. ~KernelUnderway(l)
  BY <1>1, <1>2, UnderwayBegun
<1>8. ~ArgsUnderway(l) \/ launch[l].barrier
  BY <1>1, <1>2, UnderwayBegun DEF ArgsArrived, ArgsPending
<1>9. SlotsTaken'
  <2>1. SUFFICES ASSUME ~orphaned', NEW m \in Launches
                 PROVE  /\ launch'[m].stage = "staged" => SlotOf(m, {Args(m)})'
                        /\ KernelUnderway(m)' => SlotOf(m, {Kernel(m)})'
                        /\ ArgsUnderway(m)' => SlotOf(m, {Args(m), Kernel(m)})'
    BY DEF SlotsTaken
  <2>2. CASE m = l
    <3>1. PICK s \in slots : /\ s.owner = Args(l) /\ s.addr = launch[l].addr
                             /\ launch[l].size <= s.size
      BY <1>1, <2>1 DEF ArgsKept, SlotsTaken, SlotOf
    <3>2. /\ Moved(s) \in slots' /\ Moved(s).owner = Kernel(l) /\ Kernel(l) \in outstanding'
          /\ Moved(s).addr = launch'[l].addr /\ launch'[l].size <= Moved(s).size
      BY <1>1, <1>3, <1>5, <3>1
    <3>3. SlotOf(l, {Kernel(l)})' /\ SlotOf(l, {Args(l), Kernel(l)})'
      BY <3>2 DEF SlotOf
    <3>4. QED
      BY <1>3, <2>2, <3>3
  <2>3. CASE m # l
    <3>1. ASSUME NEW owners \in SUBSET {Args(m), Kernel(m)}, SlotOf(m, owners)
          PROVE  SlotOf(m, owners)'
      <4>1. PICK s \in slots : /\ s.owner \in owners /\ s.owner \in outstanding
                               /\ s.addr = launch[m].addr /\ launch[m].size <= s.size
        BY <3>1 DEF SlotOf
      <4>2. s.owner # Args(l)
        BY <2>3, <4>1, CommandsDistinct
      <4>3. s \in slots' /\ s.owner \in outstanding'
        BY <1>1, <1>5, <4>1, <4>2
      <4>4. QED
        BY <1>3, <4>1, <4>3 DEF SlotOf
    <3>2. QED
      BY <1>1, <1>3, <1>6, <2>1, <2>3, <3>1 DEF ArgsKept, SlotsTaken
  <2>4. QED
    BY <2>2, <2>3
<1>10. ArgsFirst'
  <2> SUFFICES ASSUME NEW m \in Launches
               PROVE  /\ launch'[m].stage = "staged" \/ Queued(Kernel(m))' =>
                           ArgsUnderway(m)' \/ Args(m) \in answered'
                      /\ m \in running' => Args(m) \in answered'
                      /\ launch'[m].stage = "done" => Args(m) \in answered' /\ m \notin failedDma'
    BY DEF ArgsFirst
  <2>1. CASE m = l
    BY <1>1, <1>3, <1>6, <2>1 DEF ArgsKept, ArgsFirst
  <2>2. CASE m # l
    BY <1>1, <1>3, <1>6, <2>2 DEF ArgsKept, ArgsFirst
  <2>3. QED
    BY <2>1, <2>2
<1>11. ArgsThere'
  <2>1. ASSUME NEW m \in Launches, ArgsHere(m)'
        PROVE  ArgsHere(m) /\ Units(launch'[m]) = Units(launch[m])
    <3>1. Units(launch'[m]) = Units(launch[m])
      BY <1>3 DEF Units
    <3>2. launch[m].stage = "staged" \/ KernelUnderway(m)
      BY <1>1, <1>3, <1>6, <2>1 DEF ArgsHere
    <3>3. QED
      BY <1>1, <2>1, <3>1, <3>2 DEF ArgsHere
  <2>2. QED
    BY <1>1, <2>1, ArgsThereKept DEF ArgsKept
<1>12. QED
  BY <1>9, <1>10, <1>11 DEF ArgsKept

\* A launch that fails, ends, is dropped or gives up a tag.
LEMMA LaunchEndsKept ==
  ASSUME PlacesInv, ArgsKept, NEW l \in Launches,
         UNCHANGED <<slots, queue, copying, running, answered, failedDma, dram, orphaned>>,
         outstanding \ outstanding' \subseteq {Args(l), Kernel(l)} \cap answered,
         launch'[l].stage \in {"failed", "done", "dropped"},
         launch'[l].stage = "done" => launch[l].stage = "done" \/ (Args(l) \in answered /\ l \notin failedDma),
         \A m \in Launches :
           /\ launch'[m].addr = launch[m].addr /\ launch'[m].size = launch[m].size
           /\ m # l => launch'[m].stage = launch[m].stage
  PROVE  ArgsKept'
<1>1. SlotsTaken'
  BY SlotsTakenEnds DEF ArgsKept, PlacesInv
<1>2. ArgsFirst'
  <2>1. \A m \in Launches :
          /\ launch'[m].stage = "staged" => launch[m].stage = "staged"
          /\ launch'[m].stage = "done" =>
               launch[m].stage = "done" \/ (Args(m) \in answered /\ m \notin failedDma)
    OBVIOUS
  <2>2. QED
    BY <2>1, ArgsFirstEnds DEF ArgsKept
<1>3. ArgsThere'
  <2>1. ASSUME NEW m \in Launches, ArgsHere(m)'
        PROVE  ArgsHere(m) /\ Units(launch'[m]) = Units(launch[m])
    <3>1. KernelUnderway(m)' <=> KernelUnderway(m)
      BY QueuedUnchanged
    <3>2. QED
      BY <2>1, <3>1 DEF ArgsHere, Units
  <2>2. QED
    BY <2>1, ArgsThereKept DEF ArgsKept
<1>4. QED
  BY <1>1, <1>2, <1>3 DEF ArgsKept

LEMMA LaunchingKept ==
  ASSUME PlacesInv, ArgsKept, Launching
  PROVE  ArgsKept'
<1>1. PICK l \in Launches :
        \/ \E len \in ArgLens : \/ StageArgsFails(l, len)
                                \/ \E q \in Queues, b \in BOOLEAN : StageArgs(l, len, q, b)
        \/ PushLaunch(l) \/ PushLaunchFails(l)
        \/ WaitLaunch(l) \/ WaitLaunchFails(l) \/ DropPending(l) \/ ReleaseLate(l)
  BY DEF Launching
<1>2. CASE \E len \in ArgLens : \/ StageArgsFails(l, len)
                                \/ \E q \in Queues, b \in BOOLEAN : StageArgs(l, len, q, b)
  BY <1>2, StageArgsKept, StageArgsFailsKept
<1>3. CASE PushLaunch(l)
  BY <1>3, PushLaunchKept
<1>4. ASSUME UNCHANGED <<slots, queue, copying, running, answered, failedDma, dram, orphaned>>,
             outstanding \ outstanding' \subseteq {Args(l), Kernel(l)} \cap answered,
             NEW stage \in {"failed", "done", "dropped"}, Stage(l, stage),
             stage = "done" => Args(l) \in answered /\ l \notin failedDma
      PROVE  ArgsKept'
  <2>1. LaunchTypes
    BY TypesSplit DEF PlacesInv, ArgsInv
  <2>2. /\ launch'[l].stage = stage
        /\ \A m \in Launches :
             /\ launch'[m].addr = launch[m].addr /\ launch'[m].size = launch[m].size
             /\ m # l => launch'[m].stage = launch[m].stage
    BY <1>4, <2>1, StageChanges
  <2>3. QED
    BY <1>4, <2>2, LaunchEndsKept
<1>5. CASE PushLaunchFails(l)
  BY <1>4, <1>5 DEF PushLaunchFails, allocator, device
<1>6. CASE WaitLaunch(l)
  BY <1>4, <1>6 DEF WaitLaunch, Collected, allocator, device
<1>7. CASE WaitLaunchFails(l)
  BY <1>4, <1>7 DEF WaitLaunchFails, allocator, device
<1>8. CASE DropPending(l)
  BY <1>4, <1>8 DEF DropPending, allocator, device
<1>9. CASE ReleaseLate(l)
  <2>1. /\ launch[l].stage = "failed" /\ launch' = launch
        /\ outstanding \ outstanding' \subseteq {Args(l), Kernel(l)} \cap answered
        /\ UNCHANGED <<slots, queue, copying, running, answered, failedDma, dram, orphaned>>
    BY <1>9 DEF ReleaseLate, allocator, device
  <2>2. QED
    BY <2>1, LaunchEndsKept
<1>10. QED
  BY <1>1, <1>2, <1>3, <1>5, <1>6, <1>7, <1>8, <1>9

LEMMA NextKept ==
  ASSUME ImagesContiguous, PlacesInv, ArgsInv', ArgsKept, [Next]_vars
  PROVE  ArgsKept'
<1>1. CASE Memory
  BY <1>1, MemoryKept
<1>2. CASE Launching
  BY <1>2, LaunchingKept
<1>3. CASE Executing
  BY <1>3, ExecutingKept
<1>4. CASE UNCHANGED vars
  BY <1>4 DEF vars, ArgsKept, SlotsTaken, SlotOf, ArgsFirst, ArgsThere, ArgsHere, ArgsUnderway,
       KernelUnderway, Queued, Units
<1>5. QED
  BY <1>1, <1>2, <1>3, <1>4 DEF Next
-----------------------------------------------------------------------------
(***************************************************************************)
(* The theorems.                                                           *)
(***************************************************************************)

\* The invariant of allocator, slot table, queues and memory together.
THEOREM Inductive ==
  ASSUME ImagesContiguous
  PROVE  Spec => [](PlacesInv /\ ArgsKept)
<1>1. Init => MemoryInv /\ ArgsKept
  BY InitMemory, InitKept
<1>2. ArgsInv /\ ArgsInv' /\ MemoryInv /\ ArgsKept /\ [Next]_vars => MemoryInv' /\ ArgsKept'
  BY NextMemoryInv, NextKept DEF PlacesInv, ArgsInv
<1>3. ArgsInv /\ MemoryInv <=> PlacesInv
  BY DEF PlacesInv
<1>4. QED
  BY <1>1, <1>2, <1>3, ArgsInvariant, PTL DEF Spec

\* A running kernel finds the arguments of its own launch for as long as it runs,
\* and one whose argument DMA failed is never reported as launched.
THEOREM ArgumentsStable ==
  ASSUME ImagesContiguous
  PROVE  Spec => []ArgsStable
<1>1. PlacesInv /\ ArgsKept => ArgsStable
  <2> SUFFICES ASSUME PlacesInv, ArgsKept PROVE ArgsStable
    OBVIOUS
  <2>1. ASSUME ~orphaned, NEW l \in running \ failedDma, NEW a \in Units(launch[l])
        PROVE  dram[a] = <<"args", l>>
    <3>1. l \in Launches
      BY TypesSplit DEF PlacesInv, ArgsInv, CommandTypes
    <3>2. ArgsHere(l)
      BY <2>1, <3>1 DEF ArgsKept, ArgsFirst, ArgsHere, KernelUnderway
    <3>3. QED
      BY <3>1, <3>2 DEF ArgsKept, ArgsThere
  <2>2. \A l \in failedDma : launch[l].stage # "done"
    <3>1. failedDma \subseteq Launches
      BY TypesSplit DEF PlacesInv, ArgsInv, CommandTypes
    <3>2. QED
      BY <3>1 DEF ArgsKept, ArgsFirst
  <2>3. QED
    BY <2>1, <2>2 DEF ArgsStable
<1>2. QED
  BY <1>1, Inductive, PTL

\* Nobody writes to an allocation but its holder, nor to a loaded kernel but a
\* load that takes its place.
THEOREM HoldersWrite ==
  ASSUME ImagesContiguous
  PROVE  Spec => OnlyHolderWrites
<1> DEFINE Respected ==
      ~orphaned =>
        /\ \A r \in regions \cap regions' : \A a \in Units(r) :
             dram'[a] # dram[a] => dram'[a] = <<"region", r.id>>
        /\ \A k \in kernels \cap kernels' : \A a \in ImageUnits(k.image) : dram'[a] = dram[a]
<1>1. PlacesInv /\ ArgsKept /\ [Next]_vars => Respected
  <2> SUFFICES ASSUME PlacesInv, ArgsKept, [Next]_vars, ~orphaned
               PROVE  /\ \A r \in regions \cap regions' : \A a \in Units(r) :
                           dram'[a] # dram[a] => dram'[a] = <<"region", r.id>>
                      /\ \A k \in kernels \cap kernels' : \A a \in ImageUnits(k.image) :
                           dram'[a] = dram[a]
    OBVIOUS
  <2>1. MemoryPartitioned /\ TypeOK /\ MemoryInv
    BY PartsDisjoint DEF PlacesInv, ArgsInv
  <2>2. /\ \A r \in regions : \A a \in Units(r) : a \in Addresses
        /\ \A k \in kernels : \A a \in ImageUnits(k.image) : a \in Addresses
        /\ \A r \in regions, k \in kernels : Units(r) \cap ImageUnits(k.image) = {}
        /\ \A s \in slots : \A r \in regions : Units(s) \cap Units(r) = {}
        /\ \A s \in slots : \A k \in kernels : Units(s) \cap ImageUnits(k.image) = {}
    <3>1. \A r \in regions, k \in kernels : Units(r) \cap ImageUnits(k.image) = {}
      <4> SUFFICES ASSUME NEW r \in regions, NEW k \in kernels, NEW a \in Units(r),
                          a \in ImageUnits(k.image)
                   PROVE  FALSE
        OBVIOUS
      <4>1. r.addr \in Nat /\ r.size \in Nat /\ kernelEnd \in Nat
        BY <2>1, PlacesTyped
      <4>2. a < kernelEnd /\ a \in r.addr .. r.addr + r.size - 1
        BY <2>1, <4>1 DEF MemoryInv, CursorAbove, Units
      <4>3. r.size > 0 => kernelEnd <= r.addr
        BY <2>1 DEF MemoryInv, CursorAbove
      <4>4. QED
        BY <4>1, <4>2, <4>3
    <3>2. QED
      BY <2>1, <3>1 DEF MemoryPartitioned
  <2>3. \A r, s \in regions : \A a \in Units(r) : a \in Units(s) => r = s
    <3> SUFFICES ASSUME NEW r \in regions, NEW s \in regions, NEW a \in Units(r), a \in Units(s),
                        r # s
                 PROVE  FALSE
      OBVIOUS
    <3>1. Apart(r, s)
      BY <2>1 DEF MemoryInv, AllApart
    <3>2. r.addr \in Nat /\ r.size \in Nat /\ s.addr \in Nat /\ s.size \in Nat
      BY <2>1, PlacesTyped
    <3>3. QED
      BY <3>1, <3>2 DEF Apart, Units, End
  <2>4. CASE Memory
    <3>1. CASE UNCHANGED dram
      BY <3>1
    <3>2. ASSUME NEW s \in regions,
                 dram' = [a \in Addresses |-> IF a \in Units(s) THEN <<"region", s.id>> ELSE dram[a]]
          PROVE  /\ \A r \in regions : \A a \in Units(r) :
                      dram'[a] # dram[a] => dram'[a] = <<"region", r.id>>
                 /\ \A k \in kernels : \A a \in ImageUnits(k.image) : dram'[a] = dram[a]
      BY <2>2, <2>3, <3>2
    <3>3. ASSUME NEW written, kernels \cap kernels' \subseteq LoadedBefore(written),
                 dram' = [a \in Addresses |-> IF a \in written
                                             THEN <<"kernel", serial + 1>> ELSE dram[a]],
                 \A x \in regions \cup slots : Units(x) \cap written = {}
          PROVE  /\ \A r \in regions : \A a \in Units(r) : dram'[a] = dram[a]
                 /\ \A k \in kernels \cap kernels' : \A a \in ImageUnits(k.image) :
                      dram'[a] = dram[a]
      BY <2>2, <3>3 DEF LoadedBefore
    <3>4. QED
      BY <2>1, <2>4, <3>1, <3>2, <3>3, MemoryWrites
  <2>5. CASE Launching
    BY <2>5, LaunchingWrites
  <2>6. CASE Executing
    BY <2>2, <2>6, ExecutingWrites DEF PlacesInv, ArgsKept
  <2>7. CASE UNCHANGED vars
    BY <2>7 DEF vars
  <2>8. QED
    BY <2>4, <2>5, <2>6, <2>7 DEF Next
<1>2. [][Respected]_vars => OnlyHolderWrites
  BY PTL DEF OnlyHolderWrites
<1>3. QED
  BY <1>1, <1>2, Inductive, PTL DEF Spec
=============================================================================
