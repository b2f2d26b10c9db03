------------------------------ MODULE Staging -------------------------------
(***************************************************************************)
(* Host DMA transfers of `Device` (et-rs/src/device.rs): the staging       *)
(* buffers kept between transfers, the two pipelines that cycle through    *)
(* them, pinned buffers, and what happens to the memory when a transfer    *)
(* fails while the device may still access it.                             *)
(*                                                                         *)
(* Lengths are counted in pieces.  A chunk is what one buffer stages; a    *)
(* command moves at most CmdPieces of it (dma_max_elem_size * max_list_    *)
(* nodes in the code).  Piece i of transfer x carries the value <<x, i>>,  *)
(* and transfer x uses a device range of its own, so a byte that went      *)
(* astray shows; a fill carries <<x, 0>> in every piece.  Commands answer  *)
(* as DeviceCommands shows they do: each waiter gets the answer to its own *)
(* command or gives up.                                                    *)
(***************************************************************************)
EXTENDS Integers, Sequences, SequencesExt

CONSTANTS
  Frames,        \* DMA-capable host memory blocks, one buffer each
  Halves,        \* the values of staging_capacity / 2, in pieces
  CmdPieces,     \* pieces one DMA command can move
  Queues,        \* submission queues
  MaxTransfers,  \* bound on the number of transfers
  MaxTotal,      \* bound on the length of a transfer
  PinnedSizes,   \* lengths of pinned buffers
  Rejects,       \* which DMA commands the device may complete with an error:
                 \* "none", "any" or the "last" one of a chunk
  None           \* no buffer, no data

ASSUME StagingAssumption ==
  /\ None \notin Frames
  /\ Halves \subseteq Nat \ {0}
  /\ CmdPieces \in Nat \ {0}
  /\ MaxTransfers \in Nat
  /\ MaxTotal \in Nat \ {0}
  /\ PinnedSizes \subseteq 1 .. MaxTotal
  /\ Rejects \in {"none", "last", "any"}

VARIABLES
  half,     \* half of Device::staging_capacity
  pool,     \* Device::staging
  pinned,   \* the buffer of a caller's PinnedBuffer, or None
  mem,      \* what became of each block: unmapped, mapped or leaked
  size,     \* size of the buffer mapped in each block
  content,  \* the pieces in each block
  dram,     \* the device range the running transfer writes
  queue,    \* queue[q]: DMA commands submitted and not performed, in order
  answers,  \* completions of the running transfer not yet collected
  call      \* the transfer the host thread is in

vars == <<half, pool, pinned, mem, size, content, dram, queue, answers, call>>
hostMemory == <<pool, pinned, mem, size, half>>

Transfers == 1 .. MaxTransfers
Pieces == 0 .. MaxTotal - 1
Data == {None} \cup (Transfers \X Pieces)
Nothing == [i \in Pieces |-> None]

\* len pieces of transfer x from piece `offset` on, at the start of a buffer.
Stage(x, offset, len) == [i \in Pieces |-> IF i < len THEN <<x, offset + i>> ELSE None]
Pattern(x, len) == [i \in Pieces |-> IF i < len THEN <<x, 0>> ELSE None]

SmallerOf(a, b) == IF a < b THEN a ELSE b
Buffers == ToSet(pool) \cup ToSet(call.bufs)

(***************************************************************************)
(* The running transfer.  `pushing` is the chunk whose commands are being  *)
(* pushed, from piece `next` of it on; `done` chunks are complete;         *)
(* `pending` are the commands pushed and not collected, `awaiting` those   *)
(* await_dma has drained from it, `count` how many it is to drain next.    *)
(* `dst` is the destination of a device-to-host transfer.  `error` is      *)
(* "inflight" for Timeout, Io and Protocol errors, "definite" for the      *)
(* others.                                                                 *)
(***************************************************************************)
Idle == [stage |-> "idle", x |-> 0, dir |-> "h2d", pin |-> FALSE, total |-> 0, sq |-> None,
         bufs |-> <<>>, chunk |-> 1, index |-> 0, pushing |-> 0, next |-> 0, done |-> 0,
         count |-> 0, pending |-> <<>>, awaiting |-> <<>>, error |-> "none",
         dst |-> Nothing]

Init ==
  /\ half \in Halves
  /\ pool = <<>>
  /\ pinned = None
  /\ mem = [f \in Frames |-> "unmapped"]
  /\ size = [f \in Frames |-> 0]
  /\ content = [f \in Frames |-> Nothing]
  /\ dram = Nothing
  /\ queue = [q \in Queues |-> <<>>]
  /\ answers = {}
  /\ call = Idle

\* Transfers are numbered; an idle record keeps the number of the last one.
Started == call.x
-----------------------------------------------------------------------------
(***************************************************************************)
(* Buffers.                                                                *)
(***************************************************************************)

Unmap(fs) == mem' = [f \in Frames |-> IF f \in fs THEN "unmapped" ELSE mem[f]]
Leak(fs) == mem' = [f \in Frames |-> IF f \in fs THEN "leaked" ELSE mem[f]]

\* `set_staging_capacity`: the current buffers are released.
SetStagingCapacity(h) ==
  /\ call.stage = "idle"
  /\ half' = h
  /\ pool' = <<>>
  /\ Unmap(ToSet(pool))
  /\ UNCHANGED <<pinned, size, content, dram, queue, answers, call>>

\* `alloc_pinned`.
AllocPinned(f, len) ==
  /\ call.stage = "idle"
  /\ pinned = None
  /\ mem[f] = "unmapped"
  /\ pinned' = f
  /\ mem' = [mem EXCEPT ![f] = "mapped"]
  /\ size' = [size EXCEPT ![f] = len]
  /\ content' = [content EXCEPT ![f] = Nothing]
  /\ UNCHANGED <<half, pool, dram, queue, answers, call>>

NextPowerOfTwo(n) == CHOOSE p \in {2 ^ k : k \in 0 .. n} : n <= p /\ p < 2 * n

\* Arithmetic: what the powers of two are.
ASSUME PowersDouble ==
  2 ^ 0 = 1 /\ \A k \in 0 .. MaxTotal : 2 ^ (k + 1) = 2 * 2 ^ k

\* Drop of a PinnedBuffer.
DropPinned ==
  /\ call.stage = "idle"
  /\ pinned # None
  /\ Unmap({pinned})
  /\ pinned' = None
  /\ UNCHANGED <<half, pool, size, content, dram, queue, answers, call>>

Required == SmallerOf(call.total, half)
Needed == IF call.total > half THEN 2 ELSE 1
\* Variant: the replacement is not bounded by half the capacity.
ReplacementUnbounded == NextPowerOfTwo(Required)
ReplacementSize == SmallerOf(NextPowerOfTwo(Required), half)

\* The pool is handed to the transfer whole; buffers it lacks or that are too
\* small are then mapped one by one.
TakeStaging(dir, total, sq) ==
  /\ call.stage = "idle"
  /\ Started < MaxTransfers
  /\ LET x == Started + 1 IN
     /\ call' = [Idle EXCEPT !.stage = "take", !.x = x, !.dir = dir, !.total = total,
                             !.sq = sq, !.bufs = pool]
  /\ dram' = Nothing
  /\ pool' = <<>>
  /\ UNCHANGED <<half, pinned, mem, size, content, queue, answers>>

Holds(i) == i < Len(call.bufs) /\ size[call.bufs[i + 1]] >= Required

TakeKeep ==
  /\ call.stage = "take"
  /\ call.index < Needed
  /\ Holds(call.index)
  /\ call' = [call EXCEPT !.index = @ + 1]
  /\ UNCHANGED <<hostMemory, content, dram, queue, answers>>

\* An undersized buffer is unmapped before its replacement is mapped: the
\* driver may hand out the same block again.
Undersized == IF call.index < Len(call.bufs) THEN {call.bufs[call.index + 1]} ELSE {}
Remaining == IF Undersized = {} THEN call.bufs ELSE RemoveAt(call.bufs, call.index + 1)

TakeReplace(f) ==
  /\ call.stage = "take"
  /\ call.index < Needed
  /\ ~Holds(call.index)
  /\ mem[f] = "unmapped" \/ f \in Undersized
  /\ mem' = [g \in Frames |-> IF g = f THEN "mapped"
                              ELSE IF g \in Undersized THEN "unmapped" ELSE mem[g]]
  /\ size' = [size EXCEPT ![f] = ReplacementSize]
  /\ content' = [content EXCEPT ![f] = Nothing]
  /\ call' = [call EXCEPT !.bufs = InsertAt(Remaining, call.index + 1, f), !.index = @ + 1]
  /\ UNCHANGED <<half, pool, pinned, dram, queue, answers>>

\* The driver cannot map the replacement: the transfer fails before any DMA and
\* the buffers that are left go back to the pool.
TakeFails ==
  /\ call.stage = "take"
  /\ call.index < Needed
  /\ ~Holds(call.index)
  /\ Unmap(Undersized)
  /\ pool' = Remaining
  /\ call' = [Idle EXCEPT !.x = call.x]
  /\ UNCHANGED <<half, pinned, size, content, dram, queue, answers>>

\* `staging_chunk`: every chunk fits whichever buffer stages it.
StagingChunk == CHOOSE n \in {size[f] : f \in ToSet(call.bufs)} :
                  \A f \in ToSet(call.bufs) : n <= size[f]

TakeDone ==
  /\ call.stage = "take"
  /\ call.index = Needed
  /\ call' = [call EXCEPT !.chunk = StagingChunk,
                          !.stage = IF call.dir = "d2h" THEN "push" ELSE "produce"]
  /\ UNCHANGED <<hostMemory, content, dram, queue, answers>>

\* `pinned_transfer`: the caller's buffer is the only one, and its chunk the
\* whole of it.  The caller has written it before a host-to-device transfer.
PinnedTransfer(dir, sq) ==
  /\ call.stage = "idle"
  /\ Started < MaxTransfers
  /\ pinned # None
  /\ LET x == Started + 1 IN
     /\ call' = [Idle EXCEPT !.stage = "push", !.x = x, !.dir = dir, !.pin = TRUE,
                             !.total = size[pinned], !.sq = sq, !.bufs = <<pinned>>,
                             !.chunk = size[pinned]]
     /\ content' = IF dir = "h2d"
                   THEN [content EXCEPT ![pinned] = Stage(x, 0, size[pinned])] ELSE content
  /\ dram' = Nothing
  /\ UNCHANGED <<hostMemory, queue, answers>>
-----------------------------------------------------------------------------
(***************************************************************************)
(* The pipelines.                                                          *)
(***************************************************************************)

Offset(k) == k * call.chunk
\* Variant: the last chunk is as long as the others.
ChunkLenWhole(k) == call.chunk
ChunkLen(k) == SmallerOf(call.chunk, call.total - Offset(k))
LastChunk == (call.total - 1) \div call.chunk
\* Variant: every chunk is staged in the first buffer.
BufferOfSingle(k) == call.bufs[1]
BufferOf(k) == call.bufs[(k % Len(call.bufs)) + 1]

\* Variant: a fill writes its pattern for the first chunk only.
PatternChunksOne == 1
\* A fill writes its pattern into the first chunks only: those after them are
\* staged in buffers that hold it.
PatternChunks == 2

Produced(k) ==
  CASE call.dir = "h2d" -> Stage(call.x, Offset(k), ChunkLen(k))
    [] call.dir = "fill" /\ k < PatternChunks -> Pattern(call.x, ChunkLen(k))
    [] OTHER -> content[BufferOf(k)]

\* `h2d_pipeline` lets the caller write the next chunk into its buffer.
Produce ==
  /\ call.stage = "produce"
  /\ content' = [content EXCEPT ![BufferOf(call.pushing)] = Produced(call.pushing)]
  /\ call' = [call EXCEPT !.stage = "push", !.next = 0]
  /\ UNCHANGED <<hostMemory, dram, queue, answers>>

\* The next command of the chunk, and how it is named in the queue.
CommandLen == SmallerOf(CmdPieces, ChunkLen(call.pushing) - call.next)
Command == [x |-> call.x, dir |-> IF call.dir = "d2h" THEN "d2h" ELSE "h2d",
            buf |-> BufferOf(call.pushing), lo |-> call.next,
            len |-> CommandLen, at |-> Offset(call.pushing) + call.next,
            last |-> call.next + CommandLen = ChunkLen(call.pushing)]

\* Where the pipeline goes once a chunk is pushed: the host-to-device pipeline
\* awaits the chunk before it, the device-to-host one reads one chunk ahead.
AfterChunk(c) ==
  IF c.pushing = 1 /\ (c.dir = "d2h" \/ c.pin)
  THEN [c EXCEPT !.count = Len(c.pending), !.stage = IF LastChunk >= 1 THEN "push" ELSE "drain"]
  ELSE [c EXCEPT !.stage = "drain"]

\* `push_dma_read_staged` and `push_dma_write_staged`, one command per step.
Push ==
  /\ call.stage = "push"
  /\ queue' = [queue EXCEPT ![call.sq] = Append(@, Command)]
  /\ LET pushed == [call EXCEPT !.pending = Append(@, Command.at), !.next = @ + CommandLen] IN
     call' = IF pushed.next < ChunkLen(call.pushing) THEN pushed
             ELSE AfterChunk([pushed EXCEPT !.pushing = @ + 1, !.next = 0])
  /\ UNCHANGED <<hostMemory, content, dram, answers>>

Fail(error) == call' = [call EXCEPT !.stage = "restore", !.error = error]

\* The queue stays full or the transport fails ("inflight"), or no tag is free.
PushFails ==
  /\ call.stage = "push"
  /\ \E error \in {"inflight", "definite"} : Fail(error)
  /\ UNCHANGED <<hostMemory, content, dram, queue, answers>>

\* `await_dma` takes the first `count` tags out of `pending` at once.
Drain ==
  /\ call.stage = "drain"
  /\ call' = [call EXCEPT !.stage = "await",
                          !.awaiting = SubSeq(call.pending, 1, call.count),
                          !.pending = SubSeq(call.pending, call.count + 1, Len(call.pending))]
  /\ UNCHANGED <<hostMemory, content, dram, queue, answers>>

\* The oldest drained command has completed: go on, or fail with its status.
Collect ==
  /\ call.stage = "await"
  /\ call.awaiting # <<>>
  /\ \E a \in answers :
       /\ a.at = Head(call.awaiting)
       /\ IF a.ok THEN call' = [call EXCEPT !.awaiting = Tail(@)] ELSE Fail("definite")
       /\ answers' = answers \ {a}
  /\ UNCHANGED <<hostMemory, content, dram, queue>>

\* The wait times out, the transport fails, or the response is unreadable.
WaitFails ==
  /\ call.stage = "await"
  /\ call.awaiting # <<>>
  /\ Fail("inflight")
  /\ UNCHANGED <<hostMemory, content, dram, queue, answers>>

\* Variant: the chunk is copied out of the buffer of the one after it.
CopyOutNext(k) ==
  [i \in Pieces |-> IF i \in Offset(k) .. Offset(k) + ChunkLen(k) - 1
                    THEN content[BufferOf(k + 1)][i - Offset(k)] ELSE call.dst[i]]
CopyOut(k) ==
  [i \in Pieces |-> IF i \in Offset(k) .. Offset(k) + ChunkLen(k) - 1
                    THEN content[BufferOf(k)][i - Offset(k)] ELSE call.dst[i]]

\* Everything drained is collected.  A device-to-host transfer copies the chunk
\* out, and both go on to the next chunk or to what is still pending.
AwaitDone ==
  /\ call.stage = "await"
  /\ call.awaiting = <<>>
  /\ LET more == call.pushing <= LastChunk
         stage == CASE more -> IF call.dir = "d2h" THEN "push" ELSE "produce"
                    [] ~more /\ call.pending # <<>> -> "drain"
                    [] OTHER -> "restore"
     IN call' = [call EXCEPT !.stage = stage, !.count = Len(call.pending), !.done = @ + 1,
                             !.dst = IF call.dir = "d2h" THEN CopyOut(call.done) ELSE @]
  /\ UNCHANGED <<hostMemory, content, dram, queue, answers>>
-----------------------------------------------------------------------------
(***************************************************************************)
(* Returning the buffers.                                                  *)
(***************************************************************************)

\* Variant: a command that was pushed and never collected is overlooked.
MayBeInFlightIgnoringPending == call.error = "inflight"
\* Variant: a wait that timed out is taken for a completed command.
MayBeInFlightIgnoringTimeout == call.error = "definite" /\ call.pending # <<>>
\* `dma_may_be_in_flight`, or uncollected commands in `pending`.
MayBeInFlight == call.error = "inflight" \/ (call.error # "none" /\ call.pending # <<>>)

\* Variant: the caller's PinnedBuffer keeps the leaked mapping.
EmptyPinnedNever == UNCHANGED pinned
EmptyPinned == pinned' = IF call.pin THEN None ELSE pinned

\* `restore_staging`, and the end of `pinned_transfer`: commands in `pending`
\* are abandoned; buffers the device may still access are leaked.
Restore ==
  /\ call.stage = "restore"
  /\ IF MayBeInFlight
     THEN /\ Leak(ToSet(call.bufs))
          /\ EmptyPinned
          /\ UNCHANGED pool
     ELSE /\ pool' = IF call.pin THEN pool ELSE call.bufs
          /\ UNCHANGED <<mem, pinned>>
  /\ call' = [Idle EXCEPT !.x = call.x]
  /\ answers' = {}
  /\ UNCHANGED <<half, size, content, dram, queue>>
-----------------------------------------------------------------------------
(***************************************************************************)
(* The device.  Every command carries BARRIER, so a queue performs its     *)
(* commands one after the other; queues are independent.  A command fails  *)
(* without moving anything.                                                *)
(***************************************************************************)

\* Variant: a completion that arrives before it is awaited is dropped.
CompletionsUnparked(k) == k.at \in ToSet(call.awaiting)
\* Completions of earlier transfers have no waiter any more.
HasWaiter(k) == k.x = call.x /\ call.stage # "idle"

Move(k) ==
  IF k.dir = "h2d"
  THEN /\ dram' = IF ~HasWaiter(k) THEN dram
                  ELSE [i \in Pieces |-> IF i \in k.at .. k.at + k.len - 1
                                         THEN content[k.buf][k.lo + i - k.at] ELSE dram[i]]
       /\ UNCHANGED content
  ELSE /\ content' = [content EXCEPT ![k.buf] =
                        [i \in Pieces |-> IF i \in k.lo .. k.lo + k.len - 1
                                          THEN <<k.x, k.at + i - k.lo>> ELSE @[i]]]
       /\ UNCHANGED dram

Complete(q, ok) ==
  LET k == Head(queue[q]) IN
  /\ queue[q] # <<>>
  /\ queue' = [queue EXCEPT ![q] = Tail(@)]
  /\ IF ok THEN Move(k) ELSE UNCHANGED <<content, dram>>
  /\ answers' = IF HasWaiter(k) THEN answers \cup {[at |-> k.at, ok |-> ok]} ELSE answers
  /\ UNCHANGED <<hostMemory, call>>

Perform(q) == Complete(q, TRUE)
Reject(q) ==
  /\ Complete(q, FALSE)
  /\ Rejects = "any" \/ (Rejects = "last" /\ Head(queue[q]).last)
-----------------------------------------------------------------------------
Begin ==
  \/ \E h \in Halves : SetStagingCapacity(h)
  \/ (\E f \in Frames, len \in PinnedSizes : AllocPinned(f, len)) \/ DropPinned
  \/ \E dir \in {"h2d", "fill", "d2h"}, total \in 1 .. MaxTotal, q \in Queues : TakeStaging(dir, total, q)
  \/ \E dir \in {"h2d", "d2h"}, q \in Queues : PinnedTransfer(dir, q)

Continue ==
  \/ TakeKeep \/ (\E f \in Frames : TakeReplace(f)) \/ TakeFails \/ TakeDone
  \/ Produce \/ Push \/ Drain \/ Collect \/ AwaitDone \/ Restore

Next ==
  \/ Begin \/ Continue \/ PushFails \/ WaitFails
  \/ \E q \in Queues : Perform(q) \/ Reject(q)

Spec == Init /\ [][Next]_vars

\* The host thread runs, and the firmware works through its queues; transfers
\* have no deadline by default, so failing is never forced.
FairSpec ==
  /\ Spec
  /\ WF_vars(Continue)
  /\ \A q \in Queues : WF_vars(Perform(q) \/ Reject(q))
-----------------------------------------------------------------------------
(***************************************************************************)
(* Properties.                                                             *)
(***************************************************************************)

\* Commands, completions and buffers stay within the transfer: in particular no
\* chunk reaches beyond the transfer's last piece.
TypeOK ==
  /\ half \in Halves
  /\ pool \in Seq(Frames)
  /\ pinned \in Frames \cup {None}
  /\ mem \in [Frames -> {"unmapped", "mapped", "leaked"}]
  /\ size \in [Frames -> Nat]
  /\ content \in [Frames -> [Pieces -> Data]]
  /\ dram \in [Pieces -> Data]
  /\ queue \in [Queues -> Seq([x : Transfers, dir : {"h2d", "d2h"}, buf : Frames,
                               lo : Pieces, len : 1 .. MaxTotal, at : Pieces,
                               last : BOOLEAN])]
  /\ answers \subseteq [at : Pieces, ok : BOOLEAN]
  /\ call.pending \in Seq(Pieces) /\ call.awaiting \in Seq(Pieces)
  /\ call.bufs \in Seq(Frames) /\ call.dst \in [Pieces -> Data]

\* The device only ever accesses memory that is held for the transfer that
\* submitted the command, or that was leaked for good: never a buffer another
\* transfer uses, the pool keeps, or the driver has got back.
DmaOnlyIntoHeldMemory ==
  \A q \in Queues : \A k \in ToSet(queue[q]) :
    \/ mem[k.buf] = "leaked"
    \/ k.x = call.x /\ k.buf \in ToSet(call.bufs)

\* A transfer that reports success has moved every piece, to its place and from
\* its place, however the two buffers alternate: no buffer is refilled before the
\* device has read it, nor copied out of before the device has written it.  A
\* fill leaves its pattern everywhere, also where it staged nothing.
DataIntact ==
  TypeOK /\ (call.stage = "restore" /\ call.error = "none" =>
    \A i \in 0 .. call.total - 1 :
      CASE call.dir = "h2d" -> dram[i] = <<call.x, i>>
        [] call.dir = "fill" -> dram[i] = <<call.x, 0>>
        [] call.dir = "d2h" -> call.dst[i] = <<call.x, i>>)

\* No mapping is lost track of, also when mapping a replacement fails half-way:
\* the mapped blocks are those of the pool, the transfer and the pinned buffer.
MappingsAccounted ==
  /\ {f \in Frames : mem[f] = "mapped"} = Buffers \cup ({pinned} \ {None})
  /\ IsInjective(pool \o call.bufs)
  /\ call.pin \/ pinned \notin Buffers

\* The staging buffers together never exceed the staging capacity.
CapacityRespected ==
  LET staged == IF call.pin THEN pool ELSE pool \o call.bufs
  IN FoldLeft(LAMBDA sum, f : sum + size[f], 0, staged) <= 2 * half

\* Every transfer returns: no completion it waits for is lost between the two
\* chunks in flight.
TransfersReturn == call.stage # "idle" ~> call.stage = "idle"
=============================================================================
