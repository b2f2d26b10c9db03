--------------------------- MODULE Staging_proof ----------------------------
(***************************************************************************)
(* Proofs about Staging, for any number of memory blocks and queues, and   *)
(* for transfers, buffers and commands of any length.                      *)
(***************************************************************************)
EXTENDS Staging, SequenceTheorems, FiniteSetTheorems, TLAPS

(***************************************************************************)
(* The inductive invariant, first layer: the host memory.                  *)
(***************************************************************************)

Stages == {"idle", "take", "produce", "push", "drain", "await", "restore"}
\* The buffers are there and the commands of the transfer may be under way.
Moving == call.stage \in {"produce", "push", "drain", "await", "restore"}

Fields ==
  /\ DOMAIN call = DOMAIN Idle
  /\ call.stage \in Stages /\ call.x \in 0 .. MaxTransfers /\ call.dir \in {"h2d", "fill", "d2h"}
  /\ call.pin \in BOOLEAN /\ call.total \in 0 .. MaxTotal /\ call.bufs \in Seq(Frames)
  /\ call.chunk \in Nat /\ call.index \in Nat /\ call.pushing \in Nat /\ call.next \in Nat
  /\ call.done \in Nat /\ call.count \in Nat /\ call.pending \in Seq(Nat)
  /\ call.awaiting \in Seq(Nat) /\ call.error \in {"none", "inflight", "definite"}

Memory ==
  /\ half \in Halves
  /\ pool \in Seq(Frames)
  /\ pinned \in Frames \cup {None}
  /\ mem \in [Frames -> {"unmapped", "mapped", "leaked"}]
  /\ size \in [Frames -> Nat]
  /\ Fields

\* What the host thread is in the middle of.
Phases ==
  /\ call.stage = "idle" => call = [Idle EXCEPT !.x = call.x]
  /\ call.stage # "idle" => call.total > 0 /\ call.x \in Transfers /\ call.sq \in Queues
  /\ call.stage # "restore" => call.error = "none"
  /\ call.stage = "take" =>
       /\ ~call.pin /\ call.pending = <<>> /\ call.awaiting = <<>>
       /\ call.pushing = 0 /\ call.next = 0 /\ call.done = 0 /\ call.count = 0
       /\ call.index <= Needed /\ call.index <= Len(call.bufs)
  /\ Moving => call.chunk > 0 /\ call.bufs # <<>>
               /\ (Len(call.bufs) = 1 => call.total <= call.chunk)
  /\ call.pin => /\ Moving /\ call.dir \in {"h2d", "d2h"}
                 /\ pinned \in Frames /\ call.bufs = <<pinned>>
  /\ ~call.pin => call.stage = "idle" \/ pool = <<>>

Distinct(s) == \A i, j \in DOMAIN s : s[i] = s[j] => i = j

\* The mappings are those of the pool, the transfer and the pinned buffer; the
\* pool and the transfer have two at most, none larger than half the capacity.
Mappings ==
  /\ \A f \in Frames : mem[f] = "mapped" <=> f \in Buffers \cup {pinned}
  /\ Distinct(pool) /\ Distinct(call.bufs) /\ Len(pool) <= 2 /\ Len(call.bufs) <= 2
  /\ pinned \notin ToSet(pool) /\ (~call.pin => pinned \notin ToSet(call.bufs))
  /\ pinned # None => size[pinned] \in PinnedSizes
  /\ \A f \in ToSet(pool) : size[f] \in 1 .. half
  /\ ~call.pin => \A f \in ToSet(call.bufs) : size[f] \in 1 .. half
  /\ call.stage = "take" =>
       \A i \in 1 .. Len(call.bufs) : i <= call.index => size[call.bufs[i]] >= Required

HostMemory == Memory /\ Phases /\ Mappings

(***************************************************************************)
(* Second layer: the commands.  A tag stands for a command that was pushed *)
(* and not collected; `pending` holds those of the older of two chunks     *)
(* first, then those of the chunk after it.                                *)
(***************************************************************************)

\* The first piece that no command covers yet.
Pushed == Offset(call.pushing) + call.next

Older == {call.pending[i] : i \in {j \in 1 .. Len(call.pending) : call.stage # "await" /\ j <= call.count}}
Newer == {call.pending[i] : i \in {j \in 1 .. Len(call.pending) : call.stage = "await" \/ j > call.count}}
Outstanding == ToSet(call.awaiting) \cup ToSet(call.pending)

\* No tag of the same chunk comes after t, and none will.
EndsChunk(t) ==
  /\ \A tags \in {ToSet(call.awaiting), Older, Newer} : t \in tags => \A u \in tags : u <= t
  /\ call.stage \in {"produce", "push"} => t \notin Newer

Pushing ==
  /\ call.stage \in {"produce", "push"} =>
       call.next < call.chunk /\ Pushed < call.total /\ call.awaiting = <<>>
  /\ call.stage \in {"produce", "drain", "await"} => call.next = 0
  /\ call.stage = "drain" => call.awaiting = <<>>
  /\ call.stage \in {"produce", "push", "drain"} => call.count <= Len(call.pending)
  /\ call.stage = "produce" => call.count = Len(call.pending)
  /\ call.stage = "push" /\ call.pushing = 0 => call.count = 0
  /\ Moving => \A t \in Outstanding : t < Pushed /\ t < call.total
  /\ call.stage = "restore" /\ call.error = "none" => call.awaiting = <<>> /\ call.pending = <<>>

CommandSet == [x : Transfers, dir : {"h2d", "d2h"}, buf : Frames, lo : Pieces,
               len : 1 .. MaxTotal, at : Pieces, last : BOOLEAN]

CommandTypes ==
  /\ queue \in [Queues -> Seq(CommandSet)]
  /\ answers \subseteq [at : Pieces, ok : BOOLEAN]

\* A queue holds the commands of a transfer in the order of their places.
Ordered ==
  \A q \in Queues : \A i, j \in 1 .. Len(queue[q]) :
    j < i /\ queue[q][j].x = queue[q][i].x => queue[q][j].at < queue[q][i].at

\* A command somebody waits for: its tag was not collected, and comes after
\* those answered.  If its transfer failed and may not leak its memory, then
\* the command is still pending.
Due(q, k) ==
  /\ q = call.sq /\ k.buf \in ToSet(call.bufs) /\ k.at \in Outstanding
  /\ k.last => EndsChunk(k.at)
  /\ \A a \in answers : a.at < k.at
  /\ call.stage = "restore" /\ call.error # "inflight" => k.at \in ToSet(call.pending)

\* The other commands, of earlier transfers, go to memory leaked for good.
Held ==
  \A q \in Queues : \A k \in ToSet(queue[q]) :
    /\ k.x <= call.x
    /\ HasWaiter(k) => Due(q, k)
    /\ ~HasWaiter(k) => mem[k.buf] = "leaked"

\* Each command is answered once, and only the last of a chunk with an error.
Answered ==
  /\ \A a \in answers : a.at < Pushed /\ (~a.ok => EndsChunk(a.at))
  /\ \A a, b \in answers : a.at = b.at => a = b
  /\ call.stage \in {"idle", "take"} => answers = {}

Commands == CommandTypes /\ Ordered /\ Held /\ Answered

Transfer == HostMemory /\ Pushing /\ Commands

(***************************************************************************)
(* Third layer: the data.                                                  *)
(***************************************************************************)

\* The pipeline is at work.
Running == call.stage \in {"produce", "push", "drain", "await"}

\* The chunk `Newer` belongs to, unless it is the first.
ReadsAhead == call.dir = "d2h" \/ call.pin
Base == IF ReadsAhead THEN call.done + 1 ELSE call.done

Chunks ==
  Running =>
    /\ ReadsAhead => call.stage # "produce"
    /\ call.stage \in {"produce", "push"} =>
         call.pushing = Base \/ (ReadsAhead /\ call.pushing = 0 /\ call.done = 0)
    /\ call.stage \in {"drain", "await"} =>
         \/ call.pushing = Base + 1 /\ (call.dir = "d2h" => Newer # {})
         \/ call.pushing = Base /\ Offset(Base) >= call.total
    /\ \A t \in ToSet(call.awaiting) \cup Older : t + call.chunk >= Offset(Base)
    /\ \A t \in Newer : t >= Offset(Base) \/ call.pushing = 0

\* What the transfer moves to, or from, piece i of the device range, and where
\* the buffers hold it.
Payload(i) == IF call.dir = "fill" THEN <<call.x, 0>> ELSE <<call.x, i>>
InChunk(c, i) == i < call.total /\ Offset(c) <= i /\ i < Offset(c) + call.chunk
Staged(c, i) == content[BufferOf(c)][i - Offset(c)]

\* The commands of the running transfer that are still queued.
Waited == {k \in UNION {ToSet(queue[q]) : q \in Queues} : HasWaiter(k)}
Covers(k, i) == k.at <= i /\ i < k.at + k.len

\* A queued command stays within the transfer and its chunk; what it is to send
\* is in its buffer.
CommandData ==
  Running => \A k \in Waited :
    /\ k.dir = "d2h" <=> call.dir = "d2h"
    /\ k.at + k.len <= call.total /\ k.lo + k.len <= call.chunk
    /\ \E c \in 0 .. call.pushing :
         /\ k.at = Offset(c) + k.lo /\ k.buf = BufferOf(c)
         /\ call.dir # "d2h" => \A i \in Pieces : Covers(k, i) => Staged(c, i) = Payload(i)

\* The chunk whose commands are being pushed is in its buffer, and the pattern
\* of a fill stays there.
StagedData ==
  Running /\ call.dir # "d2h" =>
    /\ call.stage = "push" => \A i \in Pieces : InChunk(call.pushing, i) => Staged(call.pushing, i) = Payload(i)
    /\ call.dir = "fill" =>
         \A c \in 0 .. 1 : c < call.pushing \/ (c = call.pushing /\ call.stage = "push") =>
           \A n \in Pieces : n < ChunkLen(c) => content[BufferOf(c)][n] = <<call.x, 0>>

\* A piece is on its way if a queued command covers it, or one that may have
\* covered it was answered with an error that the host has yet to see.
Refused(i) == \E a \in answers : ~a.ok /\ a.at \in Outstanding /\ a.at <= i
OnItsWay(i) == (\E k \in Waited : Covers(k, i)) \/ Refused(i)

\* A download has reached the buffer it is copied out of next, or after that.
Arrived(i) == \E c \in {call.done, call.done + 1} : InChunk(c, i) /\ Staged(c, i) = <<call.x, i>>

MovedData ==
  Moving /\ call.error = "none" =>
    /\ call.dir # "d2h" =>
         \A i \in Pieces : i < call.total /\ i < Pushed => dram[i] = Payload(i) \/ OnItsWay(i)
    /\ call.dir = "d2h" =>
         \A i \in Pieces : i < call.total =>
           /\ i < Offset(call.done) => call.dst[i] = <<call.x, i>>
           /\ Offset(call.done) <= i /\ i < Pushed => Arrived(i) \/ OnItsWay(i)
    /\ call.stage = "restore" =>
         Pushed >= call.total /\ (call.dir = "d2h" => Offset(call.done) >= call.total)

DataTypes ==
  /\ content \in [Frames -> [Pieces -> Data]]
  /\ dram \in [Pieces -> Data]
  /\ call.dst \in [Pieces -> Data]
  /\ \A q \in Queues : \A k \in ToSet(queue[q]) : k.at + k.len <= MaxTotal /\ k.lo <= k.at

Moved == DataTypes /\ Chunks /\ CommandData /\ StagedData /\ MovedData

IInv == Transfer /\ Moved
-----------------------------------------------------------------------------
(***************************************************************************)
(* The host memory.                                                        *)
(***************************************************************************)
LEMMA Typed ==
  /\ None \notin Frames /\ Halves \subseteq Nat \ {0} /\ CmdPieces \in Nat \ {0}
  /\ MaxTransfers \in Nat /\ MaxTotal \in Nat \ {0} /\ PinnedSizes \subseteq 1 .. MaxTotal
BY StagingAssumption

\* What a transfer keeps while its buffers are in use.
Kept == <<call.x, call.dir, call.pin, call.total, call.sq, call.bufs, call.chunk, call.index>>

LEMMA Advances ==
  ASSUME HostMemory, Moving, Fields', UNCHANGED hostMemory, UNCHANGED Kept, Moving',
         call'.stage # "restore" => call'.error = "none"
  PROVE  HostMemory'
<1>1. /\ pool' = pool /\ pinned' = pinned /\ mem' = mem /\ size' = size /\ half' = half
      /\ call'.x = call.x /\ call'.pin = call.pin /\ call'.total = call.total /\ call'.sq = call.sq
      /\ call'.bufs = call.bufs /\ call'.chunk = call.chunk /\ call'.dir = call.dir
  BY DEF hostMemory, Kept
<1>2. Memory'
  BY <1>1 DEF HostMemory, Memory
<1>3. Phases'
  BY <1>1 DEF HostMemory, Phases, Moving
<1>4. Mappings'
  BY <1>1 DEF HostMemory, Mappings, Moving, Buffers
<1>5. QED
  BY <1>2, <1>3, <1>4 DEF HostMemory

LEMMA SubSequence ==
  ASSUME NEW S, NEW s \in Seq(S), NEW m \in Nat, NEW n \in Nat, m <= n, n <= Len(s)
  PROVE  /\ SubSeq(s, m + 1, n) \in Seq(S) /\ Len(SubSeq(s, m + 1, n)) = n - m
         /\ \A i \in 1 .. n - m : SubSeq(s, m + 1, n)[i] = s[m + i]
<1>1. PICK first \in Int : first = m + 1
  OBVIOUS
<1>2. \A i \in first .. n : s[i] \in S
  BY <1>1
<1>3. QED
  BY <1>1, <1>2, SubSeqProperties

LEMMA ProduceFields ==
  ASSUME Fields, Produce
  PROVE  /\ Fields' /\ call.stage = "produce" /\ call'.stage = "push" /\ call'.next = 0
         /\ UNCHANGED <<Kept, call.pushing, call.done, call.count, call.pending, call.awaiting,
                        call.error, call.dst>>
BY DEF Produce, Fields, Idle, Stages, Kept

LEMMA FailFields ==
  ASSUME NEW e \in {"inflight", "definite"}, Fields, Fail(e)
  PROVE  /\ Fields' /\ call'.stage = "restore" /\ call'.error = e
         /\ UNCHANGED <<Kept, call.pushing, call.next, call.done, call.count, call.pending,
                        call.awaiting, call.dst>>
BY DEF Fail, Fields, Idle, Stages, Kept

LEMMA DrainFields ==
  ASSUME Fields, Drain, call.count <= Len(call.pending)
  PROVE  /\ Fields' /\ call.stage = "drain" /\ call'.stage = "await"
         /\ call'.awaiting = SubSeq(call.pending, 1, call.count)
         /\ call'.pending = SubSeq(call.pending, call.count + 1, Len(call.pending))
         /\ UNCHANGED <<Kept, call.pushing, call.next, call.done, call.count, call.error, call.dst>>
<1>1. /\ SubSeq(call.pending, 1, call.count) \in Seq(Nat)
      /\ SubSeq(call.pending, call.count + 1, Len(call.pending)) \in Seq(Nat)
  <2>1. call.pending \in Seq(Nat) /\ call.count \in Nat /\ Len(call.pending) \in Nat
    BY DEF Fields
  <2>2. SubSeq(call.pending, 0 + 1, call.count) \in Seq(Nat)
    BY <2>1, SubSequence
  <2>3. QED
    BY <2>1, <2>2, SubSequence
<1>2. QED
  BY <1>1 DEF Drain, Fields, Idle, Stages, Kept

\* The chunk being pushed, and its next command.
LEMMA OffsetTyped ==
  ASSUME Fields, NEW k \in Nat
  PROVE  Offset(k) \in Nat /\ Offset(k + 1) = Offset(k) + call.chunk
<1>1. PICK c \in Nat : c = call.chunk
  BY DEF Fields
<1>2. k * c \in Nat /\ (k + 1) * c = k * c + c
  OBVIOUS
<1>3. QED
  BY <1>1, <1>2 DEF Offset

LEMMA CommandFacts ==
  ASSUME Fields, call.next < call.chunk, Pushed < call.total
  PROVE  /\ Offset(call.pushing) \in Nat /\ Pushed \in Nat
         /\ ChunkLen(call.pushing) \in Nat /\ ChunkLen(call.pushing) <= call.chunk
         /\ Offset(call.pushing) + ChunkLen(call.pushing) <= call.total
         /\ ChunkLen(call.pushing) < call.chunk =>
              Offset(call.pushing) + ChunkLen(call.pushing) = call.total
         /\ CommandLen \in 1 .. call.total /\ CommandLen \in Nat /\ CommandLen <= CmdPieces
         /\ call.next + CommandLen <= ChunkLen(call.pushing)
<1>0. PICK o \in Nat, t \in Nat, c \in Nat, n \in Nat, cmd \in Nat :
        /\ o = Offset(call.pushing) /\ t = call.total /\ c = call.chunk /\ n = call.next
        /\ cmd = CmdPieces /\ cmd > 0 /\ n < c /\ o + n < t
  <2>1. Offset(call.pushing) \in Nat
    BY OffsetTyped DEF Fields
  <2>2. QED
    BY SMTT(30), <2>1, Typed DEF Fields, Pushed
<1>1. PICK l \in Int : l = IF c < t - o THEN c ELSE t - o
  OBVIOUS
<1>2. l = ChunkLen(call.pushing) /\ Pushed = o + n
  BY <1>0, <1>1 DEF ChunkLen, SmallerOf, Pushed
<1>3. l \in Nat /\ n < l /\ l <= c /\ o + l <= t /\ (l < c => o + l = t)
  BY <1>0, <1>1
<1>4. PICK m \in Int : m = IF cmd < l - n THEN cmd ELSE l - n
  OBVIOUS
<1>5. m = CommandLen
  BY <1>0, <1>2, <1>4 DEF CommandLen, SmallerOf
<1>6. m \in 1 .. t /\ m <= cmd /\ n + m <= l
  BY <1>0, <1>3, <1>4
<1>7. QED
  BY <1>0, <1>2, <1>3, <1>5, <1>6

LEMMA PushFields ==
  ASSUME Fields, Push, call.next < call.chunk, Pushed < call.total
  PROVE  /\ Fields' /\ call.stage = "push"
         /\ call'.pending = Append(call.pending, Pushed)
         /\ UNCHANGED <<Kept, call.done, call.awaiting, call.error, call.dst>>
         /\ \/ /\ call.next + CommandLen < ChunkLen(call.pushing)
               /\ call'.stage = "push" /\ call'.next = call.next + CommandLen
               /\ UNCHANGED <<call.pushing, call.count>>
            \/ /\ call.next + CommandLen = ChunkLen(call.pushing)
               /\ call'.pushing = call.pushing + 1 /\ call'.next = 0
               /\ \/ /\ call.pushing = 0 /\ (call.dir = "d2h" \/ call.pin)
                     /\ call'.count = Len(call'.pending)
                     /\ call'.stage = IF LastChunk >= 1 THEN "push" ELSE "drain"
                  \/ /\ ~(call.pushing = 0 /\ (call.dir = "d2h" \/ call.pin))
                     /\ call'.count = call.count /\ call'.stage = "drain"
<1> DEFINE len == CommandLen
           pending == Append(call.pending, Pushed)
           pushed == [call EXCEPT !.pending = Append(@, Command.at), !.next = @ + CommandLen]
           chunk == [pushed EXCEPT !.pushing = @ + 1, !.next = 0]
<1>1. Pushed \in Nat /\ len \in Nat /\ call.next + len <= ChunkLen(call.pushing)
      /\ ChunkLen(call.pushing) \in Nat /\ call.next \in Nat /\ call.next + len \in Nat
  <2>1. call.next \in Nat /\ call.total \in Nat
    BY Typed DEF Fields
  <2>2. QED
    BY <2>1, CommandFacts
<1>2. Command.at = Pushed
  BY DEF Command, Pushed
<1>3. pending \in Seq(Nat) /\ Len(pending) \in Nat
  BY SMTT(30), <1>1 DEF Fields
<1>4. pushed = [call EXCEPT !.pending = pending, !.next = call.next + len]
  BY <1>2 DEF Fields, Idle
<1>5. call.stage = "push" /\ call' = IF pushed.next < ChunkLen(call.pushing) THEN pushed
                                     ELSE AfterChunk(chunk)
  BY DEF Push
<1> HIDE DEF len, pending, pushed, chunk
<1>6. /\ pushed.next = call.next + len /\ pushed.pending = pending /\ DOMAIN pushed = DOMAIN Idle
      /\ pushed.stage = "push" /\ pushed.pushing = call.pushing /\ pushed.done = call.done
      /\ pushed.count = call.count /\ pushed.awaiting = call.awaiting /\ pushed.error = call.error
      /\ pushed.dst = call.dst /\ pushed.x = call.x /\ pushed.dir = call.dir /\ pushed.pin = call.pin
      /\ pushed.total = call.total /\ pushed.sq = call.sq /\ pushed.bufs = call.bufs
      /\ pushed.chunk = call.chunk /\ pushed.index = call.index
  BY <1>4, <1>5 DEF Fields, Idle
<1>7. CASE call.next + len < ChunkLen(call.pushing)
  <2>1. call' = pushed
    BY <1>5, <1>6, <1>7
  <2>2. /\ DOMAIN call' = DOMAIN Idle /\ call'.pending = pending /\ call'.stage = "push" /\ call'.next = call.next + len
        /\ UNCHANGED <<call.done, call.awaiting, call.error, call.dst, call.pushing, call.count>>
    BY <1>6, <2>1
  <2>3. UNCHANGED Kept
    BY <1>6, <2>1 DEF Kept
  <2>4. Fields'
    BY <1>1, <1>3, <2>2, <2>3 DEF Fields, Stages, Kept
  <2>5. QED
    BY <1>5, <1>7, <2>2, <2>3, <2>4 DEF len, pending
<1>8. CASE ~(call.next + len < ChunkLen(call.pushing))
  <2>1. call' = AfterChunk(chunk) /\ call.next + len = ChunkLen(call.pushing)
    <3>1. call.next + len = ChunkLen(call.pushing)
      BY <1>1, <1>8
    <3>2. QED
      BY <1>5, <1>6, <1>8, <3>1
  <2>2. /\ chunk.next = 0 /\ chunk.pending = pending /\ DOMAIN chunk = DOMAIN Idle
        /\ chunk.stage = "push" /\ chunk.pushing = call.pushing + 1 /\ chunk.done = call.done
        /\ chunk.count = call.count /\ chunk.awaiting = call.awaiting /\ chunk.error = call.error
        /\ chunk.dst = call.dst /\ chunk.x = call.x /\ chunk.dir = call.dir /\ chunk.pin = call.pin
        /\ chunk.total = call.total /\ chunk.sq = call.sq /\ chunk.bufs = call.bufs
        /\ chunk.chunk = call.chunk /\ chunk.index = call.index
    BY <1>6 DEF Idle, chunk
  <2>3. chunk.pushing = 1 <=> call.pushing = 0
    BY <2>2 DEF Fields
  <2>4. CASE call.pushing = 0 /\ (call.dir = "d2h" \/ call.pin)
    <3>1. call' = [chunk EXCEPT !.count = Len(pending), !.stage = IF LastChunk >= 1 THEN "push" ELSE "drain"]
      BY <2>1, <2>2, <2>3, <2>4 DEF AfterChunk
    <3>2. (IF LastChunk >= 1 THEN "push" ELSE "drain") \in {"push", "drain"}
      OBVIOUS
    <3>3. /\ call'.next = 0 /\ call'.pending = pending /\ DOMAIN call' = DOMAIN Idle
          /\ call'.stage = (IF LastChunk >= 1 THEN "push" ELSE "drain")
          /\ call'.pushing = call.pushing + 1 /\ call'.count = Len(pending)
          /\ UNCHANGED <<call.done, call.awaiting, call.error, call.dst>>
      BY <2>2, <3>1 DEF Idle
    <3>4. UNCHANGED Kept
      BY <2>2, <3>1 DEF Kept, Idle
    <3>5. Fields'
      BY SMTT(30), <1>3, <3>2, <3>3, <3>4 DEF Fields, Stages, Kept
    <3>6. QED
      BY <1>5, <2>1, <2>4, <3>3, <3>4, <3>5 DEF len, pending
  <2>5. CASE ~(call.pushing = 0 /\ (call.dir = "d2h" \/ call.pin))
    <3>1. call' = [chunk EXCEPT !.stage = "drain"]
      BY <2>1, <2>2, <2>3, <2>5 DEF AfterChunk
    <3>2. /\ call'.next = 0 /\ call'.pending = pending /\ DOMAIN call' = DOMAIN Idle
          /\ call'.stage = "drain" /\ call'.pushing = call.pushing + 1
          /\ UNCHANGED <<call.done, call.count, call.awaiting, call.error, call.dst>>
      BY <2>2, <3>1 DEF Idle
    <3>3. UNCHANGED Kept
      BY <2>2, <3>1 DEF Kept, Idle
    <3>4. Fields'
      BY SMTT(30), <1>3, <3>2, <3>3 DEF Fields, Stages, Kept
    <3>5. QED
      BY <1>5, <2>1, <2>5, <3>2, <3>3, <3>4 DEF len, pending
  <2>6. QED
    BY <2>4, <2>5
<1>9. QED
  BY <1>7, <1>8

LEMMA CollectFields ==
  ASSUME Fields, Collect
  PROVE  /\ Fields' /\ call.stage = "await" /\ call.awaiting # <<>> /\ call.awaiting \in Seq(Nat)
         /\ UNCHANGED <<Kept, call.pushing, call.next, call.done, call.count, call.pending, call.dst>>
         /\ \E a \in answers :
              /\ a.at = Head(call.awaiting) /\ answers' = answers \ {a}
              /\ \/ a.ok /\ call'.stage = "await" /\ call'.awaiting = Tail(call.awaiting)
                    /\ call'.error = call.error
                 \/ ~a.ok /\ call'.stage = "restore" /\ call'.awaiting = call.awaiting
                    /\ call'.error = "definite"
<1>1. call.stage = "await" /\ call.awaiting # <<>> /\ call.awaiting \in Seq(Nat)
      /\ Tail(call.awaiting) \in Seq(Nat)
  BY DEF Collect, Fields
<1>2. PICK a \in answers : /\ a.at = Head(call.awaiting) /\ answers' = answers \ {a}
                           /\ IF a.ok THEN call' = [call EXCEPT !.awaiting = Tail(@)]
                                      ELSE Fail("definite")
  BY DEF Collect
<1>3. CASE a.ok
  <2>1. call' = [call EXCEPT !.awaiting = Tail(call.awaiting)]
    BY <1>2, <1>3 DEF Fields, Idle
  <2>2. /\ DOMAIN call' = DOMAIN Idle /\ call'.awaiting = Tail(call.awaiting)
        /\ call'.stage = call.stage /\ call'.error = call.error
        /\ UNCHANGED <<call.pushing, call.next, call.done, call.count, call.pending, call.dst>>
    BY <2>1 DEF Fields, Idle
  <2>3. UNCHANGED Kept
    BY <2>1 DEF Fields, Idle, Kept
  <2>4. Fields'
    BY <1>1, <2>2, <2>3 DEF Fields, Kept
  <2>5. QED
    BY <1>1, <1>2, <1>3, <2>2, <2>3, <2>4
<1>4. CASE ~a.ok
  BY <1>1, <1>2, <1>4, FailFields
<1>5. QED
  BY <1>3, <1>4

LEMMA AwaitDoneFields ==
  ASSUME Fields, AwaitDone
  PROVE  /\ Fields' /\ call.stage = "await" /\ call.awaiting = <<>> /\ call'.awaiting = <<>>
         /\ call'.done = call.done + 1 /\ call'.count = Len(call.pending)
         /\ UNCHANGED <<Kept, call.pushing, call.next, call.pending, call.error>>
         /\ call'.dst = IF call.dir = "d2h" THEN CopyOut(call.done) ELSE call.dst
         /\ call'.stage = IF call.pushing <= LastChunk
                          THEN IF call.dir = "d2h" THEN "push" ELSE "produce"
                          ELSE IF call.pending # <<>> THEN "drain" ELSE "restore"
<1> DEFINE stage == IF call.pushing <= LastChunk
                    THEN IF call.dir = "d2h" THEN "push" ELSE "produce"
                    ELSE IF call.pending # <<>> THEN "drain" ELSE "restore"
           dst == IF call.dir = "d2h" THEN CopyOut(call.done) ELSE call.dst
<1>1. call.stage = "await" /\ call.awaiting = <<>> /\ stage \in Stages
  BY DEF AwaitDone, Stages
<1>2. call' = [call EXCEPT !.stage = stage, !.count = Len(call.pending), !.done = call.done + 1,
                           !.dst = dst]
  <2>1. stage = CASE call.pushing <= LastChunk -> (IF call.dir = "d2h" THEN "push" ELSE "produce")
                  [] ~(call.pushing <= LastChunk) /\ call.pending # <<>> -> "drain"
                  [] OTHER -> "restore"
    OBVIOUS
  <2> HIDE DEF stage
  <2>2. QED
    BY <2>1 DEF AwaitDone, Fields, Idle
<1>3. call.done + 1 \in Nat /\ Len(call.pending) \in Nat
  BY DEF Fields
<1> HIDE DEF stage, dst
<1>4. /\ DOMAIN call' = DOMAIN Idle /\ call'.stage = stage /\ call'.count = Len(call.pending)
      /\ call'.done = call.done + 1 /\ call'.dst = dst
      /\ UNCHANGED <<call.pushing, call.next, call.pending, call.awaiting, call.error>>
  BY <1>2 DEF Fields, Idle
<1>5. UNCHANGED Kept
  BY <1>2 DEF Fields, Idle, Kept
<1>6. Fields'
  BY <1>1, <1>3, <1>4, <1>5 DEF Fields, Kept
<1>7. QED
  BY <1>1, <1>4, <1>5, <1>6 DEF stage, dst

LEMMA MovingMemory ==
  ASSUME HostMemory, Pushing,
         Produce \/ Push \/ PushFails \/ Drain \/ Collect \/ WaitFails \/ AwaitDone
  PROVE  HostMemory' /\ Fields' /\ Moving /\ Moving' /\ UNCHANGED hostMemory /\ UNCHANGED Kept
<1>1. Fields
  BY DEF HostMemory, Memory
<1>2. /\ Moving /\ UNCHANGED hostMemory
      /\ call.stage \in {"produce", "push", "drain", "await"} /\ call.error = "none"
  BY DEF Produce, Push, PushFails, Drain, Collect, WaitFails, AwaitDone, Moving, HostMemory, Phases
<1>3. /\ Fields' /\ UNCHANGED Kept /\ Moving' /\ (call'.stage # "restore" => call'.error = "none")
  <2>1. CASE Produce
    BY <1>1, <1>2, <2>1, ProduceFields DEF Moving
  <2>2. CASE Push
    <3>1. call.next < call.chunk /\ Pushed < call.total
      BY <2>2 DEF Pushing, Push
    <3>2. QED
      BY <1>1, <1>2, <2>2, <3>1, PushFields DEF Moving
  <2>3. CASE PushFails \/ WaitFails
    BY <1>1, <2>3, FailFields DEF PushFails, WaitFails, Moving
  <2>4. CASE Drain
    BY <1>1, <1>2, <2>4, DrainFields DEF Moving, Pushing, Drain
  <2>5. CASE Collect
    BY <1>1, <1>2, <2>5, CollectFields DEF Moving
  <2>6. CASE AwaitDone
    BY <1>1, <1>2, <2>6, AwaitDoneFields DEF Moving
  <2>7. QED
    BY <2>1, <2>2, <2>3, <2>4, <2>5, <2>6
<1>4. QED
  BY <1>2, <1>3, Advances

LEMMA IdleFields ==
  ASSUME HostMemory, call.stage = "idle"
  PROVE  /\ call = [Idle EXCEPT !.x = call.x] /\ call.bufs = <<>> /\ call.pin = FALSE
         /\ call.x \in 0 .. MaxTransfers
<1>1. call = [Idle EXCEPT !.x = call.x]
  BY DEF HostMemory, Phases
<1>2. call.x \in 0 .. MaxTransfers
  BY DEF HostMemory, Memory, Fields
<1>3. QED
  BY <1>1, <1>2 DEF Idle

\* An idle host thread holds no buffer but those of the pool.
LEMMA ReturnsIdle ==
  ASSUME call' = [Idle EXCEPT !.x = call.x], call.x \in 0 .. MaxTransfers
  PROVE  Fields' /\ Phases' /\ call'.stage = "idle" /\ call'.bufs = <<>> /\ ~call'.pin /\ call'.x = call.x
<1>1. /\ DOMAIN call' = DOMAIN Idle /\ call'.stage = "idle" /\ call'.x = call.x /\ call'.dir = "h2d"
      /\ call'.pin = FALSE /\ call'.total = 0 /\ call'.bufs = <<>> /\ call'.chunk = 1
      /\ call'.index = 0 /\ call'.pushing = 0 /\ call'.next = 0 /\ call'.done = 0 /\ call'.count = 0
      /\ call'.pending = <<>> /\ call'.awaiting = <<>> /\ call'.error = "none"
  <2>1. PICK x : x = call.x
    OBVIOUS
  <2>2. call' = [Idle EXCEPT !.x = x]
    BY <2>1
  <2>3. QED
    BY <2>1, <2>2 DEF Idle
<1>2. Fields'
  <2>1. 0 \in 0 .. MaxTotal /\ <<>> \in Seq(Frames) /\ <<>> \in Seq(Nat) /\ 0 \in Nat /\ 1 \in Nat
    BY Typed
  <2>2. /\ call'.total \in 0 .. MaxTotal /\ call'.bufs \in Seq(Frames) /\ call'.chunk \in Nat
        /\ call'.index \in Nat /\ call'.pushing \in Nat /\ call'.next \in Nat /\ call'.done \in Nat
        /\ call'.count \in Nat /\ call'.pending \in Seq(Nat) /\ call'.awaiting \in Seq(Nat)
        /\ call'.x \in 0 .. MaxTransfers
    BY <1>1, <2>1
  <2>3. /\ call'.stage \in Stages /\ call'.dir \in {"h2d", "fill", "d2h"} /\ call'.pin \in BOOLEAN
        /\ call'.error \in {"none", "inflight", "definite"} /\ DOMAIN call' = DOMAIN Idle
    BY <1>1 DEF Stages
  <2>4. QED
    BY <2>2, <2>3 DEF Fields
<1>3. Phases'
  BY <1>1 DEF Phases, Moving
<1>4. QED
  BY <1>1, <1>2, <1>3

LEMMA SetCapacityMemory ==
  ASSUME HostMemory, NEW h \in Halves, SetStagingCapacity(h)
  PROVE  HostMemory'
<1>1. /\ call.stage = "idle" /\ half' = h /\ pool' = <<>> /\ pinned' = pinned /\ size' = size
      /\ call' = call
      /\ mem' = [f \in Frames |-> IF f \in ToSet(pool) THEN "unmapped" ELSE mem[f]]
  BY DEF SetStagingCapacity, Unmap
<1>2. Memory'
  <2>1. mem' \in [Frames -> {"unmapped", "mapped", "leaked"}]
    BY <1>1 DEF HostMemory, Memory
  <2>2. Fields' /\ <<>> \in Seq(Frames)
    BY <1>1 DEF HostMemory, Memory, Fields
  <2>3. QED
    BY <1>1, <2>1, <2>2 DEF HostMemory, Memory
<1>3. Phases'
  BY <1>1 DEF HostMemory, Phases, Moving
<1>4. Mappings'
  <2>1. call.bufs = <<>> /\ ToSet(<<>>) = {} /\ Len(<<>>) = 0
    BY <1>1, IdleFields DEF ToSet
  <2>2. \A f \in Frames : mem'[f] = "mapped" <=> f \in Buffers' \cup {pinned'}
    BY <1>1, <2>1 DEF HostMemory, Mappings, Buffers
  <2>3. QED
    BY <1>1, <2>1, <2>2 DEF HostMemory, Mappings, Distinct
<1>5. QED
  BY <1>2, <1>3, <1>4 DEF HostMemory

LEMMA AllocPinnedMemory ==
  ASSUME HostMemory, NEW f \in Frames, NEW len \in PinnedSizes, AllocPinned(f, len)
  PROVE  HostMemory'
<1>1. /\ call.stage = "idle" /\ half' = half /\ pool' = pool /\ pinned = None /\ pinned' = f
      /\ mem[f] = "unmapped" /\ mem' = [mem EXCEPT ![f] = "mapped"] /\ size' = [size EXCEPT ![f] = len]
      /\ call' = call
  BY DEF AllocPinned
<1>2. len \in Nat /\ f \notin Buffers
  <2>1. len \in Nat
    BY Typed
  <2>2. QED
    BY <1>1, <2>1 DEF HostMemory, Mappings
<1>3. Memory'
  BY <1>1, <1>2 DEF HostMemory, Memory, Fields
<1>4. Phases'
  BY <1>1, IdleFields DEF HostMemory, Phases, Moving
<1>5. Mappings'
  <2>1. call.bufs = <<>> /\ ToSet(<<>>) = {} /\ pinned # f
    BY <1>1, IdleFields, Typed DEF ToSet
  <2>2. \A g \in Frames : mem'[g] = "mapped" <=> g \in Buffers' \cup {pinned'}
    BY <1>1, <2>1, Typed DEF HostMemory, Mappings, Buffers, Memory
  <2>3. ToSet(pool) \subseteq Frames /\ f \notin ToSet(pool)
    BY <1>2 DEF Buffers, HostMemory, Memory, ToSet
  <2>4. /\ size'[f] = len /\ \A g \in ToSet(pool) : size'[g] = size[g]
    BY <1>1, <2>3 DEF HostMemory, Memory
  <2>5. QED
    BY <1>1, <2>1, <2>2, <2>3, <2>4 DEF HostMemory, Mappings, Distinct
<1>6. QED
  BY <1>3, <1>4, <1>5 DEF HostMemory

LEMMA DropPinnedMemory ==
  ASSUME HostMemory, DropPinned
  PROVE  HostMemory'
<1>1. /\ call.stage = "idle" /\ half' = half /\ pool' = pool /\ pinned # None /\ pinned' = None
      /\ size' = size /\ call' = call
      /\ mem' = [f \in Frames |-> IF f = pinned THEN "unmapped" ELSE mem[f]]
  BY DEF DropPinned, Unmap
<1>2. Memory'
  BY <1>1 DEF HostMemory, Memory, Fields
<1>3. Phases'
  BY <1>1, IdleFields DEF HostMemory, Phases, Moving
<1>4. Mappings'
  <2>1. call.bufs = <<>> /\ ToSet(<<>>) = {}
    BY <1>1, IdleFields DEF ToSet
  <2>2. ToSet(pool) \subseteq Frames
    BY DEF HostMemory, Memory, ToSet
  <2>3. QED
    BY <1>1, <2>1, <2>2, Typed DEF HostMemory, Mappings, Buffers
<1>5. QED
  BY <1>2, <1>3, <1>4 DEF HostMemory

\* A transfer begins: the fields it sets, and those it finds reset.
LEMMA TakeStagingFields ==
  ASSUME HostMemory, NEW dir \in {"h2d", "fill", "d2h"}, NEW total \in 1 .. MaxTotal, NEW q \in Queues,
         TakeStaging(dir, total, q)
  PROVE  /\ call.stage = "idle" /\ call'.stage = "take" /\ call'.x = call.x + 1 /\ call.x < MaxTransfers
         /\ call'.dir = dir /\ call'.pin = FALSE /\ call'.total = total /\ call'.sq = q
         /\ call'.bufs = pool /\ call'.chunk = 1 /\ call'.index = 0 /\ call'.pushing = 0 /\ call'.next = 0
         /\ call'.done = 0 /\ call'.count = 0 /\ call'.pending = <<>> /\ call'.awaiting = <<>>
         /\ call'.error = "none" /\ call'.dst = Nothing /\ DOMAIN call' = DOMAIN Idle
         /\ Fields'
<1>1. call.x \in Nat /\ call.x < MaxTransfers /\ call.x + 1 \in 0 .. MaxTransfers /\ call.stage = "idle"
  <2>1. call.x \in 0 .. MaxTransfers
    BY DEF HostMemory, Memory, Fields
  <2>2. call.x < MaxTransfers /\ call.stage = "idle"
    BY DEF TakeStaging, Started
  <2>3. QED
    BY <2>1, <2>2, Typed
<1>2. PICK x \in 0 .. MaxTransfers : x = call.x + 1
  BY <1>1
<1>3. call' = [Idle EXCEPT !.stage = "take", !.x = x, !.dir = dir, !.total = total, !.sq = q,
                          !.bufs = pool]
  BY <1>2 DEF TakeStaging, Started
<1>4. /\ call'.stage = "take" /\ call'.x = x /\ call'.dir = dir /\ call'.pin = FALSE
      /\ call'.total = total /\ call'.sq = q /\ call'.bufs = pool /\ call'.chunk = 1
      /\ call'.index = 0 /\ call'.pushing = 0 /\ call'.next = 0
      /\ call'.done = 0 /\ call'.count = 0 /\ call'.pending = <<>> /\ call'.awaiting = <<>>
      /\ call'.error = "none" /\ call'.dst = Nothing /\ DOMAIN call' = DOMAIN Idle
  BY <1>3 DEF Idle
<1>5. Fields'
  <2>1. /\ pool \in Seq(Frames) /\ <<>> \in Seq(Nat) /\ 0 \in Nat /\ 1 \in Nat /\ total \in 0 .. MaxTotal
    BY Typed DEF HostMemory, Memory
  <2>2. /\ call'.total \in 0 .. MaxTotal /\ call'.bufs \in Seq(Frames) /\ call'.chunk \in Nat
        /\ call'.index \in Nat /\ call'.pushing \in Nat /\ call'.next \in Nat /\ call'.done \in Nat
        /\ call'.count \in Nat /\ call'.pending \in Seq(Nat) /\ call'.awaiting \in Seq(Nat)
        /\ call'.x \in 0 .. MaxTransfers
    BY <1>4, <2>1
  <2>3. /\ call'.stage \in Stages /\ call'.dir \in {"h2d", "fill", "d2h"} /\ call'.pin \in BOOLEAN
        /\ call'.error \in {"none", "inflight", "definite"} /\ DOMAIN call' = DOMAIN Idle
    BY <1>4 DEF Stages
  <2>4. QED
    BY <2>2, <2>3 DEF Fields
<1>6. QED
  BY <1>1, <1>2, <1>4, <1>5

LEMMA TakeStagingMemory ==
  ASSUME HostMemory, NEW dir \in {"h2d", "fill", "d2h"}, NEW total \in 1 .. MaxTotal, NEW q \in Queues,
         TakeStaging(dir, total, q)
  PROVE  HostMemory'
<1>0. /\ call.stage = "idle" /\ call'.stage = "take" /\ call'.x = call.x + 1 /\ call.x < MaxTransfers
      /\ call'.dir = dir /\ call'.pin = FALSE /\ call'.total = total /\ call'.sq = q
      /\ call'.bufs = pool /\ call'.index = 0 /\ call'.pushing = 0 /\ call'.next = 0
      /\ call'.done = 0 /\ call'.count = 0 /\ call'.pending = <<>> /\ call'.awaiting = <<>>
      /\ call'.error = "none" /\ Fields'
  BY TakeStagingFields
<1>1. /\ UNCHANGED <<half, pinned, mem, size>> /\ pool' = <<>>
  BY DEF TakeStaging
<1>2. Memory'
  BY <1>0, <1>1 DEF HostMemory, Memory
<1>3. Phases'
  <2>1. call.x + 1 \in Transfers
    <3>1. call.x \in 0 .. MaxTransfers
      BY DEF HostMemory, Memory, Fields
    <3>2. QED
      BY <1>0, <3>1, Typed DEF Transfers
  <2>2. 0 <= Needed' /\ 0 <= Len(call'.bufs) /\ total > 0
    <3>1. Needed' \in {1, 2}
      BY DEF Needed
    <3>2. call'.bufs \in Seq(Frames)
      BY <1>0 DEF Fields
    <3>3. QED
      BY <3>1, <3>2
  <2>3. QED
    BY <1>1, <2>1, <2>2, <1>0 DEF Phases, Moving
<1>4. Mappings'
  <2>1. call.bufs = <<>> /\ ToSet(<<>>) = {} /\ Len(<<>>) = 0 /\ Distinct(<<>>)
    BY <1>0, IdleFields DEF ToSet, Distinct
  <2>2. Buffers' = Buffers
    BY <1>1, <2>1, <1>0 DEF Buffers
  <2>3. \A i \in 1 .. Len(call'.bufs) : ~(i <= call'.index)
    BY <1>0
  <2>4. QED
    BY <1>1, <2>1, <2>2, <2>3, <1>0 DEF HostMemory, Mappings, Distinct
<1>5. QED
  BY <1>2, <1>3, <1>4 DEF HostMemory

LEMMA PinnedTransferFields ==
  ASSUME HostMemory, NEW dir \in {"h2d", "d2h"}, NEW q \in Queues, PinnedTransfer(dir, q)
  PROVE  /\ call.stage = "idle" /\ call'.stage = "push" /\ call'.x = call.x + 1 /\ call.x < MaxTransfers
         /\ call'.dir = dir /\ call'.pin = TRUE /\ call'.total = size[pinned] /\ call'.sq = q
         /\ call'.bufs = <<pinned>> /\ call'.chunk = size[pinned] /\ call'.index = 0
         /\ call'.pushing = 0 /\ call'.next = 0
         /\ call'.done = 0 /\ call'.count = 0 /\ call'.pending = <<>> /\ call'.awaiting = <<>>
         /\ call'.error = "none" /\ call'.dst = Nothing /\ DOMAIN call' = DOMAIN Idle
         /\ pinned \in Frames /\ size[pinned] \in 1 .. MaxTotal /\ Fields'
<1>1. /\ call.x \in Nat /\ call.x < MaxTransfers /\ call.x + 1 \in 0 .. MaxTransfers
      /\ call.stage = "idle" /\ pinned \in Frames
  <2>1. call.x \in 0 .. MaxTransfers
    BY DEF HostMemory, Memory, Fields
  <2>2. call.x < MaxTransfers /\ call.stage = "idle" /\ pinned # None
    BY DEF PinnedTransfer, Started
  <2>3. pinned \in Frames
    BY <2>2 DEF HostMemory, Memory
  <2>4. QED
    BY <2>1, <2>2, <2>3, Typed
<1>2. PICK x \in 0 .. MaxTransfers, s \in 1 .. MaxTotal : x = call.x + 1 /\ s = size[pinned]
  BY <1>1, Typed DEF HostMemory, Mappings
<1>3. call' = [Idle EXCEPT !.stage = "push", !.x = x, !.dir = dir, !.pin = TRUE, !.total = s,
                          !.sq = q, !.bufs = <<pinned>>, !.chunk = s]
  BY <1>2 DEF PinnedTransfer, Started
<1>4. /\ call'.stage = "push" /\ call'.x = x /\ call'.dir = dir /\ call'.pin = TRUE
      /\ call'.total = s /\ call'.sq = q /\ call'.bufs = <<pinned>> /\ call'.chunk = s
      /\ call'.index = 0 /\ call'.pushing = 0 /\ call'.next = 0
      /\ call'.done = 0 /\ call'.count = 0 /\ call'.pending = <<>> /\ call'.awaiting = <<>>
      /\ call'.error = "none" /\ call'.dst = Nothing /\ DOMAIN call' = DOMAIN Idle
  BY <1>3 DEF Idle
<1>5. Fields'
  <2>1. /\ <<pinned>> \in Seq(Frames) /\ <<>> \in Seq(Nat) /\ 0 \in Nat /\ s \in Nat /\ s \in 0 .. MaxTotal
    BY <1>1, Typed
  <2>2. /\ call'.total \in 0 .. MaxTotal /\ call'.bufs \in Seq(Frames) /\ call'.chunk \in Nat
        /\ call'.index \in Nat /\ call'.pushing \in Nat /\ call'.next \in Nat /\ call'.done \in Nat
        /\ call'.count \in Nat /\ call'.pending \in Seq(Nat) /\ call'.awaiting \in Seq(Nat)
        /\ call'.x \in 0 .. MaxTransfers
    BY <1>4, <2>1
  <2>3. /\ call'.stage \in Stages /\ call'.dir \in {"h2d", "fill", "d2h"} /\ call'.pin \in BOOLEAN
        /\ call'.error \in {"none", "inflight", "definite"} /\ DOMAIN call' = DOMAIN Idle
    BY <1>4 DEF Stages
  <2>4. QED
    BY <2>2, <2>3 DEF Fields
<1>6. QED
  BY <1>1, <1>2, <1>4, <1>5

LEMMA PinnedTransferMemory ==
  ASSUME HostMemory, NEW dir \in {"h2d", "d2h"}, NEW q \in Queues, PinnedTransfer(dir, q)
  PROVE  HostMemory'
<1>0. /\ call.stage = "idle" /\ call'.stage = "push" /\ call'.x = call.x + 1 /\ call.x < MaxTransfers
      /\ call'.dir = dir /\ call'.pin = TRUE /\ call'.total = size[pinned] /\ call'.sq = q
      /\ call'.bufs = <<pinned>> /\ call'.chunk = size[pinned]
      /\ call'.error = "none" /\ pinned \in Frames /\ size[pinned] \in 1 .. MaxTotal /\ Fields'
  BY PinnedTransferFields
<1>1. UNCHANGED <<half, pool, pinned, mem, size>>
  BY DEF PinnedTransfer, hostMemory
<1>2. Memory'
  BY <1>0, <1>1 DEF HostMemory, Memory
<1>3. Phases'
  <2>1. call.x + 1 \in Transfers
    <3>1. call.x \in 0 .. MaxTransfers
      BY DEF HostMemory, Memory, Fields
    <3>2. QED
      BY <1>0, <3>1, Typed DEF Transfers
  <2>2. /\ call'.total > 0 /\ call'.chunk > 0 /\ call'.total <= call'.chunk
    BY <1>0
  <2>3. QED
    BY <1>1, <2>1, <2>2, <1>0 DEF Phases, Moving
<1>4. Mappings'
  <2>1. call.bufs = <<>> /\ ToSet(<<>>) = {} /\ Len(<<pinned>>) = 1 /\ Distinct(<<pinned>>)
        /\ ToSet(<<pinned>>) = {pinned}
    BY <1>0, IdleFields DEF ToSet, Distinct
  <2>2. Buffers' \cup {pinned'} = Buffers \cup {pinned}
    BY <1>1, <2>1, <1>0 DEF Buffers
  <2>3. QED
    BY <1>1, <2>1, <2>2, <1>0 DEF HostMemory, Mappings
<1>5. QED
  BY <1>2, <1>3, <1>4 DEF HostMemory

LEMMA Concatenation ==
  ASSUME NEW s \in Seq(Frames), NEW t \in Seq(Frames)
  PROVE  /\ s \o t \in Seq(Frames) /\ Len(s \o t) = Len(s) + Len(t)
         /\ \A j \in 1 .. Len(s) + Len(t) : (s \o t)[j] = IF j <= Len(s) THEN s[j] ELSE t[j - Len(s)]
BY ConcatProperties

LEMMA Removed ==
  ASSUME NEW s \in Seq(Frames), NEW i \in 1 .. Len(s)
  PROVE  /\ RemoveAt(s, i) \in Seq(Frames) /\ Len(RemoveAt(s, i)) = Len(s) - 1
         /\ \A j \in 1 .. Len(s) - 1 : RemoveAt(s, i)[j] = IF j < i THEN s[j] ELSE s[j + 1]
<1>1. PICK n \in Nat, before \in Nat : n = Len(s) /\ before = i - 1 /\ before < n /\ i \in Nat
  OBVIOUS
<1>2. PICK a, b : a = SubSeq(s, 1, before) /\ b = SubSeq(s, i + 1, n)
  OBVIOUS
<1>3. a \in Seq(Frames) /\ Len(a) = before /\ \A j \in 1 .. before : a[j] = s[j]
  <2>1. SubSeq(s, 0 + 1, before) \in Seq(Frames) /\ Len(SubSeq(s, 0 + 1, before)) = before - 0
        /\ \A j \in 1 .. before - 0 : SubSeq(s, 0 + 1, before)[j] = s[0 + j]
    BY <1>1, SubSequence
  <2>2. QED
    BY <1>2, <2>1
<1>4. b \in Seq(Frames) /\ Len(b) = n - i /\ \A j \in 1 .. n - i : b[j] = s[i + j]
  BY <1>1, <1>2, SubSequence
<1>5. a \o b \in Seq(Frames) /\ Len(a \o b) = before + (n - i)
      /\ \A j \in 1 .. before + (n - i) : (a \o b)[j] = IF j <= before THEN a[j] ELSE b[j - before]
  <2>1. PICK c \in Seq(Frames), d \in Seq(Frames) : c = a /\ d = b
    BY <1>3, <1>4
  <2>2. /\ c \o d \in Seq(Frames) /\ Len(c \o d) = Len(c) + Len(d)
        /\ \A j \in 1 .. Len(c) + Len(d) : (c \o d)[j] = IF j <= Len(c) THEN c[j] ELSE d[j - Len(c)]
    BY Concatenation
  <2>3. QED
    BY <1>3, <1>4, <2>1, <2>2
<1>6. ASSUME NEW j \in 1 .. n - 1 PROVE (a \o b)[j] = IF j < i THEN s[j] ELSE s[j + 1]
  <2>1. CASE j < i
    <3>1. j \in 1 .. before + (n - i) /\ j <= before /\ j \in 1 .. before
      BY <1>1, <2>1
    <3>2. QED
      BY <1>3, <1>5, <2>1, <3>1
  <2>2. CASE ~(j < i)
    <3>1. PICK k \in 1 .. n - i : k = j - before /\ i + k = j + 1
      BY <1>1, <2>2
    <3>2. (a \o b)[j] = b[k]
      <4>1. j \in 1 .. before + (n - i) /\ ~(j <= before)
        BY <1>1, <2>2
      <4>2. QED
        BY <1>5, <3>1, <4>1
    <3>3. QED
      BY <1>4, <2>2, <3>1, <3>2
  <2>3. QED
    BY <2>1, <2>2
<1>7. RemoveAt(s, i) = a \o b
  BY <1>1, <1>2 DEF RemoveAt
<1>8. before + (n - i) = n - 1
  BY <1>1
<1>9. QED
  BY <1>1, <1>5, <1>6, <1>7, <1>8

LEMMA Inserted ==
  ASSUME NEW s \in Seq(Frames), NEW i \in 1 .. Len(s) + 1, NEW f \in Frames
  PROVE  /\ InsertAt(s, i, f) \in Seq(Frames) /\ Len(InsertAt(s, i, f)) = Len(s) + 1
         /\ InsertAt(s, i, f)[i] = f
         /\ \A j \in 1 .. i - 1 : InsertAt(s, i, f)[j] = s[j]
         /\ \A j \in i .. Len(s) : InsertAt(s, i, f)[j + 1] = s[j]
<1>1. PICK n \in Nat, before \in Nat :
        n = Len(s) /\ before = i - 1 /\ before <= n /\ i \in Nat /\ i = before + 1
  OBVIOUS
<1>2. PICK a, b : a = SubSeq(s, 1, before) /\ b = SubSeq(s, i, n)
  OBVIOUS
<1>3. a \in Seq(Frames) /\ Len(a) = before /\ \A j \in 1 .. before : a[j] = s[j]
  <2>1. SubSeq(s, 0 + 1, before) \in Seq(Frames) /\ Len(SubSeq(s, 0 + 1, before)) = before - 0
        /\ \A j \in 1 .. before - 0 : SubSeq(s, 0 + 1, before)[j] = s[0 + j]
    BY <1>1, SubSequence
  <2>2. QED
    BY <1>2, <2>1
<1>4. b \in Seq(Frames) /\ Len(b) = n - before /\ \A j \in 1 .. n - before : b[j] = s[before + j]
  BY <1>1, <1>2, SubSequence
<1>5. PICK m : m = a \o <<f>>
  OBVIOUS
<1>6. m \in Seq(Frames) /\ Len(m) = i /\ m[i] = f /\ \A j \in 1 .. before : m[j] = s[j]
  BY <1>1, <1>3, <1>5
<1>7. m \o b \in Seq(Frames) /\ Len(m \o b) = n + 1 /\ (m \o b)[i] = f
      /\ \A j \in 1 .. before : (m \o b)[j] = s[j]
  <2>1. m \o b \in Seq(Frames) /\ Len(m \o b) = i + (n - before)
        /\ \A j \in 1 .. i + (n - before) : (m \o b)[j] = IF j <= i THEN m[j] ELSE b[j - i]
    <3>1. PICK c \in Seq(Frames), d \in Seq(Frames) : c = m /\ d = b
      BY <1>4, <1>6
    <3>2. /\ c \o d \in Seq(Frames) /\ Len(c \o d) = Len(c) + Len(d)
          /\ \A j \in 1 .. Len(c) + Len(d) : (c \o d)[j] = IF j <= Len(c) THEN c[j] ELSE d[j - Len(c)]
      BY Concatenation
    <3>3. QED
      BY <1>4, <1>6, <3>1, <3>2
  <2>2. i + (n - before) = n + 1 /\ i \in 1 .. n + 1 /\ \A j \in 1 .. before : j \in 1 .. n + 1 /\ j <= i
    BY <1>1
  <2>3. QED
    BY <1>6, <2>1, <2>2
<1>8. ASSUME NEW j \in i .. n PROVE (m \o b)[j + 1] = s[j]
  <2>1. PICK k \in 1 .. n - before : k = j - before /\ before + k = j /\ i + k = j + 1
    BY <1>1
  <2>2. (m \o b)[i + k] = b[k]
    BY <1>4, <1>6, <1>1
  <2>3. QED
    BY <1>4, <2>1, <2>2
<1>9. InsertAt(s, i, f) = m \o b
  BY <1>1, <1>2, <1>5 DEF InsertAt
<1>10. QED
  BY <1>1, <1>7, <1>8, <1>9

\* `take_staging` exchanges the buffer at its index, or adds one at the end.
Exchanged(s, n, f) == InsertAt(IF n < Len(s) THEN RemoveAt(s, n + 1) ELSE s, n + 1, f)

LEMMA Replaced ==
  ASSUME NEW s \in Seq(Frames), NEW n \in 0 .. Len(s), NEW f \in Frames
  PROVE  /\ Exchanged(s, n, f) \in Seq(Frames)
         /\ Len(Exchanged(s, n, f)) = (IF n < Len(s) THEN Len(s) ELSE Len(s) + 1)
         /\ Exchanged(s, n, f)[n + 1] = f
         /\ \A j \in 1 .. Len(s) : j # n + 1 => Exchanged(s, n, f)[j] = s[j]
<1>0. PICK new : new = Exchanged(s, n, f)
  OBVIOUS
<1>1. PICK l \in Nat, i \in Nat : l = Len(s) /\ i = n + 1 /\ n \in Nat /\ n <= l
  OBVIOUS
<1>2. CASE n < l
  <2>1. PICK r \in Seq(Frames) : /\ r = RemoveAt(s, i) /\ Len(r) = l - 1
                                 /\ \A j \in 1 .. l - 1 : r[j] = IF j < i THEN s[j] ELSE s[j + 1]
    <3>1. PICK k \in 1 .. Len(s) : k = i
      BY <1>1, <1>2
    <3>2. /\ RemoveAt(s, k) \in Seq(Frames) /\ Len(RemoveAt(s, k)) = Len(s) - 1
          /\ \A j \in 1 .. Len(s) - 1 : RemoveAt(s, k)[j] = IF j < k THEN s[j] ELSE s[j + 1]
      BY Removed
    <3>3. QED
      BY <1>1, <3>1, <3>2
  <2>2. new = InsertAt(r, i, f)
    BY <1>0, <1>1, <1>2, <2>1 DEF Exchanged
  <2>3. i \in 1 .. Len(r) + 1
    BY <1>1, <1>2, <2>1
  <2>4. /\ new \in Seq(Frames) /\ Len(new) = Len(r) + 1 /\ new[i] = f
        /\ \A j \in 1 .. i - 1 : new[j] = r[j]
        /\ \A j \in i .. Len(r) : new[j + 1] = r[j]
    BY <2>2, <2>3, Inserted
  <2>5. ASSUME NEW j \in 1 .. l, j # i PROVE new[j] = s[j]
    <3>1. CASE j < i
      <4>1. j \in 1 .. i - 1 /\ j \in 1 .. l - 1
        BY <1>1, <1>2, <3>1
      <4>2. QED
        BY <2>1, <2>4, <3>1, <4>1
    <3>2. CASE j > i
      <4>1. PICK k \in i .. l - 1 : k = j - 1 /\ k + 1 = j
        BY <1>1, <3>2
      <4>2. new[k + 1] = r[k] /\ r[k] = s[k + 1]
        <5>1. k \in i .. Len(r) /\ k \in 1 .. l - 1 /\ ~(k < i)
          BY <1>1, <2>1, <4>1
        <5>2. QED
          BY <2>1, <2>4, <5>1
      <4>3. QED
        BY <4>1, <4>2
    <3>3. QED
      BY <1>1, <2>5, <3>1, <3>2
  <2>6. QED
    BY <1>0, <1>1, <1>2, <2>1, <2>4, <2>5
<1>3. CASE ~(n < l)
  <2>1. new = InsertAt(s, i, f) /\ i \in 1 .. Len(s) + 1 /\ i = l + 1
    BY <1>0, <1>1, <1>3 DEF Exchanged
  <2>2. PICK k \in 1 .. Len(s) + 1 : k = i
    BY <2>1
  <2>3. /\ InsertAt(s, k, f) \in Seq(Frames) /\ Len(InsertAt(s, k, f)) = Len(s) + 1
        /\ InsertAt(s, k, f)[k] = f
        /\ \A j \in 1 .. k - 1 : InsertAt(s, k, f)[j] = s[j]
    BY Inserted
  <2>4. QED
    BY <1>0, <1>1, <1>3, <2>1, <2>2, <2>3
<1>4. QED
  BY <1>1, <1>2, <1>3

\* Every number has a power of two that is not less, and less than its double:
\* of the numbers without one there would be a smallest.
LEMMA PowerNotLess ==
  ASSUME NEW n \in 1 .. MaxTotal
  PROVE  \E k \in 0 .. n : 2 ^ k \in Nat /\ n <= 2 ^ k /\ 2 ^ k < 2 * n
<1> DEFINE Found(m) == \E k \in 0 .. m : 2 ^ k \in Nat /\ m <= 2 ^ k /\ 2 ^ k < 2 * m
           All == 1 .. MaxTotal
           Family == {1 .. m : m \in {i \in All : ~Found(i)}}
<1>1. SUFFICES ASSUME ~Found(n) PROVE FALSE
  OBVIOUS
<1> HIDE DEF Found
<1>2. IsFiniteSet(All) /\ Family \in SUBSET FiniteSubsetsOf(All) /\ Family # {}
  <2>1. MaxTotal \in Nat
    BY Typed
  <2>2. IsFiniteSet(All)
    BY <2>1, FS_Interval
  <2>3. \A T \in Family : T \subseteq All
    BY <2>1
  <2>4. \A T \in Family : T \in FiniteSubsetsOf(All)
    BY <2>2, <2>3, FS_Subset DEF FiniteSubsetsOf
  <2>5. 1 .. n \in Family
    BY <1>1
  <2>6. QED
    BY <2>2, <2>4, <2>5
<1>3. PICK T \in Family : \A U \in Family : ~ (<<U, T>> \in StrictSubsetOrdering(All))
  <2> HIDE DEF Family, All
  <2>1. IsWellFoundedOn(StrictSubsetOrdering(All), FiniteSubsetsOf(All))
    BY <1>2, FS_StrictSubsetOrderingWellFounded
  <2>2. QED
    BY <1>2, <2>1, WFMin
<1>4. PICK m \in All : T = 1 .. m /\ ~Found(m)
  OBVIOUS
<1>5. m \in Nat /\ 1 <= m /\ m <= MaxTotal
  BY <1>4, Typed
<1>6. m # 1
  <2>1. 2 ^ 0 = 1 /\ 0 \in 0 .. 1
    BY PowersDouble
  <2>2. Found(1)
    BY <2>1 DEF Found
  <2>3. QED
    BY <1>4, <2>2
<1>7. PICK j \in All : j = m - 1 /\ j \in Nat /\ j >= 1
  BY <1>5, <1>6, Typed
<1>8. Found(j)
  <2>1. SUFFICES ASSUME ~Found(j) PROVE FALSE
    OBVIOUS
  <2>2. 1 .. j \in Family
    BY <2>1
  <2>3. 1 .. j \subseteq 1 .. m /\ 1 .. j # 1 .. m
    BY <1>5, <1>7
  <2>4. 1 .. j \subseteq All /\ T \subseteq All
    BY <1>4, <1>5, <1>7, Typed
  <2>5. <<1 .. j, T>> \in StrictSubsetOrdering(All)
    BY <1>4, <2>3, <2>4 DEF StrictSubsetOrdering
  <2>6. QED
    BY <1>3, <2>2, <2>5
<1>9. PICK k \in 0 .. j, p \in Nat : p = 2 ^ k /\ j <= p /\ p < 2 * j
  BY <1>8 DEF Found
<1>10. k \in Nat /\ k <= j /\ k \in 0 .. m /\ k + 1 \in 0 .. m /\ k \in 0 .. MaxTotal
  BY <1>5, <1>7, <1>9, Typed
<1>11. CASE m <= p
  <2>1. p < 2 * m
    BY <1>5, <1>7, <1>9
  <2>2. Found(m)
    BY <1>9, <1>10, <1>11, <2>1 DEF Found
  <2>3. QED
    BY <1>4, <2>2
<1>12. CASE ~ (m <= p)
  <2>1. 2 ^ (k + 1) = 2 * p
    BY <1>9, <1>10, PowersDouble
  <2>2. PICK d \in Nat : d = 2 ^ (k + 1) /\ d = 2 * p
    BY <2>1
  <2>3. m <= d /\ d < 2 * m
    BY <1>5, <1>7, <1>9, <1>12, <2>2
  <2>4. Found(m)
    BY <1>10, <2>2, <2>3 DEF Found
  <2>5. QED
    BY <1>4, <2>4
<1>13. QED
  BY <1>11, <1>12

LEMMA PowerOfTwoTyped ==
  ASSUME NEW n \in 1 .. MaxTotal
  PROVE  NextPowerOfTwo(n) \in Nat /\ n <= NextPowerOfTwo(n)
<1> DEFINE Q(p) == n <= p /\ p < 2 * n
<1>1. PICK k \in 0 .. n : 2 ^ k \in Nat /\ Q(2 ^ k)
  BY PowerNotLess
<1>2. \E p \in {2 ^ i : i \in 0 .. n} : Q(p)
  BY <1>1
<1>3. PICK p \in {2 ^ i : i \in 0 .. n} : p = NextPowerOfTwo(n) /\ Q(p)
  BY <1>2 DEF NextPowerOfTwo
<1>4. QED
  BY <1>3

\* A replacement is as large as the transfer needs, and no larger than half the
\* capacity.
LEMMA ReplacementFits ==
  ASSUME HostMemory, call.stage = "take"
  PROVE  /\ half \in Nat /\ Required \in 1 .. half /\ Required <= call.total
         /\ ReplacementSize \in Required .. half
<1>1. PICK t \in Nat, h \in Nat : t = call.total /\ h = half /\ h > 0 /\ t > 0 /\ t <= MaxTotal
  BY Typed DEF HostMemory, Memory, Fields, Phases
<1>2. PICK r \in Nat : r = IF t < h THEN t ELSE h
  OBVIOUS
<1>3. r = Required
  BY <1>1, <1>2 DEF Required, SmallerOf
<1>4. r \in 1 .. MaxTotal /\ r <= t /\ r <= h /\ r > 0
  BY <1>1, <1>2, Typed
<1>5. PICK p \in Nat : p = NextPowerOfTwo(r) /\ r <= p
  BY <1>4, PowerOfTwoTyped
<1>6. ReplacementSize = IF p < h THEN p ELSE h
  BY <1>1, <1>3, <1>5 DEF ReplacementSize, SmallerOf
<1>7. QED
  BY <1>1, <1>3, <1>4, <1>5, <1>6

LEMMA TakeFieldsTyped ==
  ASSUME HostMemory, call.stage = "take"
  PROVE  /\ call.index \in Nat /\ call.index <= Needed /\ call.index <= Len(call.bufs)
         /\ call.bufs \in Seq(Frames) /\ Len(call.bufs) \in 0 .. 2 /\ Needed \in {1, 2}
         /\ pool = <<>> /\ ToSet(pool) = {} /\ ~call.pin /\ Distinct(call.bufs)
         /\ call.index + 1 \in Nat
<1>1. call.index \in Nat /\ call.bufs \in Seq(Frames)
  BY DEF HostMemory, Memory, Fields
<1>2. call.index <= Needed /\ call.index <= Len(call.bufs) /\ ~call.pin /\ pool = <<>>
  BY DEF HostMemory, Phases
<1>3. Len(call.bufs) <= 2 /\ Distinct(call.bufs)
  BY DEF HostMemory, Mappings
<1>4. Needed \in {1, 2}
  BY DEF Needed
<1>5. Len(call.bufs) \in 0 .. 2 /\ call.index + 1 \in Nat
  <2>1. PICK l \in Nat, i \in Nat : l = Len(call.bufs) /\ i = call.index
    BY <1>1
  <2>2. l <= 2
    BY <1>3, <2>1
  <2>3. l \in 0 .. 2 /\ i + 1 \in Nat
    BY <2>2
  <2>4. QED
    BY <2>1, <2>3
<1>6. ToSet(pool) = {}
  BY <1>2 DEF ToSet
<1>7. QED
  BY <1>1, <1>2, <1>3, <1>4, <1>5, <1>6

LEMMA TakeKeepMemory ==
  ASSUME HostMemory, TakeKeep
  PROVE  HostMemory' /\ call'.stage = "take"
         /\ UNCHANGED <<call.x, call.bufs, call.total, call.sq, call.dir, call.pin, mem>>
<1>1. /\ call.stage = "take" /\ call.index < Needed /\ Holds(call.index)
      /\ UNCHANGED <<half, pool, pinned, mem, size>>
      /\ call' = [call EXCEPT !.index = call.index + 1]
  BY DEF TakeKeep, HostMemory, Memory, Fields, Idle, hostMemory
<1>2. /\ DOMAIN call' = DOMAIN Idle /\ call'.index = call.index + 1
      /\ call'.stage = call.stage /\ call'.x = call.x /\ call'.dir = call.dir /\ call'.pin = call.pin
      /\ call'.total = call.total /\ call'.sq = call.sq /\ call'.bufs = call.bufs
      /\ call'.chunk = call.chunk /\ call'.pushing = call.pushing /\ call'.next = call.next
      /\ call'.done = call.done /\ call'.count = call.count /\ call'.pending = call.pending
      /\ call'.awaiting = call.awaiting /\ call'.error = call.error
  BY <1>1 DEF HostMemory, Memory, Fields, Idle
<1>3. /\ call.index \in Nat /\ call.index + 1 \in Nat /\ call.index + 1 <= Needed
      /\ call.index + 1 <= Len(call.bufs) /\ Needed' = Needed /\ Required' = Required
  <2>1. Needed' = Needed /\ Required' = Required
    BY <1>1, <1>2 DEF Needed, Required
  <2>2. call.index < Len(call.bufs)
    BY <1>1 DEF Holds
  <2>3. QED
    BY <1>1, <2>1, <2>2, TakeFieldsTyped
<1>4. Memory'
  BY <1>1, <1>2, <1>3 DEF HostMemory, Memory, Fields
<1>5. Phases'
  BY <1>1, <1>2, <1>3 DEF HostMemory, Phases, Moving
<1>6. Mappings'
  <2>1. \A i \in 1 .. Len(call.bufs) : i <= call.index + 1 => size[call.bufs[i]] >= Required
    <3>1. SUFFICES ASSUME NEW i \in 1 .. Len(call.bufs), i <= call.index + 1
                   PROVE  size[call.bufs[i]] >= Required
      OBVIOUS
    <3>2. CASE i = call.index + 1
      BY <1>1, <3>2 DEF Holds
    <3>3. CASE i <= call.index
      BY <1>1, <3>3 DEF HostMemory, Mappings
    <3>4. QED
      BY <1>3, <3>1, <3>2, <3>3
  <2>2. QED
    BY <1>1, <1>2, <1>3, <2>1 DEF HostMemory, Mappings, Buffers
<1>7. QED
  BY <1>1, <1>2, <1>4, <1>5, <1>6 DEF HostMemory

LEMMA TakeReplaceMemory ==
  ASSUME HostMemory, NEW f \in Frames, TakeReplace(f)
  PROVE  HostMemory' /\ call'.stage = "take"
         /\ UNCHANGED <<call.x, call.total, call.sq, call.dir, call.pin>>
         /\ \A g \in Frames : mem[g] = "leaked" => mem'[g] = "leaked"
<1> DEFINE new == InsertAt(Remaining, call.index + 1, f)
<1>1. /\ call.stage = "take" /\ call.index < Needed
      /\ mem[f] = "unmapped" \/ f \in Undersized
      /\ mem' = [g \in Frames |-> IF g = f THEN "mapped"
                                  ELSE IF g \in Undersized THEN "unmapped" ELSE mem[g]]
      /\ size' = [size EXCEPT ![f] = ReplacementSize]
      /\ UNCHANGED <<half, pool, pinned>>
      /\ call' = [call EXCEPT !.bufs = new, !.index = call.index + 1]
  BY DEF TakeReplace, HostMemory, Memory, Fields, Idle
<1>2. PICK n \in Nat, bufs \in Seq(Frames) :
        /\ n = call.index /\ bufs = call.bufs /\ n <= Len(bufs) /\ Len(bufs) \in 0 .. 2 /\ n < 2
        /\ Distinct(bufs)
  BY <1>1, TakeFieldsTyped
<1>3. /\ new \in Seq(Frames) /\ Len(new) = (IF n < Len(bufs) THEN Len(bufs) ELSE Len(bufs) + 1)
      /\ new[n + 1] = f /\ \A j \in 1 .. Len(bufs) : j # n + 1 => new[j] = bufs[j]
  <2>1. Remaining = IF n < Len(bufs) THEN RemoveAt(bufs, n + 1) ELSE bufs
    BY <1>2 DEF Remaining, Undersized
  <2>2. PICK k \in 0 .. Len(bufs) : k = n
    BY <1>2
  <2>3. new = Exchanged(bufs, k, f)
    BY <1>2, <2>1, <2>2 DEF Exchanged
  <2> HIDE DEF new
  <2>4. QED
    BY <2>2, <2>3, Replaced
<1> HIDE DEF new
<1>4. /\ DOMAIN call' = DOMAIN Idle /\ call'.index = n + 1 /\ call'.bufs = new
      /\ call'.stage = call.stage /\ call'.x = call.x /\ call'.dir = call.dir /\ call'.pin = call.pin
      /\ call'.total = call.total /\ call'.sq = call.sq
      /\ call'.chunk = call.chunk /\ call'.pushing = call.pushing /\ call'.next = call.next
      /\ call'.done = call.done /\ call'.count = call.count /\ call'.pending = call.pending
      /\ call'.awaiting = call.awaiting /\ call'.error = call.error
  BY <1>1, <1>2 DEF HostMemory, Memory, Fields, Idle
<1>5. /\ n + 1 \in Nat /\ n + 1 <= Needed /\ n + 1 <= Len(new) /\ Len(new) <= 2
      /\ Needed' = Needed /\ Required' = Required
  <2>1. Needed' = Needed /\ Required' = Required
    BY <1>1, <1>4 DEF Needed, Required
  <2>2. n < Needed /\ Needed \in {1, 2}
    BY <1>1, <1>2, TakeFieldsTyped
  <2>3. QED
    BY SMTT(30), <1>2, <1>3, <2>1, <2>2
<1>6. ReplacementSize \in Nat /\ Required \in Nat /\ ReplacementSize \in 1 .. half /\ ReplacementSize >= Required
  BY <1>1, ReplacementFits
<1>7. \* The block is one the transfer gives up, or one that nobody holds.
      /\ \A j \in 1 .. Len(bufs) : j # n + 1 => bufs[j] # f
      /\ f # pinned /\ pinned \notin Undersized /\ Undersized \subseteq ToSet(bufs)
      /\ \A j \in 1 .. Len(bufs) : bufs[j] \in Undersized <=> j = n + 1
      /\ \A g \in Undersized : mem[g] = "mapped"
  <2>1. Undersized = IF n < Len(bufs) THEN {bufs[n + 1]} ELSE {}
    BY <1>2 DEF Undersized
  <2>2. \A j \in 1 .. Len(bufs) : bufs[j] \in Undersized <=> j = n + 1
    BY <1>2, <2>1 DEF Distinct
  <2>3. Undersized \subseteq ToSet(bufs) /\ pinned \notin ToSet(bufs) /\ ToSet(bufs) \subseteq Frames
    BY <1>1, <1>2, <2>1, TakeFieldsTyped DEF ToSet, HostMemory, Mappings
  <2>4. \A g \in ToSet(bufs) \cup {pinned} : g \in Frames => mem[g] = "mapped"
    BY <1>2 DEF HostMemory, Mappings, Buffers
  <2>5. f # pinned /\ (f \in ToSet(bufs) => f \in Undersized)
    BY <1>1, <2>3, <2>4
  <2>6. \A j \in 1 .. Len(bufs) : bufs[j] \in ToSet(bufs)
    BY DEF ToSet
  <2>7. QED
    BY <2>2, <2>3, <2>4, <2>5, <2>6
<1>8. Memory'
  <2>1. mem' \in [Frames -> {"unmapped", "mapped", "leaked"}] /\ size' \in [Frames -> Nat]
    BY <1>1, <1>6 DEF HostMemory, Memory
  <2>2. Fields'
    BY <1>3, <1>4, <1>5 DEF HostMemory, Memory, Fields
  <2>3. QED
    BY <1>1, <2>1, <2>2 DEF HostMemory, Memory
<1>9. Phases'
  BY <1>1, <1>4, <1>5 DEF HostMemory, Phases, Moving
<1>10. Mappings'
  <2>1. /\ f \in ToSet(new) /\ \A g \in ToSet(new) : g = f \/ (g \in ToSet(bufs) /\ g \notin Undersized)
        /\ \A g \in ToSet(bufs) : g \notin Undersized => g \in ToSet(new)
    <3>1. /\ DOMAIN new = 1 .. Len(new) /\ n + 1 \in DOMAIN new /\ DOMAIN bufs = 1 .. Len(bufs)
          /\ \A j \in DOMAIN new : j = n + 1 \/ j \in 1 .. Len(bufs)
          /\ \A j \in 1 .. Len(bufs) : j \in DOMAIN new
      BY <1>2, <1>3, <1>5
    <3>2. QED
      BY <1>3, <1>7, <3>1 DEF ToSet
  <2>2. ASSUME NEW g \in Frames PROVE mem'[g] = "mapped" <=> g \in ToSet(new) \cup {pinned}
    <3>1. mem[g] = "mapped" <=> g \in ToSet(bufs) \cup {pinned}
      BY <1>1, <1>2, TakeFieldsTyped DEF HostMemory, Mappings, Buffers
    <3>2. QED
      BY <1>1, <1>7, <2>1, <3>1
  <2>3. Distinct(new)
    <3>1. SUFFICES ASSUME NEW i \in 1 .. Len(new), NEW j \in 1 .. Len(new), new[i] = new[j], i < j
                   PROVE  FALSE
      BY <1>3 DEF Distinct
    <3>2. i = 1 /\ j = 2 /\ (n = 0 \/ n = 1) /\ Len(new) = 2
      <4>1. PICK l \in Nat : l = Len(new) /\ l <= 2
        BY <1>3, <1>5
      <4>2. QED
        BY <1>2, <3>1, <4>1
    <3>3. CASE n = 0
      BY <1>2, <1>3, <1>7, <3>1, <3>2, <3>3
    <3>4. CASE n = 1
      BY <1>2, <1>3, <1>7, <3>1, <3>2, <3>4
    <3>5. QED
      BY <3>2, <3>3, <3>4
  <2>4. Buffers' = ToSet(new) /\ ToSet(pool') = {} /\ pool' = <<>>
    BY <1>1, <1>4, TakeFieldsTyped DEF Buffers
  <2>5. /\ size'[f] = ReplacementSize /\ \A g \in Frames : g # f => size'[g] = size[g]
    BY <1>1 DEF HostMemory, Memory
  <2>6. \A g \in ToSet(new) : size'[g] \in 1 .. half
    <3>1. \A g \in ToSet(bufs) : g \in Frames /\ size[g] \in 1 .. half
      BY <1>1, <1>2, TakeFieldsTyped DEF HostMemory, Mappings, ToSet
    <3>2. QED
      BY <1>6, <2>1, <2>5, <3>1
  <2>7. \A i \in 1 .. Len(new) : i <= n + 1 => size'[new[i]] >= Required
    <3>1. SUFFICES ASSUME NEW i \in 1 .. Len(new), i <= n + 1 PROVE size'[new[i]] >= Required
      OBVIOUS
    <3>2. CASE i = n + 1
      BY <1>3, <1>6, <2>5, <3>2
    <3>3. CASE i <= n
      <4>1. i \in 1 .. Len(bufs) /\ i # n + 1
        BY <1>2, <3>3
      <4>2. new[i] = bufs[i] /\ bufs[i] # f /\ bufs[i] \in Frames
        BY <1>3, <1>7, <4>1
      <4>3. size[bufs[i]] >= Required
        BY <1>1, <1>2, <3>3, <4>1 DEF HostMemory, Mappings
      <4>4. QED
        BY <2>5, <4>2, <4>3
    <3>4. QED
      BY <1>2, <3>1, <3>2, <3>3
  <2>8. pinned \notin ToSet(new)
    BY <1>1, <1>2, <1>7, <2>1, TakeFieldsTyped DEF HostMemory, Mappings
  <2>9. pinned # None => size'[pinned] \in PinnedSizes
    BY <1>7, <2>5 DEF HostMemory, Memory, Mappings
  <2>10. Distinct(<<>>) /\ Len(<<>>) = 0
    BY DEF Distinct
  <2>11. QED
    BY <1>1, <1>4, <1>5, <2>2, <2>3, <2>4, <2>6, <2>7, <2>8, <2>9, <2>10 DEF Mappings
<1>11. \A g \in Frames : mem[g] = "leaked" => mem'[g] = "leaked"
  BY <1>1, <1>7
<1>12. QED
  BY <1>1, <1>4, <1>8, <1>9, <1>10, <1>11 DEF HostMemory

\* Taking a buffer out of the transfer's.
LEMMA RemainingFacts ==
  ASSUME HostMemory, call.stage = "take"
  PROVE  /\ Remaining \in Seq(Frames) /\ Len(Remaining) <= 2 /\ Distinct(Remaining)
         /\ ToSet(Remaining) = ToSet(call.bufs) \ Undersized
         /\ Undersized \subseteq ToSet(call.bufs) /\ Undersized \subseteq Frames
<1>1. PICK n \in Nat, bufs \in Seq(Frames) :
        /\ n = call.index /\ bufs = call.bufs /\ n <= Len(bufs) /\ Len(bufs) \in 0 .. 2
        /\ Distinct(bufs) /\ n + 1 \in Nat
  BY TakeFieldsTyped
<1>2. CASE n < Len(bufs)
  <2>1. PICK k \in 1 .. Len(bufs) : k = n + 1
    BY <1>1, <1>2
  <2>2. Undersized = {bufs[k]} /\ Remaining = RemoveAt(bufs, k)
    BY <1>1, <1>2, <2>1 DEF Undersized, Remaining
  <2>3. PICK r \in Seq(Frames) : /\ r = RemoveAt(bufs, k) /\ Len(r) = Len(bufs) - 1
                                 /\ \A j \in 1 .. Len(bufs) - 1 : r[j] = IF j < k THEN bufs[j] ELSE bufs[j + 1]
    BY Removed
  <2>4. Distinct(r)
    <3>1. Len(r) = 0 \/ Len(r) = 1
      BY <1>1, <1>2, <2>3
    <3>2. QED
      BY <3>1 DEF Distinct
  <2>5. ToSet(r) = ToSet(bufs) \ {bufs[k]}
    <3>1. ASSUME NEW j \in 1 .. Len(bufs) - 1 PROVE r[j] \in ToSet(bufs) \ {bufs[k]}
      <4>1. PICK i \in 1 .. Len(bufs) : i # k /\ r[j] = bufs[i]
        <5>1. CASE j < k
          BY <1>1, <2>3, <5>1
        <5>2. CASE ~(j < k)
          BY <1>1, <2>3, <5>2
        <5>3. QED
          BY <5>1, <5>2
      <4>2. QED
        BY <1>1, <4>1 DEF Distinct, ToSet
    <3>2. ASSUME NEW i \in 1 .. Len(bufs), i # k PROVE bufs[i] \in ToSet(r)
      <4>1. PICK j \in 1 .. Len(bufs) - 1 : r[j] = bufs[i]
        <5>1. CASE i < k
          BY SMTT(30), <1>1, <2>3, <5>1
        <5>2. CASE i > k
          <6>1. i - 1 \in 1 .. Len(bufs) - 1 /\ ~(i - 1 < k) /\ i - 1 + 1 = i
            BY <1>1, <5>2
          <6>2. QED
            BY <2>3, <6>1
        <5>3. QED
          BY <3>2, <5>1, <5>2
      <4>2. j \in DOMAIN r
        BY <1>1, <2>3, <4>1
      <4>3. QED
        BY <4>1, <4>2 DEF ToSet
    <3>3. \A j \in DOMAIN r : j \in 1 .. Len(bufs) - 1
      BY <1>1, <2>3
    <3>4. QED
      BY SMTT(30), <3>1, <3>2, <3>3 DEF ToSet
  <2>6. bufs[k] \in ToSet(bufs) /\ bufs[k] \in Frames /\ Len(r) <= 2
    BY <1>1, <2>3 DEF ToSet
  <2>7. QED
    BY <1>1, <2>2, <2>3, <2>4, <2>5, <2>6
<1>3. CASE ~(n < Len(bufs))
  <2>1. Undersized = {}
    BY <1>1, <1>3 DEF Undersized
  <2>2. Remaining = bufs
    BY <1>1, <2>1 DEF Remaining
  <2>3. Len(bufs) <= 2
    BY <1>1 DEF HostMemory, Mappings
  <2>4. QED
    BY <1>1, <2>1, <2>2, <2>3
<1>4. QED
  BY <1>2, <1>3

LEMMA TakeFailsMemory ==
  ASSUME HostMemory, TakeFails
  PROVE  /\ HostMemory' /\ call'.stage = "idle" /\ call'.x = call.x /\ call'.bufs = <<>>
         /\ \A g \in Frames : mem[g] = "leaked" => mem'[g] = "leaked"
<1>1. /\ call.stage = "take" /\ call.index < Needed
      /\ mem' = [g \in Frames |-> IF g \in Undersized THEN "unmapped" ELSE mem[g]]
      /\ pool' = Remaining /\ call' = [Idle EXCEPT !.x = call.x]
      /\ UNCHANGED <<half, pinned, size>>
  BY DEF TakeFails, Unmap
<1>2. call.x \in 0 .. MaxTransfers
  BY DEF HostMemory, Memory, Fields
<1>3. Fields' /\ Phases' /\ call'.stage = "idle" /\ call'.bufs = <<>> /\ ~call'.pin /\ call'.x = call.x
  BY <1>1, <1>2, ReturnsIdle
<1>4. /\ Remaining \in Seq(Frames) /\ Len(Remaining) <= 2 /\ Distinct(Remaining)
      /\ ToSet(Remaining) = ToSet(call.bufs) \ Undersized
      /\ Undersized \subseteq ToSet(call.bufs) /\ Undersized \subseteq Frames
  BY <1>1, RemainingFacts
<1>5. Memory'
  <2>1. mem' \in [Frames -> {"unmapped", "mapped", "leaked"}]
    BY <1>1 DEF HostMemory, Memory
  <2>2. QED
    BY <1>1, <1>3, <1>4, <2>1 DEF HostMemory, Memory
<1>6. /\ pinned \notin ToSet(call.bufs) /\ ToSet(pool) = {} /\ ToSet(<<>>) = {} /\ Len(<<>>) = 0
      /\ Distinct(<<>>) /\ \A g \in ToSet(call.bufs) : g \in Frames /\ size[g] \in 1 .. half
  BY <1>1, TakeFieldsTyped DEF HostMemory, Mappings, ToSet, Distinct
<1>7. \A g \in Frames : mem[g] = "mapped" <=> g \in ToSet(call.bufs) \cup {pinned}
  BY <1>6 DEF HostMemory, Mappings, Buffers
<1>8. \A g \in Frames : mem'[g] = "mapped" <=> g \in Buffers' \cup {pinned'}
  <2>1. Buffers' = ToSet(call.bufs) \ Undersized
    BY <1>1, <1>3, <1>4, <1>6 DEF Buffers
  <2>2. QED
    BY <1>1, <1>4, <1>6, <1>7, <2>1
<1>9. Mappings'
  <2>1. pinned' \notin ToSet(pool') /\ \A g \in ToSet(pool') : size'[g] \in 1 .. half'
    BY <1>1, <1>4, <1>6
  <2>2. pinned' # None => size'[pinned'] \in PinnedSizes
    BY <1>1 DEF HostMemory, Mappings
  <2>3. QED
    BY <1>1, <1>3, <1>4, <1>6, <1>8, <2>1, <2>2 DEF Mappings
<1>10. \A g \in Frames : mem[g] = "leaked" => mem'[g] = "leaked"
  BY <1>1, <1>4, <1>7
<1>11. QED
  BY <1>2, <1>3, <1>5, <1>9, <1>10 DEF HostMemory

\* With one buffer, the transfer fits it: that is how `Needed` is chosen.
LEMMA StagingChunkFits ==
  ASSUME HostMemory, call.stage = "take", call.index = Needed
  PROVE  /\ StagingChunk \in Nat /\ StagingChunk > 0 /\ call.bufs # <<>>
         /\ Len(call.bufs) = 1 => call.total <= StagingChunk
         /\ \A f \in ToSet(call.bufs) : StagingChunk <= size[f]
<1>1. PICK bufs \in Seq(Frames) : /\ bufs = call.bufs /\ Needed <= Len(bufs) /\ Len(bufs) \in 0 .. 2
                                  /\ Needed \in {1, 2}
  BY TakeFieldsTyped
<1>2. PICK h \in Nat, r \in Nat, t \in Nat :
        /\ h = half /\ r = Required /\ r > 0 /\ t = call.total /\ r = IF t < h THEN t ELSE h
        /\ r <= h
  <2>1. half \in Nat /\ call.total \in Nat /\ Required \in 1 .. half
    BY Typed, ReplacementFits DEF HostMemory, Memory, Fields
  <2>2. QED
    BY SMTT(30), <2>1 DEF Required, SmallerOf
<1>3. \A i \in 1 .. Len(bufs) : size[bufs[i]] \in Nat /\ size[bufs[i]] > 0
  <2>1. \A i \in 1 .. Len(bufs) : bufs[i] \in ToSet(call.bufs)
    BY <1>1 DEF ToSet
  <2>2. QED
    BY <1>2, <2>1, TakeFieldsTyped DEF HostMemory, Mappings
<1>4. ToSet(bufs) = {bufs[i] : i \in 1 .. Len(bufs)}
  BY DEF ToSet
<1>5. CASE Len(bufs) = 1
  <2>1. Needed = 1
    BY <1>1, <1>5
  <2>2. t <= h /\ r = t
    BY <1>2, <2>1 DEF Needed
  <2>3. PICK s \in Nat : s = size[bufs[1]] /\ s >= t /\ s > 0
    <3>1. 1 \in 1 .. Len(call.bufs) /\ 1 <= call.index
      BY <1>1, <1>5, <2>1
    <3>2. size[call.bufs[1]] >= Required
      BY <3>1 DEF HostMemory, Mappings
    <3>3. QED
      BY <1>1, <1>2, <1>3, <1>5, <2>2, <3>2
  <2>4. ToSet(bufs) = {bufs[1]}
    BY <1>4, <1>5
  <2>5. StagingChunk = s
    BY <1>1, <2>3, <2>4 DEF StagingChunk
  <2>6. QED
    BY <1>1, <1>2, <1>5, <2>3, <2>4, <2>5
<1>6. CASE Len(bufs) = 2
  <2>1. PICK a \in Nat, b \in Nat : a = size[bufs[1]] /\ b = size[bufs[2]] /\ a > 0 /\ b > 0
    BY <1>3, <1>6
  <2>2. ToSet(bufs) = {bufs[1], bufs[2]}
    BY <1>4, <1>6
  <2>3. {size[f] : f \in ToSet(call.bufs)} = {a, b}
    BY <1>1, <2>1, <2>2
  <2>4. PICK n \in {a, b} : n <= a /\ n <= b
    BY <2>1
  <2>5. n \in {size[f] : f \in ToSet(call.bufs)} /\ \A f \in ToSet(call.bufs) : n <= size[f]
    BY <1>1, <2>1, <2>2, <2>3, <2>4
  <2>6. StagingChunk \in {size[f] : f \in ToSet(call.bufs)} /\ \A f \in ToSet(call.bufs) : StagingChunk <= size[f]
    BY <2>5 DEF StagingChunk
  <2>7. StagingChunk \in Nat /\ StagingChunk > 0
    BY <2>1, <2>3, <2>6
  <2>8. bufs # <<>> /\ Len(bufs) # 1
    BY SMTT(30), <1>6
  <2>9. QED
    BY <1>1, <2>6, <2>7, <2>8
<1>7. QED
  <2>1. Len(bufs) = 1 \/ Len(bufs) = 2
    <3>1. PICK l \in 0 .. 2, m \in {1, 2} : l = Len(bufs) /\ m = Needed /\ m <= l
      BY <1>1
    <3>2. QED
      BY <3>1
  <2>2. QED
    BY <2>1, <1>5, <1>6

LEMMA TakeDoneMemory ==
  ASSUME HostMemory, TakeDone
  PROVE  /\ HostMemory' /\ call.stage = "take" /\ call'.stage \in {"push", "produce"}
         /\ call'.stage = (IF call.dir = "d2h" THEN "push" ELSE "produce")
         /\ call'.chunk = StagingChunk
         /\ UNCHANGED <<call.x, call.dir, call.pin, call.total, call.sq, call.bufs, call.index,
                        call.pushing, call.next, call.done, call.count, call.pending, call.awaiting,
                        call.error, call.dst>>
         /\ UNCHANGED hostMemory
<1>1. /\ call.stage = "take" /\ call.index = Needed /\ UNCHANGED hostMemory
      /\ call' = [call EXCEPT !.chunk = StagingChunk,
                              !.stage = IF call.dir = "d2h" THEN "push" ELSE "produce"]
  BY DEF TakeDone
<1>2. PICK stage \in {"push", "produce"}, n \in Nat :
        /\ stage = (IF call.dir = "d2h" THEN "push" ELSE "produce") /\ n = StagingChunk /\ n > 0
        /\ call.bufs # <<>> /\ (Len(call.bufs) = 1 => call.total <= n)
  BY <1>1, StagingChunkFits
<1>3. call' = [call EXCEPT !.chunk = n, !.stage = stage]
  BY <1>1, <1>2
<1>4. /\ DOMAIN call' = DOMAIN Idle /\ call'.chunk = n /\ call'.stage = stage
      /\ UNCHANGED <<call.x, call.dir, call.pin, call.total, call.sq, call.bufs, call.index,
                     call.pushing, call.next, call.done, call.count, call.pending, call.awaiting,
                     call.error, call.dst>>
  BY <1>3 DEF HostMemory, Memory, Fields, Idle
<1>5. UNCHANGED <<half, pool, pinned, mem, size>>
  BY <1>1 DEF hostMemory
<1>6. Memory'
  BY <1>2, <1>4, <1>5 DEF HostMemory, Memory, Fields, Stages
<1>7. Phases'
  BY <1>1, <1>2, <1>4, <1>5 DEF HostMemory, Phases, Moving
<1>8. Mappings'
  BY <1>1, <1>2, <1>4, <1>5 DEF HostMemory, Mappings, Buffers
<1>9. QED
  BY <1>1, <1>2, <1>4, <1>6, <1>7, <1>8 DEF HostMemory

\* The buffers go back to the pool, or stay mapped for the device and belong to
\* nobody from then on.
LEMMA RestoreMemory ==
  ASSUME HostMemory, Restore
  PROVE  /\ HostMemory' /\ call.stage = "restore" /\ call'.stage = "idle" /\ call'.x = call.x
         /\ call'.bufs = <<>>
         /\ \A g \in Frames : mem[g] = "leaked" => mem'[g] = "leaked"
         /\ MayBeInFlight => \A g \in ToSet(call.bufs) : mem'[g] = "leaked"
<1>1. /\ call.stage = "restore" /\ call' = [Idle EXCEPT !.x = call.x]
      /\ UNCHANGED <<half, size>>
  BY DEF Restore
<1>2. /\ call.x \in 0 .. MaxTransfers /\ call.bufs \in Seq(Frames) /\ ToSet(call.bufs) \subseteq Frames
      /\ ToSet(pool) \subseteq Frames
  BY SMTT(30) DEF HostMemory, Memory, Fields, ToSet
<1>3. Fields' /\ Phases' /\ call'.stage = "idle" /\ call'.bufs = <<>> /\ ~call'.pin /\ call'.x = call.x
  BY <1>1, <1>2, ReturnsIdle
<1>4. /\ ToSet(<<>>) = {} /\ Len(<<>>) = 0 /\ Distinct(<<>>)
  BY DEF ToSet, Distinct
<1>5. \A g \in Frames : mem[g] = "mapped" <=> g \in ToSet(pool) \cup ToSet(call.bufs) \cup {pinned}
  BY DEF HostMemory, Mappings, Buffers
<1>6. CASE MayBeInFlight
  <2>1. /\ mem' = [g \in Frames |-> IF g \in ToSet(call.bufs) THEN "leaked" ELSE mem[g]]
        /\ pinned' = (IF call.pin THEN None ELSE pinned) /\ pool' = pool
    BY <1>6 DEF Restore, Leak, EmptyPinned
  <2>2. Memory'
    <3>1. mem' \in [Frames -> {"unmapped", "mapped", "leaked"}]
      BY <2>1 DEF HostMemory, Memory
    <3>2. QED
      BY <1>1, <1>3, <2>1, <3>1 DEF HostMemory, Memory
  <2>3. Buffers' = ToSet(pool)
    BY <1>3, <1>4, <2>1 DEF Buffers
  <2>4. \* What the transfer had belongs to nobody else.
        ToSet(pool) \cap ToSet(call.bufs) = {} /\ pinned' \notin ToSet(call.bufs)
        /\ pinned' \in {pinned, None} /\ (pinned' # pinned => pinned \in ToSet(call.bufs))
    <3>1. CASE call.pin
      <4>1. pinned \in Frames /\ call.bufs = <<pinned>> /\ pinned \notin ToSet(pool)
        BY <3>1 DEF HostMemory, Phases, Mappings
      <4>2. ToSet(call.bufs) = {pinned}
        BY <4>1 DEF ToSet
      <4>3. QED
        BY <2>1, <3>1, <4>1, <4>2, Typed
    <3>2. CASE ~call.pin
      <4>1. pool = <<>> /\ pinned \notin ToSet(call.bufs)
        BY <1>1, <3>2 DEF HostMemory, Phases, Mappings
      <4>2. QED
        BY <1>4, <2>1, <3>2, <4>1
    <3>3. QED
      BY <3>1, <3>2
  <2>5. \A g \in Frames : mem'[g] = "mapped" <=> g \in Buffers' \cup {pinned'}
    BY <1>5, <2>1, <2>3, <2>4, Typed
  <2>6. Mappings'
    <3>1. Distinct(pool') /\ Len(pool') <= 2 /\ \A g \in ToSet(pool') : size'[g] \in 1 .. half'
      BY <1>1, <2>1 DEF HostMemory, Mappings
    <3>2. pinned' \notin ToSet(pool')
      BY <1>2, <2>1, <2>4, Typed DEF HostMemory, Mappings
    <3>3. pinned' # None => size'[pinned'] \in PinnedSizes
      BY <1>1, <2>1 DEF HostMemory, Mappings
    <3>4. Distinct(call'.bufs) /\ Len(call'.bufs) <= 2 /\ ToSet(call'.bufs) = {}
      BY <1>3, <1>4
    <3>5. QED
      BY <1>3, <2>5, <3>1, <3>2, <3>3, <3>4 DEF Mappings
  <2>7. QED
    BY <1>1, <1>2, <1>3, <2>1, <2>2, <2>6 DEF HostMemory
<1>7. CASE ~MayBeInFlight
  <2>1. /\ mem' = mem /\ pinned' = pinned /\ pool' = (IF call.pin THEN pool ELSE call.bufs)
    BY <1>7 DEF Restore
  <2>2. Memory'
    BY <1>1, <1>2, <1>3, <2>1 DEF HostMemory, Memory
  <2>3. Buffers' = ToSet(pool')
    BY <1>3, <1>4 DEF Buffers
  <2>4. ToSet(pool') \cup {pinned} = ToSet(pool) \cup ToSet(call.bufs) \cup {pinned}
    <3>1. CASE call.pin
      <4>1. ToSet(call.bufs) = {pinned}
        BY <3>1 DEF HostMemory, Phases, ToSet
      <4>2. QED
        BY <2>1, <3>1, <4>1
    <3>2. CASE ~call.pin
      BY <1>1, <1>4, <2>1, <3>2 DEF HostMemory, Phases
    <3>3. QED
      BY <3>1, <3>2
  <2>5. Mappings'
    <3>1. \A g \in Frames : mem'[g] = "mapped" <=> g \in Buffers' \cup {pinned'}
      BY <1>5, <2>1, <2>3, <2>4
    <3>2. Distinct(pool') /\ Len(pool') <= 2 /\ pinned' \notin ToSet(pool')
          /\ \A g \in ToSet(pool') : size'[g] \in 1 .. half'
      BY <1>1, <2>1 DEF HostMemory, Mappings
    <3>3. QED
      BY <1>1, <1>3, <1>4, <2>1, <3>1, <3>2 DEF HostMemory, Mappings
  <2>6. QED
    BY <1>1, <1>3, <1>7, <2>1, <2>2, <2>5 DEF HostMemory
<1>8. QED
  BY <1>6, <1>7

\* The device changes what is in the memory, not whose it is.
LEMMA SameMemory ==
  ASSUME HostMemory, UNCHANGED hostMemory, call' = call
  PROVE  HostMemory'
<1>1. UNCHANGED <<half, pool, pinned, mem, size, call>>
  BY DEF hostMemory
<1>2. Memory'
  BY <1>1 DEF HostMemory, Memory, Fields
<1>3. Phases'
  BY <1>1 DEF HostMemory, Phases, Moving, Needed
<1>4. Mappings'
  BY <1>1 DEF HostMemory, Mappings, Buffers, Required
<1>5. QED
  BY <1>2, <1>3, <1>4 DEF HostMemory

LEMMA InitMemory ==
  ASSUME Init
  PROVE  HostMemory
<1>1. /\ half \in Halves /\ pool = <<>> /\ pinned = None /\ mem = [f \in Frames |-> "unmapped"]
      /\ size = [f \in Frames |-> 0] /\ call = Idle
  BY DEF Init
<1>2. /\ DOMAIN call = DOMAIN Idle /\ call.stage = "idle" /\ call.x = 0 /\ call.dir = "h2d"
      /\ call.pin = FALSE /\ call.total = 0 /\ call.bufs = <<>> /\ call.chunk = 1
      /\ call.index = 0 /\ call.pushing = 0 /\ call.next = 0 /\ call.done = 0 /\ call.count = 0
      /\ call.pending = <<>> /\ call.awaiting = <<>> /\ call.error = "none"
      /\ call = [Idle EXCEPT !.x = call.x]
  BY <1>1 DEF Idle
<1>3. Fields
  <2>1. 0 \in 0 .. MaxTotal /\ 0 \in 0 .. MaxTransfers /\ <<>> \in Seq(Frames) /\ <<>> \in Seq(Nat)
        /\ 0 \in Nat /\ 1 \in Nat
    BY Typed
  <2>2. /\ call.total \in 0 .. MaxTotal /\ call.bufs \in Seq(Frames) /\ call.chunk \in Nat
        /\ call.index \in Nat /\ call.pushing \in Nat /\ call.next \in Nat /\ call.done \in Nat
        /\ call.count \in Nat /\ call.pending \in Seq(Nat) /\ call.awaiting \in Seq(Nat)
        /\ call.x \in 0 .. MaxTransfers
    BY <1>2, <2>1
  <2>3. /\ call.stage \in Stages /\ call.dir \in {"h2d", "fill", "d2h"} /\ call.pin \in BOOLEAN
        /\ call.error \in {"none", "inflight", "definite"} /\ DOMAIN call = DOMAIN Idle
    BY <1>2 DEF Stages
  <2>4. QED
    BY <2>2, <2>3 DEF Fields
<1>4. Memory
  BY <1>1, <1>3 DEF Memory
<1>5. Phases
  BY <1>1, <1>2 DEF Phases, Moving
<1>6. Mappings
  <2>1. ToSet(<<>>) = {} /\ Len(<<>>) = 0 /\ Distinct(<<>>)
    BY DEF ToSet, Distinct
  <2>2. QED
    BY <1>1, <1>2, <2>1, Typed DEF Mappings, Buffers
<1>7. QED
  BY <1>4, <1>5, <1>6 DEF HostMemory
-----------------------------------------------------------------------------
(***************************************************************************)
(* The chunks pushed.                                                      *)
(***************************************************************************)
LEMMA ChunkStarts ==
  ASSUME NEW t \in Nat, NEW c \in Nat, NEW k \in Nat, t > 0, c > 0
  PROVE  k <= (t - 1) \div c => k * c < t
<1>1. PICK n \in Nat : n = (t - 1) \div c /\ c * n <= t - 1
  OBVIOUS
<1>2. ASSUME k <= n PROVE k * c < t
  <2>1. PICK d \in Nat : n = k + d
    BY <1>2
  <2>2. c * n = c * k + c * d /\ c * d \in Nat /\ c * k \in Nat /\ k * c = c * k
    BY <2>1
  <2>3. QED
    BY <1>1, <2>2
<1>3. QED
  BY <1>1, <1>2

LEMMA NextChunkStarts ==
  ASSUME Fields, call.total > 0, call.chunk > 0
  PROVE  \A k \in Nat : k <= LastChunk => Offset(k) < call.total
<1>1. PICK t \in Nat, c \in Nat : t = call.total /\ c = call.chunk /\ t > 0 /\ c > 0
  BY Typed DEF Fields
<1>2. \A k \in Nat : k <= (t - 1) \div c => k * c < t
  BY <1>1, ChunkStarts
<1>3. QED
  BY <1>1, <1>2 DEF LastChunk, Offset

\* A transfer starts with nothing pushed.
StartsPushing ==
  /\ Fields /\ call.stage \in {"produce", "push"} /\ call.pushing = 0 /\ call.next = 0
  /\ call.count = 0 /\ call.pending = <<>> /\ call.awaiting = <<>> /\ call.total > 0 /\ call.chunk > 0
StartedPushing == Pushing /\ Pushed = 0 /\ Outstanding = {}

LEMMA NothingPushed == StartsPushing => StartedPushing
<1> SUFFICES ASSUME StartsPushing PROVE StartedPushing
  OBVIOUS
<1>1. Pushed = 0
  <2>1. PICK c \in Nat : c = call.chunk
    BY DEF StartsPushing, Fields
  <2>2. 0 * c = 0
    BY <2>1
  <2>3. QED
    BY <2>1, <2>2 DEF StartsPushing, Pushed, Offset
<1>2. Outstanding = {} /\ Len(call.pending) = 0
  BY DEF StartsPushing, Outstanding, ToSet
<1>3. QED
  BY <1>1, <1>2 DEF StartsPushing, StartedPushing, Pushing

LEMMA NothingPushedNext ==
  ASSUME Fields', call'.stage \in {"produce", "push"}, call'.pushing = 0, call'.next = 0,
         call'.count = 0, call'.pending = <<>>, call'.awaiting = <<>>, call'.total > 0, call'.chunk > 0
  PROVE  Pushing' /\ Pushed' = 0 /\ Outstanding' = {}
<1>1. StartsPushing' => StartedPushing'
  BY NothingPushed, PTL
<1>2. StartsPushing'
  BY DEF StartsPushing
<1>3. QED
  BY <1>1, <1>2 DEF StartedPushing

LEMMA PushedTyped ==
  ASSUME Fields
  PROVE  Offset(call.pushing) \in Nat /\ Pushed \in Nat /\ Pushed = Offset(call.pushing) + call.next
<1>1. call.pushing \in Nat /\ call.next \in Nat
  BY DEF Fields
<1>2. Offset(call.pushing) \in Nat
  BY <1>1, OffsetTyped
<1>3. QED
  BY <1>1, <1>2 DEF Pushed

LEMMA Appended ==
  ASSUME NEW S, NEW s \in Seq(S), NEW x \in S
  PROVE  /\ Append(s, x) \in Seq(S) /\ Len(Append(s, x)) = Len(s) + 1
         /\ \A i \in 1 .. Len(s) : Append(s, x)[i] = s[i]
         /\ Append(s, x)[Len(s) + 1] = x
         /\ ToSet(Append(s, x)) = ToSet(s) \cup {x}
<1>1. PICK n \in Nat : n = Len(s)
  OBVIOUS
<1>2. PICK a \in Seq(S) : /\ a = Append(s, x) /\ Len(a) = n + 1 /\ a[n + 1] = x
                         /\ \A i \in 1 .. n : a[i] = s[i]
  <2>1. /\ Append(s, x) \in Seq(S) /\ Len(Append(s, x)) = n + 1 /\ Append(s, x)[n + 1] = x
        /\ \A i \in 1 .. n : Append(s, x)[i] = s[i]
    BY <1>1, AppendProperties
  <2>2. QED
    BY <2>1
<1>3. DOMAIN s = 1 .. n /\ DOMAIN a = 1 .. n + 1 /\ 1 .. n + 1 = 1 .. n \cup {n + 1}
  BY <1>1, <1>2
<1>4. ToSet(a) = ToSet(s) \cup {x}
  BY <1>2, <1>3 DEF ToSet
<1>5. QED
  BY <1>1, <1>2, <1>4

LEMMA PushPushing ==
  ASSUME HostMemory, Pushing, Push
  PROVE  Pushing' /\ Pushed \in Nat /\ Pushed' \in Nat /\ Pushed < Pushed' /\ call.awaiting = <<>>
         /\ Pushed < call.total
<1>0. /\ Fields /\ call.stage = "push" /\ call.next < call.chunk /\ Pushed < call.total
      /\ call.awaiting = <<>> /\ call.total > 0 /\ call.chunk > 0 /\ call.count <= Len(call.pending)
      /\ \A t \in Outstanding : t < Pushed
  BY DEF HostMemory, Memory, Push, Pushing, Phases, Moving
<1>1. /\ Fields' /\ call'.pending = Append(call.pending, Pushed)
      /\ UNCHANGED <<Kept, call.done, call.awaiting, call.error, call.dst>>
      /\ \/ /\ call.next + CommandLen < ChunkLen(call.pushing)
            /\ call'.stage = "push" /\ call'.next = call.next + CommandLen
            /\ UNCHANGED <<call.pushing, call.count>>
         \/ /\ call.next + CommandLen = ChunkLen(call.pushing)
            /\ call'.pushing = call.pushing + 1 /\ call'.next = 0
            /\ \/ /\ call.pushing = 0 /\ (call.dir = "d2h" \/ call.pin)
                  /\ call'.count = Len(call'.pending)
                  /\ call'.stage = IF LastChunk >= 1 THEN "push" ELSE "drain"
               \/ /\ ~(call.pushing = 0 /\ (call.dir = "d2h" \/ call.pin))
                  /\ call'.count = call.count /\ call'.stage = "drain"
  BY <1>0, PushFields
<1>2. PICK o \in Nat, p \in Nat, n \in Nat, m \in Nat, l \in Nat, c \in Nat, t \in Nat, k \in Nat :
        /\ o = Offset(call.pushing) /\ p = Pushed /\ n = call.next /\ p = o + n /\ m = CommandLen
        /\ l = ChunkLen(call.pushing) /\ c = call.chunk /\ t = call.total /\ k = call.pushing
        /\ m > 0 /\ n + m <= l /\ l <= c /\ o + l <= t /\ t <= MaxTotal
  <2>1. /\ Offset(call.pushing) \in Nat /\ ChunkLen(call.pushing) \in Nat
        /\ ChunkLen(call.pushing) <= call.chunk
        /\ Offset(call.pushing) + ChunkLen(call.pushing) <= call.total
        /\ CommandLen \in Nat /\ CommandLen > 0
        /\ call.next + CommandLen <= ChunkLen(call.pushing)
    BY <1>0, CommandFacts
  <2>2. /\ call.next \in Nat /\ call.chunk \in Nat /\ call.total \in Nat /\ call.pushing \in Nat
        /\ call.total <= MaxTotal
    BY <1>0, Typed DEF Fields
  <2>3. QED
    BY <1>0, <2>1, <2>2, PushedTyped
<1>3. /\ call'.chunk = c /\ call'.total = t /\ call'.awaiting = <<>> /\ call'.error = call.error
      /\ Len(call'.pending) = Len(call.pending) + 1 /\ Len(call.pending) \in Nat
      /\ Outstanding' = Outstanding \cup {Pushed}
  <2>1. /\ call'.chunk = c /\ call'.total = t /\ call'.awaiting = call.awaiting
        /\ call.pending \in Seq(Nat)
    BY <1>0, <1>1, <1>2 DEF Kept, Fields
  <2>2. call.pending \in Seq(Nat) /\ Pushed \in Nat
    BY <1>2, <2>1
  <2>3. PICK s \in Seq(Nat), x \in Nat : s = call.pending /\ x = Pushed
    BY <2>2
  <2>4. ToSet(Append(s, x)) = ToSet(s) \cup {x} /\ Len(Append(s, x)) = Len(s) + 1
    BY Appended
  <2>5. ToSet(<<>>) = {}
    BY DEF ToSet
  <2>6. QED
    BY <1>0, <1>1, <2>1, <2>3, <2>4, <2>5 DEF Outstanding
<1>4. call.count \in Nat /\ call'.count \in Nat
  BY <1>0, <1>1 DEF Fields
<1>5. CASE call'.stage = "push" /\ call'.next = n + m /\ n + m < l /\ UNCHANGED <<call.pushing, call.count>>
  <2>0. call'.next = n + m /\ n + m < l /\ call'.chunk = c /\ call'.total = t
    BY <1>3, <1>5
  <2>1. Pushed' = p + m
    <3>1. Offset(k)' = o
      BY <1>1, <1>2, <1>3, <1>5 DEF Offset
    <3>2. Pushed' = Offset(k)' + (n + m)
      BY <1>2, <1>5 DEF Pushed
    <3>3. QED
      BY <1>2, <3>1, <3>2
  <2>2. /\ call'.next < call'.chunk /\ Pushed' < call'.total /\ Pushed' \in Nat /\ Pushed < Pushed'
    <3>1. n + m < c /\ p + m < t /\ p + m \in Nat /\ p < p + m /\ p = Pushed
      BY <1>2, <2>0
    <3>2. QED
      BY <2>0, <2>1, <3>1
  <2>3. \A x \in Outstanding' : x < Pushed' /\ x < call'.total
    <3>1. \A x \in Outstanding : x \in Nat /\ x < Pushed
      <4>1. call.pending \in Seq(Nat) /\ call.awaiting \in Seq(Nat)
        BY <1>0 DEF Fields
      <4>2. QED
        BY <1>0, <4>1 DEF Outstanding, ToSet
    <3>2. QED
      <4>1. \A x \in Nat : x < p \/ x = p => x < p + m /\ x < t
        BY <1>2, <2>0
      <4>2. Outstanding' = Outstanding \cup {p} /\ p = Pushed
        BY <1>2, <1>3
      <4>3. QED
        BY <2>0, <2>1, <3>1, <4>1, <4>2
  <2>4. call'.count <= Len(call'.pending)
    BY <1>0, <1>3, <1>4, <1>5
  <2>5. call'.pushing = 0 => call'.count = 0
    BY <1>0, <1>5 DEF Pushing
  <2>6. Pushing'
    BY <1>3, <1>5, <2>2, <2>3, <2>4, <2>5 DEF Pushing, Moving
  <2>7. QED
    BY <1>0, <1>2, <2>2, <2>6
<1>6. CASE /\ n + m = l /\ call'.pushing = k + 1 /\ call'.next = 0 /\ call'.stage \in {"push", "drain"}
           /\ call'.count <= Len(call'.pending)
           /\ call'.stage = "push" => LastChunk >= 1 /\ k = 0
  <2>0. n + m = l /\ call'.next = 0 /\ call'.total = t
    BY <1>3, <1>6
  <2>1. Pushed' = o + c /\ Pushed' \in Nat
    <3>1. Offset(k + 1)' = Offset(k + 1) /\ Offset(k + 1) = o + c
      <4>1. Offset(k + 1) = o + c
        BY <1>0, <1>2, OffsetTyped
      <4>2. call'.chunk = call.chunk
        BY <1>2, <1>3
      <4>3. QED
        BY <4>1, <4>2 DEF Offset
    <3>2. Pushed' = Offset(k + 1)' + 0
      BY <1>6 DEF Pushed
    <3>3. QED
      BY <1>2, <3>1, <3>2
  <2>2. Pushed < Pushed'
    BY <1>2, <2>0, <2>1
  <2>3. \A x \in Outstanding' : x < Pushed' /\ x < call'.total
    <3>1. \A x \in Outstanding : x \in Nat /\ x < Pushed
      <4>1. call.pending \in Seq(Nat) /\ call.awaiting \in Seq(Nat)
        BY <1>0 DEF Fields
      <4>2. QED
        BY <1>0, <4>1 DEF Outstanding, ToSet
    <3>2. QED
      <4>1. p < t
        BY <1>0, <1>2
      <4>2. \A x \in Nat : x < p \/ x = p => x < o + c /\ x < t
        BY <1>2, <2>0, <4>1
      <4>3. Outstanding' = Outstanding \cup {p} /\ p = Pushed
        BY <1>2, <1>3
      <4>4. QED
        BY <2>0, <2>1, <3>1, <4>2, <4>3
  <2>4. call'.stage = "push" => Pushed' < call'.total /\ call'.next < call'.chunk
    <3>1. SUFFICES ASSUME call'.stage = "push" PROVE Pushed' < call'.total /\ call'.next < call'.chunk
      OBVIOUS
    <3>2. Offset(1) < call.total
      <4>1. 1 <= LastChunk
        BY <1>6, <3>1
      <4>2. QED
        BY <1>0, <4>1, NextChunkStarts
    <3>3. Offset(1) = o + c
      <4>1. Offset(0 + 1) = Offset(0) + call.chunk
        BY <1>0, OffsetTyped
      <4>2. QED
        BY <1>2, <1>6, <3>1, <4>1
    <3>4. QED
      BY <1>0, <1>2, <1>3, <1>6, <2>1, <3>2, <3>3
  <2>5. call'.pushing # 0
    BY <1>2, <1>6
  <2>6. Pushing'
    BY <1>3, <1>6, <2>3, <2>4, <2>5 DEF Pushing, Moving
  <2>7. QED
    BY <1>0, <1>2, <2>1, <2>2, <2>6
<1>7. QED
  <2>1. CASE call.next + CommandLen < ChunkLen(call.pushing)
    BY <1>1, <1>2, <1>5, <2>1
  <2>2. CASE call.next + CommandLen = ChunkLen(call.pushing)
    <3>1. /\ n + m = l /\ call'.pushing = k + 1 /\ call'.next = 0 /\ call'.stage \in {"push", "drain"}
          /\ call'.stage = "push" => LastChunk >= 1 /\ k = 0
          /\ call'.count = Len(call'.pending) \/ call'.count = call.count
      <4>1. ~(call.next + CommandLen < ChunkLen(call.pushing)) /\ n + m = l
        BY <1>2, <2>2
      <4>2. /\ call'.pushing = call.pushing + 1 /\ call'.next = 0
            /\ \/ /\ call.pushing = 0
                  /\ call'.count = Len(call'.pending)
                  /\ call'.stage = IF LastChunk >= 1 THEN "push" ELSE "drain"
               \/ /\ call'.count = call.count /\ call'.stage = "drain"
        BY <1>1, <4>1
      <4>3. call.pushing = k
        BY <1>2
      <4>4. call'.stage \in {"push", "drain"} /\ (call'.stage = "push" => LastChunk >= 1 /\ call.pushing = 0)
        BY <4>2
      <4>5. QED
        BY <4>1, <4>2, <4>3, <4>4
    <3>2. call'.count <= Len(call'.pending)
      BY <1>0, <1>3, <1>4, <3>1
    <3>3. QED
      BY <1>6, <3>1, <3>2
  <2>3. QED
    BY <1>1, <1>2, <2>1, <2>2

\* The steps of a transfer other than Push leave the chunks pushed as they are.
OtherStep == Produce \/ PushFails \/ Drain \/ Collect \/ WaitFails \/ AwaitDone

LEMMA SamePushed ==
  ASSUME HostMemory, Pushing, OtherStep
  PROVE  Pushed' = Pushed /\ UNCHANGED <<call.pushing, call.chunk, call.total>>
<1>0. HostMemory' /\ Fields /\ UNCHANGED Kept
  BY MovingMemory DEF OtherStep, HostMemory, Memory
<1>1. UNCHANGED <<call.chunk, call.total>>
  BY <1>0 DEF Kept
<1>2. UNCHANGED call.pushing /\ call'.next = call.next
  <2>1. CASE Produce
    BY <1>0, <2>1, ProduceFields DEF Pushing
  <2>2. CASE PushFails \/ WaitFails
    BY <1>0, <2>2, FailFields DEF PushFails, WaitFails
  <2>3. CASE Drain
    BY <1>0, <2>3, DrainFields DEF Pushing, Drain
  <2>4. CASE Collect
    BY <1>0, <2>4, CollectFields
  <2>5. CASE AwaitDone
    BY <1>0, <2>5, AwaitDoneFields
  <2>6. QED
    BY <2>1, <2>2, <2>3, <2>4, <2>5 DEF OtherStep
<1>3. QED
  BY <1>1, <1>2 DEF Pushed, Offset

\* Draining only moves tags.
LEMMA DrainTags ==
  ASSUME Fields, Drain, call.count <= Len(call.pending)
  PROVE  /\ ToSet(call'.awaiting) = Older /\ ToSet(call'.pending) = Newer /\ Newer' = Newer /\ Older' = {}
<1>1. PICK s \in Seq(Nat), n \in Nat, l \in Nat : s = call.pending /\ n = call.count /\ l = Len(s) /\ n <= l
  BY DEF Fields
<1>2. call.stage = "drain" /\ call'.stage = "await"
      /\ call'.awaiting = SubSeq(s, 1, n) /\ call'.pending = SubSeq(s, n + 1, l)
  BY <1>1, DrainFields
<1>3. Older = {s[j] : j \in {i \in 1 .. l : i <= n}} /\ Newer = {s[j] : j \in {i \in 1 .. l : i > n}}
  BY <1>1, <1>2 DEF Older, Newer
<1>4. /\ SubSeq(s, 1, n) \in Seq(Nat) /\ Len(SubSeq(s, 1, n)) = n
      /\ \A i \in 1 .. n : SubSeq(s, 1, n)[i] = s[i]
  <2>1. /\ SubSeq(s, 0 + 1, n) \in Seq(Nat) /\ Len(SubSeq(s, 0 + 1, n)) = n - 0
        /\ \A i \in 1 .. n - 0 : SubSeq(s, 0 + 1, n)[i] = s[0 + i]
    BY <1>1, SubSequence
  <2>2. QED
    BY <1>1, <2>1
<1>5. /\ SubSeq(s, n + 1, l) \in Seq(Nat) /\ Len(SubSeq(s, n + 1, l)) = l - n
      /\ \A i \in 1 .. l - n : SubSeq(s, n + 1, l)[i] = s[n + i]
  <2>1. PICK m \in Nat, k \in Nat : m = n /\ k = l /\ m <= k /\ k <= Len(s)
    BY <1>1
  <2>2. /\ SubSeq(s, m + 1, k) \in Seq(Nat) /\ Len(SubSeq(s, m + 1, k)) = k - m
        /\ \A i \in 1 .. k - m : SubSeq(s, m + 1, k)[i] = s[m + i]
    BY <2>1, SubSequence
  <2>3. QED
    BY <2>1, <2>2
<1>6. ToSet(SubSeq(s, 1, n)) = Older
  <2>1. PICK a \in Seq(Nat) : a = SubSeq(s, 1, n) /\ Len(a) = n /\ \A i \in 1 .. n : a[i] = s[i]
    BY <1>4
  <2>2. DOMAIN a = {i \in 1 .. l : i <= n} /\ DOMAIN a = 1 .. n
    BY <1>1, <2>1
  <2>3. QED
    BY <1>3, <2>1, <2>2 DEF ToSet
<1>7. ToSet(SubSeq(s, n + 1, l)) = Newer
  <2>1. PICK a \in Seq(Nat) : a = SubSeq(s, n + 1, l) /\ Len(a) = l - n
                              /\ \A i \in 1 .. l - n : a[i] = s[n + i]
    BY <1>5
  <2>2. DOMAIN a = 1 .. l - n
    BY <1>1, <2>1
  <2>3. \A i \in 1 .. l - n : n + i \in {j \in 1 .. l : j > n}
    BY SMTT(30), <1>1
  <2>4. \A j \in {i \in 1 .. l : i > n} : j - n \in 1 .. l - n /\ n + (j - n) = j
    BY SMTT(30), <1>1
  <2>5. ASSUME NEW j \in {i \in 1 .. l : i > n} PROVE s[j] \in ToSet(a)
    BY <2>1, <2>2, <2>4 DEF ToSet
  <2>6. ASSUME NEW i \in 1 .. l - n PROVE a[i] \in Newer
    BY <1>3, <2>1, <2>3
  <2>7. ToSet(a) = {a[i] : i \in 1 .. l - n}
    BY <2>2 DEF ToSet
  <2>8. QED
    BY <1>3, <2>1, <2>5, <2>6, <2>7
<1>8. Newer' = ToSet(call'.pending) /\ Older' = {}
  <2>1. DOMAIN call'.pending = 1 .. Len(call'.pending)
    BY <1>2, <1>5
  <2>2. QED
    BY <1>2, <2>1 DEF Newer, Older, ToSet
<1>9. QED
  BY <1>2, <1>6, <1>7, <1>8

\* What the two parts of `pending` are.
TwoParts ==
  /\ ToSet(call.pending) = Older \cup Newer
  /\ ToSet(call.pending) \subseteq Nat /\ ToSet(call.awaiting) \subseteq Nat
  /\ call.stage = "await" => Older = {} /\ Newer = ToSet(call.pending)
  /\ call.stage # "await" /\ call.count = Len(call.pending) => Newer = {} /\ Older = ToSet(call.pending)

LEMMA GroupsNow == Fields => TwoParts
<1> SUFFICES ASSUME Fields PROVE TwoParts
  OBVIOUS
<1>1. PICK s \in Seq(Nat), n \in Nat, l \in Nat : s = call.pending /\ n = call.count /\ l = Len(s)
  BY DEF Fields
<1>2. ToSet(s) = {s[j] : j \in 1 .. l} /\ ToSet(s) \subseteq Nat /\ ToSet(call.awaiting) \subseteq Nat
  <2>1. call.awaiting \in Seq(Nat)
    BY DEF Fields
  <2>2. QED
    BY <1>1, <2>1 DEF ToSet
<1>3. CASE call.stage = "await"
  <2>1. Older = {} /\ Newer = ToSet(s)
    BY <1>1, <1>2, <1>3 DEF Older, Newer
  <2>2. QED
    BY <1>1, <1>2, <1>3, <2>1 DEF TwoParts
<1>4. CASE call.stage # "await"
  <2>1. Older = {s[j] : j \in {i \in 1 .. l : i <= n}} /\ Newer = {s[j] : j \in {i \in 1 .. l : i > n}}
    BY <1>1, <1>4 DEF Older, Newer
  <2>2. \A j \in 1 .. l : j <= n \/ j > n
    BY <1>1
  <2>3. ToSet(s) = Older \cup Newer
    BY <1>2, <2>1, <2>2
  <2>4. n = l => Newer = {} /\ Older = ToSet(s)
    <3>1. n = l => \A j \in 1 .. l : j <= n /\ ~(j > n)
      BY <1>1
    <3>2. QED
      BY <1>2, <2>1, <3>1
  <2>5. QED
    BY <1>1, <1>2, <1>4, <2>3, <2>4 DEF TwoParts
<1>5. QED
  BY <1>3, <1>4

LEMMA Groups ==
  ASSUME Fields
  PROVE  /\ ToSet(call.pending) = Older \cup Newer
         /\ ToSet(call.pending) \subseteq Nat /\ ToSet(call.awaiting) \subseteq Nat
         /\ call.stage = "await" => Older = {} /\ Newer = ToSet(call.pending)
         /\ call.stage # "await" /\ call.count = Len(call.pending) =>
              Newer = {} /\ Older = ToSet(call.pending)
BY GroupsNow DEF TwoParts

LEMMA GroupsNext ==
  ASSUME Fields'
  PROVE  /\ ToSet(call'.pending) = Older' \cup Newer'
         /\ call'.stage # "await" /\ call'.count = Len(call'.pending) =>
              Newer' = {} /\ Older' = ToSet(call'.pending)
<1>1. Fields' => TwoParts'
  BY GroupsNow, PTL
<1>2. QED
  BY <1>1 DEF TwoParts

\* Collecting a command takes its tag out of those drained, which only shrink.
LEMMA TailSet ==
  ASSUME NEW S, NEW s \in Seq(S), s # <<>>
  PROVE  /\ ToSet(Tail(s)) \subseteq ToSet(s) /\ Head(s) \in ToSet(s) /\ Head(s) \in S
         /\ ToSet(s) = ToSet(Tail(s)) \cup {Head(s)}
         /\ Tail(s) \in Seq(S) /\ Len(Tail(s)) = Len(s) - 1 /\ Head(s) = s[1]
         /\ \A i \in 1 .. Len(s) - 1 : Tail(s)[i] = s[i + 1]
<1>1. PICK l \in Nat : l = Len(s) /\ l > 0
  BY EmptySeq
<1>2. PICK t \in Seq(S) : /\ t = Tail(s) /\ Len(t) = l - 1 /\ \A i \in 1 .. l - 1 : t[i] = s[i + 1]
  <2>1. Tail(s) \in Seq(S) /\ Len(Tail(s)) = l - 1 /\ \A i \in 1 .. l - 1 : Tail(s)[i] = s[i + 1]
    BY <1>1, HeadTailProperties
  <2>2. QED
    BY <2>1
<1>3. Head(s) = s[1] /\ DOMAIN t = 1 .. l - 1 /\ DOMAIN s = 1 .. l /\ s[1] \in S
  BY <1>1, <1>2
<1>4. ToSet(t) \subseteq ToSet(s)
  <2>1. \A i \in 1 .. l - 1 : i + 1 \in 1 .. l
    BY <1>1
  <2>2. QED
    BY <1>2, <1>3, <2>1 DEF ToSet
<1>5. ToSet(s) \subseteq ToSet(t) \cup {s[1]}
  <2>1. ASSUME NEW i \in 1 .. l, i # 1 PROVE s[i] \in ToSet(t)
    <3>1. PICK j \in 1 .. l - 1 : j + 1 = i
      <4>1. i - 1 \in 1 .. l - 1 /\ i - 1 + 1 = i
        BY <1>1, <2>1
      <4>2. QED
        BY <4>1
    <3>2. t[j] = s[i] /\ j \in DOMAIN t
      BY <1>2, <1>3, <3>1
    <3>3. QED
      BY <3>2 DEF ToSet
  <2>2. ToSet(s) = {s[i] : i \in 1 .. l}
    BY <1>3 DEF ToSet
  <2>3. QED
    BY <2>1, <2>2
<1>6. s[1] \in ToSet(s)
  BY <1>1, <1>3 DEF ToSet
<1>7. QED
  BY <1>1, <1>2, <1>3, <1>4, <1>5, <1>6

LEMMA SameTags ==
  ASSUME Fields, Fields', UNCHANGED <<call.pending, call.awaiting>>
  PROVE  Outstanding' = Outstanding
BY DEF Outstanding

LEMMA OtherPushing ==
  ASSUME HostMemory, Pushing, OtherStep
  PROVE  Pushing' /\ Outstanding' \subseteq Outstanding
<1>0. /\ HostMemory' /\ Fields /\ Fields' /\ UNCHANGED Kept /\ call.total > 0 /\ call.chunk > 0
      /\ Moving /\ \A t \in Outstanding : t < Pushed /\ t < call.total
      /\ Pushed' = Pushed /\ UNCHANGED <<call.pushing, call.chunk, call.total>>
  <2>1. HostMemory' /\ Fields' /\ Moving /\ UNCHANGED Kept
    BY MovingMemory DEF OtherStep
  <2>2. Fields /\ call.total > 0 /\ call.chunk > 0
    BY <2>1 DEF HostMemory, Memory, Phases, Moving
  <2>3. \A t \in Outstanding : t < Pushed /\ t < call.total
    BY <2>1 DEF Pushing
  <2>4. QED
    BY <2>1, <2>2, <2>3, SamePushed
<1>1. CASE Produce
  <2>1. /\ call.stage = "produce" /\ call'.stage = "push" /\ call'.next = 0 /\ call.next = 0
        /\ call.awaiting = <<>> /\ call.count = Len(call.pending)
        /\ UNCHANGED <<call.pushing, call.count, call.pending, call.awaiting, call.error>>
    BY <1>0, <1>1, ProduceFields DEF Pushing
  <2>2. call.next < call.chunk /\ Pushed < call.total /\ call.count <= Len(call.pending)
    BY <2>1 DEF Pushing
  <2>3. call.pushing = 0 => call.count = 0
    <3>1. SUFFICES ASSUME call.pushing = 0 PROVE call.count = 0
      OBVIOUS
    <3>2. Pushed = 0
      <4>1. PICK c \in Nat : c = call.chunk /\ 0 * c = 0
        BY <1>0 DEF Fields
      <4>2. QED
        BY <2>1, <3>1, <4>1 DEF Pushed, Offset
    <3>3. Outstanding = {}
      <4>1. \A t \in Outstanding : t \in Nat /\ t < 0
        BY <1>0, <3>2, Groups DEF Outstanding
      <4>2. QED
        BY <4>1
    <3>4. call.pending = <<>>
      <4>1. PICK s \in Seq(Nat) : s = call.pending
        BY <1>0 DEF Fields
      <4>2. ToSet(s) = {}
        BY <3>3, <4>1 DEF Outstanding
      <4>3. QED
        BY <4>1, <4>2, TailSet
    <3>5. QED
      BY <2>1, <3>4
  <2>4. Outstanding' = Outstanding
    BY <1>0, <2>1, SameTags
  <2>5. QED
    BY <1>0, <2>1, <2>2, <2>3, <2>4 DEF Pushing, Moving
<1>2. CASE PushFails \/ WaitFails
  <2>1. /\ call'.stage = "restore" /\ call'.error # "none"
        /\ UNCHANGED <<call.pending, call.awaiting>>
    BY <1>0, <1>2, FailFields DEF PushFails, WaitFails
  <2>2. Outstanding' = Outstanding
    BY <1>0, <2>1, SameTags
  <2>3. QED
    BY <1>0, <2>1, <2>2 DEF Pushing, Moving
<1>3. CASE Drain
  <2>1. call.count <= Len(call.pending) /\ call.awaiting = <<>> /\ call.next = 0
    BY <1>3 DEF Pushing, Drain
  <2>2. /\ ToSet(call'.awaiting) = Older /\ ToSet(call'.pending) = Newer
        /\ call'.stage = "await" /\ call'.next = call.next
    BY <1>0, <1>3, <2>1, DrainTags, DrainFields
  <2>3. Outstanding' \subseteq Outstanding
    BY <1>0, <2>2, Groups DEF Outstanding
  <2>4. QED
    BY <1>0, <2>1, <2>2, <2>3 DEF Pushing, Moving
<1>4. CASE Collect
  <2>1. /\ call.stage = "await" /\ call.awaiting # <<>> /\ call.next = 0
        /\ UNCHANGED <<call.pending, call.next>>
        /\ \/ call'.stage = "await" /\ call'.awaiting = Tail(call.awaiting)
           \/ call'.stage = "restore" /\ call'.awaiting = call.awaiting /\ call'.error = "definite"
    BY <1>0, <1>4, CollectFields DEF Pushing
  <2>2. Outstanding' \subseteq Outstanding
    <3>1. PICK s \in Seq(Nat) : s = call.awaiting
      BY <1>0 DEF Fields
    <3>2. ToSet(call'.awaiting) \subseteq ToSet(call.awaiting)
      BY <2>1, <3>1, TailSet
    <3>3. QED
      BY <2>1, <3>2 DEF Outstanding
  <2>3. QED
    BY <1>0, <2>1, <2>2 DEF Pushing, Moving
<1>5. CASE AwaitDone
  <2>1. /\ call.stage = "await" /\ call.awaiting = <<>> /\ call'.awaiting = <<>> /\ call.next = 0
        /\ call'.next = 0 /\ call'.count = Len(call'.pending)
        /\ UNCHANGED <<call.pending, call.pushing>>
        /\ call'.stage = IF call.pushing <= LastChunk
                         THEN IF call.dir = "d2h" THEN "push" ELSE "produce"
                         ELSE IF call.pending # <<>> THEN "drain" ELSE "restore"
    BY <1>0, <1>5, AwaitDoneFields DEF Pushing
  <2>2. Outstanding' = Outstanding
    BY <1>0, <2>1, SameTags
  <2>3. call'.stage \in {"produce", "push"} => Pushed < call.total
    <3>1. SUFFICES ASSUME call'.stage \in {"produce", "push"} PROVE Pushed < call.total
      OBVIOUS
    <3>2. PICK k \in Nat : k = call.pushing
      BY <1>0 DEF Fields
    <3>3. k <= LastChunk
      BY <2>1, <3>1, <3>2
    <3>4. Offset(k) < call.total
      BY <1>0, <3>3, NextChunkStarts
    <3>5. QED
      BY <1>0, <2>1, <3>2, <3>4, PushedTyped
  <2>4. call'.stage = "push" /\ call'.pushing = 0 => call'.count = 0
    <3>1. SUFFICES ASSUME call'.pushing = 0 PROVE call'.pending = <<>>
      BY <2>1
    <3>2. Pushed = 0
      <4>1. PICK c \in Nat : c = call.chunk /\ 0 * c = 0
        BY <1>0 DEF Fields
      <4>2. QED
        BY <2>1, <3>1, <4>1 DEF Pushed, Offset
    <3>3. Outstanding = {}
      <4>1. \A t \in Outstanding : t \in Nat /\ t < 0
        BY <1>0, <3>2, Groups DEF Outstanding
      <4>2. QED
        BY <4>1
    <3>4. PICK s \in Seq(Nat) : s = call.pending
      BY <1>0 DEF Fields
    <3>5. ToSet(s) = {}
      BY <3>3, <3>4 DEF Outstanding
    <3>6. QED
      BY <2>1, <3>4, <3>5, TailSet
  <2>5. call'.count <= Len(call'.pending)
    <3>1. call'.count \in Nat
      BY <1>0 DEF Fields
    <3>2. QED
      BY <2>1, <3>1
  <2>6. /\ call'.stage \in {"produce", "push", "drain", "restore"}
        /\ call'.stage = "restore" => call'.pending = <<>>
    BY <2>1
  <2>7. call'.next < call'.chunk
    BY <1>0, <2>1
  <2>8. \A t \in Outstanding' : t < Pushed' /\ t < call'.total
    BY <1>0, <2>2
  <2>9. call'.stage \in {"produce", "push"} => Pushed' < call'.total
    BY <1>0, <2>3
  <2>10. /\ call'.awaiting = <<>> /\ call'.next = 0 /\ call'.count = Len(call'.pending)
    BY <2>1
  <2>11. Pushing'
    BY <2>4, <2>5, <2>6, <2>7, <2>8, <2>9, <2>10 DEF Pushing
  <2>12. QED
    BY <2>2, <2>11
<1>6. QED
  BY <1>1, <1>2, <1>3, <1>4, <1>5 DEF OtherStep
-----------------------------------------------------------------------------
(***************************************************************************)
(* The commands.                                                           *)
(***************************************************************************)
TagGroups == {ToSet(call.awaiting), Older, Newer}

\* Tags are regrouped within their chunks: what ended one still does.
LEMMA Regrouped ==
  ASSUME \A G \in TagGroups' : \E H \in TagGroups : G \subseteq H
  PROVE  \A t \in Nat : EndsChunk(t) /\ (call'.stage \in {"produce", "push"} => t \notin Newer')
                          => EndsChunk(t)'
BY DEF TagGroups, EndsChunk

LEMMA ChunkEndsKept ==
  ASSUME HostMemory, Pushing, OtherStep
  PROVE  \A t \in Nat : EndsChunk(t) => EndsChunk(t)'
<1>0. Fields /\ Fields'
  BY MovingMemory DEF OtherStep, HostMemory, Memory
<1>1. CASE Produce
  <2>1. /\ call.stage = "produce" /\ call'.stage = "push"
        /\ UNCHANGED <<call.count, call.pending, call.awaiting>>
    BY <1>0, <1>1, ProduceFields
  <2>2. Older' = Older /\ Newer' = Newer
    BY <2>1 DEF Older, Newer
  <2>3. QED
    BY <2>1, <2>2 DEF EndsChunk
<1>2. CASE PushFails \/ WaitFails
  <2>1. /\ call'.stage = "restore" /\ call.stage \in {"push", "await"}
        /\ UNCHANGED <<call.count, call.pending, call.awaiting>>
    BY <1>0, <1>2, FailFields DEF PushFails, WaitFails
  <2>2. \A G \in TagGroups' : \E H \in TagGroups : G \subseteq H
    <3>1. CASE call.stage = "push"
      <4>1. Older' = Older /\ Newer' = Newer
        BY <2>1, <3>1 DEF Older, Newer
      <4>2. QED
        BY <2>1, <4>1 DEF TagGroups
    <3>2. CASE call.stage = "await"
      <4>1. Older' \subseteq Newer /\ Newer' \subseteq Newer
        BY <1>0, <2>1, <3>2, Groups DEF Older, Newer
      <4>2. QED
        BY <2>1, <4>1 DEF TagGroups
    <3>3. QED
      BY <2>1, <3>1, <3>2
  <2>3. QED
    BY <2>1, <2>2, Regrouped
<1>3. CASE Drain
  <2>1. /\ ToSet(call'.awaiting) = Older /\ Newer' = Newer /\ Older' = {} /\ call'.stage = "await"
    BY <1>0, <1>3, DrainTags, DrainFields DEF Pushing, Drain
  <2>2. \A G \in TagGroups' : \E H \in TagGroups : G \subseteq H
    BY <2>1 DEF TagGroups
  <2>3. QED
    BY <2>1, <2>2, Regrouped
<1>4. CASE Collect
  <2>1. /\ call.stage = "await" /\ call.awaiting # <<>>
        /\ UNCHANGED <<call.count, call.pending>>
        /\ \/ call'.stage = "await" /\ call'.awaiting = Tail(call.awaiting)
           \/ call'.stage = "restore" /\ call'.awaiting = call.awaiting
    BY <1>0, <1>4, CollectFields
  <2>2. ToSet(call'.awaiting) \subseteq ToSet(call.awaiting)
    <3>1. PICK s \in Seq(Nat) : s = call.awaiting
      BY <1>0 DEF Fields
    <3>2. QED
      BY <2>1, <3>1, TailSet
  <2>3. Older' \subseteq Newer /\ Newer' \subseteq Newer
    <3>1. ToSet(call'.pending) = ToSet(call.pending) /\ Newer = ToSet(call.pending)
      BY <1>0, <2>1, Groups
    <3>2. ToSet(call'.pending) = Older' \cup Newer'
      BY <1>0, GroupsNext
    <3>3. QED
      BY <3>1, <3>2
  <2>4. \A G \in TagGroups' : \E H \in TagGroups : G \subseteq H
    BY <2>2, <2>3 DEF TagGroups
  <2>5. QED
    BY <2>1, <2>4, Regrouped
<1>5. CASE AwaitDone
  <2>1. /\ call.stage = "await" /\ call'.awaiting = call.awaiting /\ call'.count = Len(call'.pending)
        /\ call'.stage # "await" /\ call'.pending = call.pending
    BY <1>0, <1>5, AwaitDoneFields
  <2>2. Older' = Newer /\ Newer' = {}
    <3>1. Newer = ToSet(call.pending)
      BY <1>0, <2>1, Groups
    <3>2. Newer' = {} /\ Older' = ToSet(call'.pending)
      BY <1>0, <2>1, GroupsNext
    <3>3. QED
      BY <2>1, <3>1, <3>2
  <2>3. \A G \in TagGroups' : \E H \in TagGroups : G \subseteq H
    BY <2>1, <2>2 DEF TagGroups
  <2>4. QED
    BY <2>2, <2>3, Regrouped
<1>6. QED
  BY <1>1, <1>2, <1>3, <1>4, <1>5 DEF OtherStep

LEMMA CommandTyped ==
  ASSUME CommandTypes, NEW q \in Queues, NEW k \in ToSet(queue[q])
  PROVE  /\ k \in CommandSet /\ k.x \in Nat /\ k.at \in Nat /\ k.buf \in Frames
         /\ k.x \in Transfers /\ k.lo \in Nat /\ k.len \in Nat /\ k.len > 0 /\ k.at \in Pieces
<1>1. k \in CommandSet
  BY DEF CommandTypes, ToSet
<1>2. /\ k.x \in 1 .. MaxTransfers /\ k.at \in 0 .. MaxTotal - 1 /\ k.buf \in Frames
      /\ k.lo \in 0 .. MaxTotal - 1 /\ k.len \in 1 .. MaxTotal
  BY <1>1 DEF CommandSet, Transfers, Pieces
<1>3. QED
  BY <1>1, <1>2, Typed DEF Transfers, Pieces

LEMMA AnswerTyped ==
  ASSUME CommandTypes, NEW a \in answers
  PROVE  a.at \in Nat /\ a.ok \in BOOLEAN /\ a.at \in Pieces
<1>1. a.at \in 0 .. MaxTotal - 1 /\ a.ok \in BOOLEAN
  BY DEF CommandTypes, Pieces
<1>2. QED
  BY <1>1, Typed DEF Pieces

\* A command that is queued is not collected, so its tag stays outstanding.
LEMMA OtherDue ==
  ASSUME HostMemory, Pushing, Commands, OtherStep, NEW q \in Queues, NEW k \in ToSet(queue[q]), HasWaiter(k)
  PROVE  /\ k.at \in Outstanding'
         /\ call'.stage = "restore" /\ call'.error # "inflight" => k.at \in ToSet(call'.pending)
<1>0. Fields /\ Fields' /\ k.at \in Nat /\ Due(q, k) /\ k.at \in Outstanding
      /\ \A a \in answers : a.at < k.at /\ a.at \in Nat
  <2>1. CommandTypes /\ Held /\ Due(q, k)
    BY DEF Commands, Held
  <2>2. Fields /\ Fields'
    BY MovingMemory DEF OtherStep, HostMemory, Memory
  <2>3. k.at \in Nat
    BY <2>1, CommandTyped
  <2>4. k.at \in Outstanding /\ \A a \in answers : a.at < k.at
    BY <2>1 DEF Due
  <2>5. \A a \in answers : a.at \in Nat
    BY <2>1, AnswerTyped
  <2>6. QED
    BY <2>1, <2>2, <2>3, <2>4, <2>5
<1>1. CASE Produce
  <2>1. /\ UNCHANGED <<call.pending, call.awaiting>> /\ call'.stage = "push"
    BY <1>0, <1>1, ProduceFields
  <2>2. QED
    BY <1>0, <2>1 DEF Outstanding
<1>2. CASE PushFails
  <2>1. /\ UNCHANGED <<call.pending, call.awaiting>> /\ call.stage = "push"
    BY <1>0, <1>2, FailFields DEF PushFails
  <2>2. call.awaiting = <<>>
    BY <2>1 DEF Pushing
  <2>3. QED
    BY <1>0, <2>1, <2>2 DEF Outstanding, ToSet
<1>3. CASE WaitFails
  <2>1. /\ UNCHANGED <<call.pending, call.awaiting>> /\ call'.error = "inflight"
    BY <1>0, <1>3, FailFields DEF WaitFails
  <2>2. QED
    BY <1>0, <2>1 DEF Outstanding
<1>4. CASE Drain
  <2>1. call.count <= Len(call.pending) /\ call.awaiting = <<>>
    BY <1>4 DEF Pushing, Drain
  <2>2. /\ ToSet(call'.awaiting) = Older /\ ToSet(call'.pending) = Newer /\ call'.stage = "await"
    BY <1>0, <1>4, <2>1, DrainTags, DrainFields
  <2>3. ToSet(call.pending) = Older \cup Newer /\ ToSet(call.awaiting) = {}
    BY <1>0, <2>1, Groups DEF ToSet
  <2>4. QED
    BY <1>0, <2>2, <2>3 DEF Outstanding
<1>5. CASE Collect
  <2>1. PICK a \in answers :
          /\ a.at = Head(call.awaiting) /\ call.awaiting # <<>> /\ call.awaiting \in Seq(Nat)
          /\ UNCHANGED call.pending
          /\ \/ a.ok /\ call'.stage = "await" /\ call'.awaiting = Tail(call.awaiting)
             \/ ~a.ok /\ call'.stage = "restore" /\ call'.awaiting = call.awaiting
    BY <1>0, <1>5, CollectFields
  <2>2. k.at # Head(call.awaiting)
    BY <1>0, <2>1
  <2>3. PICK s \in Seq(Nat) : s = call.awaiting /\ s # <<>>
    BY <2>1
  <2>4. ToSet(s) = ToSet(Tail(s)) \cup {Head(s)} /\ Head(s) \in ToSet(s)
    BY <2>3, TailSet
  <2>5. k.at \in Outstanding'
    BY <1>0, <2>1, <2>2, <2>3, <2>4 DEF Outstanding
  <2>6. ~a.ok => k.at \in ToSet(call.pending)
    <3>1. SUFFICES ASSUME ~a.ok PROVE k.at \notin ToSet(call.awaiting)
      BY <1>0 DEF Outstanding
    <3>2. EndsChunk(a.at)
      BY <3>1 DEF Commands, Answered
    <3>3. a.at \in ToSet(call.awaiting)
      BY <2>1, <2>3, <2>4
    <3>4. \A u \in ToSet(call.awaiting) : u <= a.at
      BY <3>2, <3>3 DEF EndsChunk
    <3>5. a.at < k.at /\ a.at \in Nat
      BY <1>0
    <3>6. QED
      BY <1>0, <3>4, <3>5
  <2>7. QED
    BY <2>1, <2>5, <2>6
<1>6. CASE AwaitDone
  <2>1. /\ call.awaiting = <<>> /\ call'.pending = call.pending
    BY <1>0, <1>6, AwaitDoneFields
  <2>2. k.at \in ToSet(call.pending)
    BY <1>0, <2>1 DEF Outstanding, ToSet
  <2>3. QED
    BY <2>1, <2>2 DEF Outstanding
<1>7. QED
  BY <1>1, <1>2, <1>3, <1>4, <1>5, <1>6 DEF OtherStep

LEMMA OtherCommands ==
  ASSUME HostMemory, Pushing, Commands, OtherStep
  PROVE  Commands'
<1>0. /\ Fields /\ Fields' /\ UNCHANGED <<pool, pinned, mem, size, half>> /\ queue' = queue
      /\ UNCHANGED <<call.x, call.sq, call.bufs>> /\ Moving /\ Moving' /\ Pushed' = Pushed
      /\ answers' \subseteq answers
  <2>1. Fields /\ Fields' /\ UNCHANGED hostMemory /\ UNCHANGED Kept /\ Moving /\ Moving'
    BY MovingMemory DEF OtherStep, HostMemory, Memory
  <2>2. answers' \subseteq answers /\ queue' = queue
    BY DEF OtherStep, Produce, PushFails, Drain, Collect, WaitFails, AwaitDone
  <2>3. QED
    BY <2>1, <2>2, SamePushed DEF Kept, hostMemory
<1>1. \A t \in Nat : EndsChunk(t) => EndsChunk(t)'
  BY ChunkEndsKept
<1>2. CommandTypes' /\ Ordered'
  BY <1>0 DEF Commands, CommandTypes, Ordered
<1>3. Held'
  <2>1. SUFFICES ASSUME NEW q \in Queues, NEW k \in ToSet(queue[q])
                 PROVE  /\ k.x <= call'.x
                        /\ HasWaiter(k)' => Due(q, k)'
                        /\ ~HasWaiter(k)' => mem'[k.buf] = "leaked"
    BY <1>0 DEF Held
  <2>2. /\ k.x <= call.x /\ (HasWaiter(k) => Due(q, k)) /\ (~HasWaiter(k) => mem[k.buf] = "leaked")
        /\ k.at \in Nat
    BY CommandTyped DEF Commands, Held
  <2>3. HasWaiter(k)' <=> HasWaiter(k)
    BY <1>0 DEF HasWaiter, Moving
  <2>4. CASE HasWaiter(k)
    <3>1. Due(q, k)
      BY <2>2, <2>4
    <3>2. /\ k.at \in Outstanding'
          /\ call'.stage = "restore" /\ call'.error # "inflight" => k.at \in ToSet(call'.pending)
      BY <2>4, OtherDue
    <3>3. Due(q, k)'
      BY <1>0, <1>1, <2>2, <3>1, <3>2 DEF Due
    <3>4. QED
      BY <1>0, <2>2, <2>3, <2>4, <3>3
  <2>5. CASE ~HasWaiter(k)
    BY <1>0, <2>2, <2>3, <2>5
  <2>6. QED
    BY <2>4, <2>5
<1>4. Answered'
  <2>1. \A a \in answers : a.at \in Nat
    BY AnswerTyped DEF Commands
  <2>2. call'.stage \notin {"idle", "take"}
    BY <1>0 DEF Moving
  <2>3. QED
    BY <1>0, <1>1, <2>1, <2>2 DEF Commands, Answered
<1>5. QED
  BY <1>2, <1>3, <1>4 DEF Commands

\* Nothing is queued for a transfer that has yet to take its buffers.
LEMMA NobodyWaits ==
  ASSUME HostMemory, Commands, call.stage \in {"idle", "take"}
  PROVE  \A q \in Queues : \A k \in ToSet(queue[q]) :
           /\ ~HasWaiter(k) /\ mem[k.buf] = "leaked" /\ k.x <= call.x /\ k.x \in Nat /\ k.buf \in Frames
           /\ call.stage = "take" => k.x # call.x
<1>1. SUFFICES ASSUME NEW q \in Queues, NEW k \in ToSet(queue[q])
               PROVE  /\ ~HasWaiter(k) /\ mem[k.buf] = "leaked" /\ k.x <= call.x /\ k.x \in Nat /\ k.buf \in Frames
                      /\ call.stage = "take" => k.x # call.x
  OBVIOUS
<1>2. /\ k.x <= call.x /\ (HasWaiter(k) => Due(q, k)) /\ (~HasWaiter(k) => mem[k.buf] = "leaked")
      /\ k.x \in Nat /\ k.buf \in Frames
  BY CommandTyped DEF Commands, Held
<1>3. ~HasWaiter(k)
  <2>1. CASE call.stage = "idle"
    BY <2>1 DEF HasWaiter
  <2>2. CASE call.stage = "take"
    <3>1. Outstanding = {}
      BY <2>2 DEF HostMemory, Phases, Outstanding, ToSet
    <3>2. QED
      BY <1>2, <3>1 DEF Due
  <2>3. QED
    BY <2>1, <2>2
<1>4. QED
  BY <1>2, <1>3 DEF HasWaiter

LEMMA UnwaitedCommands ==
  ASSUME HostMemory, Commands, call.stage \in {"idle", "take"}, queue' = queue, answers' = {},
         \A g \in Frames : mem[g] = "leaked" => mem'[g] = "leaked",
         \/ call'.x = call.x /\ (call.stage = "take" \/ call'.stage = "idle")
         \/ call'.x = call.x + 1
  PROVE  Commands'
<1>1. CommandTypes' /\ Ordered' /\ Answered'
  BY DEF Commands, CommandTypes, Ordered, Answered
<1>2. Held'
  <2>1. SUFFICES ASSUME NEW q \in Queues, NEW k \in ToSet(queue[q])
                 PROVE  /\ k.x <= call'.x
                        /\ HasWaiter(k)' => Due(q, k)'
                        /\ ~HasWaiter(k)' => mem'[k.buf] = "leaked"
    BY DEF Held
  <2>2. /\ mem'[k.buf] = "leaked" /\ k.x <= call.x /\ k.x \in Nat
        /\ call.stage = "take" => k.x # call.x
    BY NobodyWaits
  <2>3. call.x \in Nat
    BY Typed DEF HostMemory, Memory, Fields
  <2>4. ~HasWaiter(k)' /\ k.x <= call'.x
    <3>1. CASE call'.x = call.x + 1
      BY <2>2, <2>3, <3>1 DEF HasWaiter
    <3>2. CASE call'.x = call.x /\ (call.stage = "take" \/ call'.stage = "idle")
      BY <2>2, <3>2 DEF HasWaiter
    <3>3. QED
      BY <3>1, <3>2
  <2>5. QED
    BY <2>2, <2>4
<1>3. QED
  BY <1>1, <1>2 DEF Commands

\* A failed transfer gives its memory to the device for good, or nothing of it
\* is queued any more.
LEMMA RestoreCommands ==
  ASSUME HostMemory, Pushing, Commands, Restore
  PROVE  Commands'
<1>0. /\ HostMemory' /\ call.stage = "restore" /\ call'.stage = "idle" /\ call'.x = call.x
      /\ answers' = {} /\ queue' = queue
      /\ \A g \in Frames : mem[g] = "leaked" => mem'[g] = "leaked"
      /\ MayBeInFlight => \A g \in ToSet(call.bufs) : mem'[g] = "leaked"
  BY RestoreMemory DEF Restore
<1>1. CommandTypes' /\ Ordered' /\ Answered'
  BY <1>0 DEF Commands, CommandTypes, Ordered, Answered
<1>2. Held'
  <2>1. SUFFICES ASSUME NEW q \in Queues, NEW k \in ToSet(queue[q])
                 PROVE  k.x <= call'.x /\ mem'[k.buf] = "leaked"
    BY <1>0 DEF Held, HasWaiter
  <2>2. /\ k.x <= call.x /\ (HasWaiter(k) => Due(q, k)) /\ (~HasWaiter(k) => mem[k.buf] = "leaked")
        /\ k.buf \in Frames
    BY CommandTyped DEF Commands, Held
  <2>3. CASE HasWaiter(k)
    <3>1. k.buf \in ToSet(call.bufs) /\ k.at \in Outstanding
          /\ (call.error # "inflight" => k.at \in ToSet(call.pending))
      BY <1>0, <2>2, <2>3 DEF Due
    <3>2. MayBeInFlight
      <4>1. CASE call.error = "inflight"
        BY <4>1 DEF MayBeInFlight
      <4>2. CASE call.error # "inflight"
        <5>1. call.pending # <<>>
          BY <3>1, <4>2 DEF ToSet
        <5>2. call.error # "none"
          BY <1>0, <5>1 DEF Pushing
        <5>3. QED
          BY <5>1, <5>2 DEF MayBeInFlight
      <4>3. QED
        BY <4>1, <4>2
    <3>3. QED
      BY <1>0, <2>2, <3>1, <3>2
  <2>4. CASE ~HasWaiter(k)
    BY <1>0, <2>2, <2>4
  <2>5. QED
    BY <2>3, <2>4
<1>3. QED
  BY <1>1, <1>2 DEF Commands

\* The device takes the oldest command of a queue and answers it if somebody
\* waits; only the last of a chunk may be answered with an error.
LEMMA CompleteCommands ==
  ASSUME HostMemory, Pushing, Commands, NEW q \in Queues, NEW ok \in BOOLEAN, Complete(q, ok),
         ~ok => Head(queue[q]).last
  PROVE  /\ Commands' /\ HostMemory' /\ Pushing' /\ Head(queue[q]) \in ToSet(queue[q])
         /\ (HasWaiter(Head(queue[q])) => call.stage \notin {"idle", "take"})
<1>1. PICK s \in Seq(CommandSet) : s = queue[q] /\ s # <<>>
  BY DEF Commands, CommandTypes, Complete
<1>2. PICK k \in CommandSet : k = Head(s)
  BY <1>1, TailSet
<1>3. /\ k \in ToSet(s) /\ ToSet(Tail(s)) \subseteq ToSet(s) /\ Tail(s) \in Seq(CommandSet)
      /\ k = s[1] /\ \A i \in 1 .. Len(s) - 1 : Tail(s)[i] = s[i + 1]
      /\ Len(Tail(s)) = Len(s) - 1
  BY <1>1, <1>2, TailSet
<1>4. /\ queue' = [queue EXCEPT ![q] = Tail(s)] /\ call' = call
      /\ UNCHANGED <<half, pool, pinned, mem, size>>
      /\ answers' = IF HasWaiter(k) THEN answers \cup {[at |-> k.at, ok |-> ok]} ELSE answers
  BY <1>1, <1>2 DEF Complete, hostMemory
<1>5. /\ k.x <= call.x /\ (HasWaiter(k) => Due(q, k)) /\ k.at \in Nat /\ k.at \in Pieces
  BY <1>1, <1>3, CommandTyped DEF Commands, Held
<1>6. HasWaiter(k) => call.stage \notin {"idle", "take"}
  BY <1>1, <1>3, NobodyWaits
<1>7. HostMemory'
  BY SameMemory DEF Complete
<1>8. Pushing' /\ Pushed' = Pushed /\ Outstanding' = Outstanding
  BY <1>4 DEF Pushing, Pushed, Offset, Outstanding, Moving
<1>9. CommandTypes'
  <2>1. queue' \in [Queues -> Seq(CommandSet)]
    BY <1>3, <1>4 DEF Commands, CommandTypes
  <2>2. answers' \subseteq [at : Pieces, ok : BOOLEAN]
    BY <1>4, <1>5 DEF Commands, CommandTypes
  <2>3. QED
    BY <2>1, <2>2 DEF CommandTypes
<1>10. Ordered'
  <2>1. SUFFICES ASSUME NEW p \in Queues, NEW i \in 1 .. Len(queue'[p]), NEW j \in 1 .. Len(queue'[p]),
                        j < i, queue'[p][j].x = queue'[p][i].x
                 PROVE  queue'[p][j].at < queue'[p][i].at
    BY DEF Ordered
  <2>2. CASE p = q
    <3>1. queue'[p] = Tail(s)
      BY <1>4, <2>2 DEF Commands, CommandTypes
    <3>2. PICK l \in Nat : l = Len(s)
      BY <1>1
    <3>3. i \in 1 .. l - 1 /\ j \in 1 .. l - 1 /\ i + 1 \in 1 .. l /\ j + 1 \in 1 .. l /\ j + 1 < i + 1
      BY <1>3, <2>1, <3>1, <3>2
    <3>4. Tail(s)[i] = s[i + 1] /\ Tail(s)[j] = s[j + 1]
      BY <1>3, <3>2, <3>3
    <3>5. QED
      BY <1>1, <2>1, <2>2, <3>1, <3>2, <3>3, <3>4 DEF Commands, Ordered
  <2>3. CASE p # q
    BY <1>4, <2>1, <2>3 DEF Commands, CommandTypes, Ordered
  <2>4. QED
    BY <2>2, <2>3
<1>11. \A t \in Nat : EndsChunk(t) => EndsChunk(t)'
  BY <1>4 DEF EndsChunk, Older, Newer
<1>12. \* What is still queued of the same transfer comes after what is answered.
       ASSUME NEW p \in Queues, NEW m \in ToSet(queue'[p])
       PROVE  /\ m \in ToSet(queue[p])
              /\ HasWaiter(m) /\ HasWaiter(k) => k.at < m.at
  <2>1. CASE p = q
    <3>1. queue'[p] = Tail(s)
      BY <1>4, <2>1 DEF Commands, CommandTypes
    <3>2. PICK l \in Nat : l = Len(s) /\ l > 0
      BY <1>1, EmptySeq
    <3>3. PICK i \in 1 .. l - 1 : m = Tail(s)[i]
      <4>1. DOMAIN Tail(s) = 1 .. l - 1
        BY <1>3, <3>2
      <4>2. QED
        BY <3>1, <4>1, <1>12 DEF ToSet
    <3>4. m = s[i + 1] /\ i + 1 \in 1 .. l /\ 1 \in 1 .. l /\ 1 < i + 1
      BY <1>3, <3>2, <3>3
    <3>5. HasWaiter(m) /\ HasWaiter(k) => m.x = k.x
      BY DEF HasWaiter
    <3>6. m.x = k.x => k.at < m.at
      BY <1>1, <1>3, <3>2, <3>4 DEF Commands, Ordered
    <3>7. QED
      BY <1>1, <1>3, <1>12, <2>1, <3>1, <3>5, <3>6
  <2>2. CASE p # q
    <3>1. queue'[p] = queue[p]
      BY <1>4, <2>2 DEF Commands, CommandTypes
    <3>2. HasWaiter(m) => Due(p, m)
      BY <1>12, <3>1 DEF Commands, Held
    <3>3. ~(HasWaiter(m) /\ HasWaiter(k))
      BY <1>5, <2>2, <3>2 DEF Due
    <3>4. QED
      BY <1>12, <3>1, <3>3
  <2>3. QED
    BY <2>1, <2>2
<1>13. Held'
  <2>1. SUFFICES ASSUME NEW p \in Queues, NEW m \in ToSet(queue'[p])
                 PROVE  /\ m.x <= call'.x
                        /\ HasWaiter(m)' => Due(p, m)'
                        /\ ~HasWaiter(m)' => mem'[m.buf] = "leaked"
    BY DEF Held
  <2>2. m \in ToSet(queue[p]) /\ (HasWaiter(m) /\ HasWaiter(k) => k.at < m.at)
    BY <1>12
  <2>3. /\ m.x <= call.x /\ (HasWaiter(m) => Due(p, m)) /\ (~HasWaiter(m) => mem[m.buf] = "leaked")
        /\ m.at \in Nat
    BY <2>2, CommandTyped DEF Commands, Held
  <2>4. HasWaiter(m)' <=> HasWaiter(m)
    BY <1>4 DEF HasWaiter
  <2>5. ASSUME HasWaiter(m) PROVE Due(p, m)'
    <3>1. Due(p, m)
      BY <2>3, <2>5
    <3>2. \A a \in answers' : a.at < m.at
      <4>1. \A a \in answers : a.at < m.at
        BY <3>1 DEF Due
      <4>2. QED
        BY <1>4, <2>2, <2>5, <4>1
    <3>3. QED
      BY <1>4, <1>8, <1>11, <2>3, <3>1, <3>2 DEF Due
  <2>6. QED
    BY <1>4, <2>3, <2>4, <2>5
<1>14. Answered'
  <2>1. CASE HasWaiter(k)
    <3>1. answers' = answers \cup {[at |-> k.at, ok |-> ok]} /\ Due(q, k)
      BY <1>4, <1>5, <2>1
    <3>2. k.at < Pushed
      BY <1>6, <2>1, <3>1 DEF Due, Pushing, Moving, HostMemory, Memory, Fields, Stages
    <3>3. ~ok => EndsChunk(k.at)
      BY <1>1, <1>2, <3>1 DEF Due
    <3>4. \A a \in answers : a.at < k.at /\ a.at \in Nat
      BY <3>1, AnswerTyped DEF Due, Commands
    <3>5. \A a \in answers' : a.at < Pushed /\ (~a.ok => EndsChunk(a.at)) /\ a.at \in Nat
      BY <1>5, <3>1, <3>2, <3>3, <3>4 DEF Commands, Answered
    <3>6. \A a, b \in answers' : a.at = b.at => a = b
      <4>1. SUFFICES ASSUME NEW a \in answers', NEW b \in answers', a.at = b.at PROVE a = b
        OBVIOUS
      <4>2. \A c \in answers : c.at # k.at
        BY <1>5, <3>4
      <4>3. QED
        BY <3>1, <4>1, <4>2 DEF Commands, Answered
    <3>7. QED
      BY <1>4, <1>6, <1>8, <1>11, <2>1, <3>5, <3>6 DEF Answered
  <2>2. CASE ~HasWaiter(k)
    <3>1. answers' = answers
      BY <1>4, <2>2
    <3>2. \A a \in answers : a.at \in Nat
      BY AnswerTyped DEF Commands
    <3>3. QED
      BY <1>4, <1>8, <1>11, <3>1, <3>2 DEF Commands, Answered
  <2>3. QED
    BY <2>1, <2>2
<1>15. QED
  BY <1>1, <1>2, <1>3, <1>6, <1>7, <1>8, <1>9, <1>10, <1>13, <1>14 DEF Commands

LEMMA Remainder ==
  ASSUME NEW a \in Nat, NEW b \in Nat, b > 0
  PROVE  a % b \in 0 .. b - 1
OBVIOUS

\* The next command lies within its chunk, in one of the transfer's buffers.
LEMMA BufferTyped ==
  ASSUME Fields, call.bufs # <<>>, NEW k \in Nat
  PROVE  BufferOf(k) \in ToSet(call.bufs) /\ BufferOf(k) \in Frames
<1>1. PICK s \in Seq(Frames), l \in Nat : s = call.bufs /\ l = Len(s) /\ l > 0
  BY EmptySeq DEF Fields
<1>2. k % l \in 0 .. l - 1
  BY <1>1, Remainder
<1>3. PICK i \in 1 .. l : i = (k % l) + 1
  <2>1. \A r \in 0 .. l - 1 : r + 1 \in 1 .. l
    BY <1>1
  <2>2. (k % l) + 1 \in 1 .. l
    BY <1>2, <2>1, Zenon
  <2>3. QED
    BY <2>2, Zenon
<1>4. BufferOf(k) = s[i] /\ i \in DOMAIN s
  <2>1. BufferOf(k) = s[(k % l) + 1]
    BY <1>1, Zenon DEF BufferOf
  <2>2. (k % l) + 1 = i
    BY <1>3, Zenon
  <2>3. i \in DOMAIN s
    <3>1. \A j \in 1 .. l : j \in DOMAIN s
      BY <1>1
    <3>2. QED
      BY <1>3, <3>1, Zenon
  <2>4. QED
    BY <2>1, <2>2, <2>3, Zenon
<1>5. QED
  BY <1>1, <1>4 DEF ToSet

LEMMA CommandMade ==
  ASSUME HostMemory, Pushing, Push
  PROVE  /\ Command \in CommandSet /\ Command.at = Pushed /\ Command.x = call.x
         /\ Command.buf = BufferOf(call.pushing) /\ Command.buf \in ToSet(call.bufs)
         /\ Command.lo = call.next /\ Command.len = CommandLen
         /\ Command.dir = (IF call.dir = "d2h" THEN "d2h" ELSE "h2d")
         /\ Command.last <=> call.next + CommandLen = ChunkLen(call.pushing)
<1>1. /\ Fields /\ call.stage = "push" /\ call.next < call.chunk /\ Pushed < call.total
      /\ call.bufs # <<>> /\ call.x \in Transfers
  BY DEF HostMemory, Memory, Push, Pushing, Phases, Moving
<1>2. BufferOf(call.pushing) \in ToSet(call.bufs) /\ BufferOf(call.pushing) \in Frames
  BY <1>1, BufferTyped DEF Fields
<1>3. /\ Offset(call.pushing) \in Nat /\ CommandLen \in 1 .. MaxTotal /\ call.next \in Pieces
      /\ Pushed \in Pieces
  <2>1. /\ Offset(call.pushing) \in Nat /\ Pushed \in Nat /\ CommandLen \in 1 .. call.total
        /\ CommandLen \in Nat
    BY <1>1, CommandFacts
  <2>2. call.next \in Nat /\ call.total \in 0 .. MaxTotal
    BY <1>1 DEF Fields
  <2>3. Pushed = Offset(call.pushing) + call.next
    BY DEF Pushed
  <2>4. PICK o \in Nat, p \in Nat, n \in Nat, t \in Nat, l \in Nat :
          /\ o = Offset(call.pushing) /\ p = Pushed /\ n = call.next /\ t = call.total /\ l = CommandLen
          /\ p < t /\ p = o + n /\ t <= MaxTotal /\ l \in 1 .. t
    BY <1>1, <2>1, <2>2, <2>3, Typed
  <2>5. l \in 1 .. MaxTotal /\ n \in 0 .. MaxTotal - 1 /\ p \in 0 .. MaxTotal - 1
    BY <2>4, Typed
  <2>6. QED
    BY <2>1, <2>4, <2>5 DEF Pieces
<1>4. Command.at = Pushed
  BY DEF Command, Pushed
<1>5. /\ Command = [x |-> call.x, dir |-> IF call.dir = "d2h" THEN "d2h" ELSE "h2d",
                    buf |-> BufferOf(call.pushing), lo |-> call.next, len |-> CommandLen,
                    at |-> Pushed, last |-> call.next + CommandLen = ChunkLen(call.pushing)]
  BY DEF Command, Pushed
<1>6. (call.next + CommandLen = ChunkLen(call.pushing)) \in BOOLEAN
      /\ (IF call.dir = "d2h" THEN "d2h" ELSE "h2d") \in {"h2d", "d2h"}
  OBVIOUS
<1>7. Command \in CommandSet
  BY <1>1, <1>2, <1>3, <1>5, <1>6 DEF CommandSet
<1> DEFINE at == Pushed
           last == call.next + CommandLen = ChunkLen(call.pushing)
           buf == BufferOf(call.pushing)
           dir == IF call.dir = "d2h" THEN "d2h" ELSE "h2d"
           len == CommandLen
           lo == call.next
           x == call.x
<1> HIDE DEF at, last, buf, dir, len, lo, x
<1>8. Command = [x |-> x, dir |-> dir, buf |-> buf, lo |-> lo, len |-> len, at |-> at, last |-> last]
  BY <1>5 DEF at, last, buf, dir, len, lo, x
<1>9. /\ Command.x = x /\ Command.dir = dir /\ Command.buf = buf /\ Command.lo = lo
      /\ Command.len = len /\ Command.last = last
  BY <1>8
<1>10. QED
  BY <1>2, <1>4, <1>7, <1>9 DEF last, buf, dir, len, lo, x

\* Where a push leaves the two parts of `pending`.
LEMMA PushGroups ==
  ASSUME HostMemory, Pushing, Push
  PROVE  /\ call'.awaiting = call.awaiting /\ ToSet(call'.pending) = ToSet(call.pending) \cup {Pushed}
         /\ \/ /\ Older' = Older /\ Newer' = Newer \cup {Pushed} /\ call'.stage = "push"
               /\ call.next + CommandLen < ChunkLen(call.pushing) /\ call'.pushing = call.pushing
            \/ /\ Older' = Older /\ Newer' = Newer \cup {Pushed} /\ call'.stage = "drain"
               /\ call.next + CommandLen = ChunkLen(call.pushing) /\ call'.pushing = call.pushing + 1
               /\ ~(call.pushing = 0 /\ (call.dir = "d2h" \/ call.pin))
            \/ /\ Older = {} /\ Newer = ToSet(call.pending)
               /\ Older' = Newer \cup {Pushed} /\ Newer' = {}
               /\ call.next + CommandLen = ChunkLen(call.pushing) /\ call'.pushing = 1
               /\ call.pushing = 0 /\ (call.dir = "d2h" \/ call.pin)
               /\ call'.stage = (IF LastChunk >= 1 THEN "push" ELSE "drain")
<1>0. /\ Fields /\ Fields' /\ call.stage = "push" /\ call.count <= Len(call.pending) /\ Pushed \in Nat
      /\ call.next < call.chunk /\ Pushed < call.total
      /\ call.pushing = 0 => call.count = 0
  <2>1. /\ Fields /\ call.stage = "push" /\ call.count <= Len(call.pending)
        /\ call.next < call.chunk /\ Pushed < call.total
        /\ call.pushing = 0 => call.count = 0
    BY DEF HostMemory, Memory, Push, Pushing
  <2>2. QED
    BY <2>1, PushFields, PushedTyped
<1>1. /\ call'.pending = Append(call.pending, Pushed) /\ call'.awaiting = call.awaiting
      /\ \/ /\ call.next + CommandLen < ChunkLen(call.pushing)
            /\ call'.stage = "push" /\ call'.next = call.next + CommandLen
            /\ UNCHANGED <<call.pushing, call.count>>
         \/ /\ call.next + CommandLen = ChunkLen(call.pushing)
            /\ call'.pushing = call.pushing + 1 /\ call'.next = 0
            /\ \/ /\ call.pushing = 0 /\ (call.dir = "d2h" \/ call.pin)
                  /\ call'.count = Len(call'.pending)
                  /\ call'.stage = IF LastChunk >= 1 THEN "push" ELSE "drain"
               \/ /\ ~(call.pushing = 0 /\ (call.dir = "d2h" \/ call.pin))
                  /\ call'.count = call.count /\ call'.stage = "drain"
  BY <1>0, PushFields
<1>2. PICK s \in Seq(Nat), x \in Nat, n \in Nat, l \in Nat :
        /\ s = call.pending /\ x = Pushed /\ n = call.count /\ l = Len(s) /\ n <= l
  <2>1. call.pending \in Seq(Nat) /\ call.count \in Nat /\ Len(call.pending) \in Nat
    BY <1>0 DEF Fields
  <2>2. QED
    BY <1>0, <2>1
<1>3. /\ Append(s, x) \in Seq(Nat) /\ Len(Append(s, x)) = l + 1 /\ \A i \in 1 .. l : Append(s, x)[i] = s[i]
      /\ Append(s, x)[l + 1] = x /\ ToSet(Append(s, x)) = ToSet(s) \cup {x}
  BY <1>2, Appended
<1>4. PICK a \in Seq(Nat) : /\ a = call'.pending /\ Len(a) = l + 1 /\ a[l + 1] = x
                            /\ \A i \in 1 .. l : a[i] = s[i]
  BY <1>1, <1>2, <1>3
<1>5. ToSet(call'.pending) = ToSet(call.pending) \cup {Pushed}
  BY <1>1, <1>2, <1>3
<1>6. /\ Older = {s[j] : j \in {i \in 1 .. l : i <= n}} /\ Newer = {s[j] : j \in {i \in 1 .. l : i > n}}
  BY <1>0, <1>2 DEF Older, Newer
<1>7. ASSUME call'.stage # "await", call'.count = call.count PROVE Older' = Older /\ Newer' = Newer \cup {x}
  <2>1. Older' = {a[j] : j \in {i \in 1 .. l + 1 : i <= n}} /\ Newer' = {a[j] : j \in {i \in 1 .. l + 1 : i > n}}
    BY <1>2, <1>4, <1>7 DEF Older, Newer
  <2>2. {i \in 1 .. l + 1 : i <= n} = {i \in 1 .. l : i <= n}
    BY <1>2
  <2>3. {i \in 1 .. l + 1 : i > n} = {i \in 1 .. l : i > n} \cup {l + 1}
    BY <1>2
  <2>4. /\ \A i \in {j \in 1 .. l : j <= n} : a[i] = s[i]
        /\ \A i \in {j \in 1 .. l : j > n} : a[i] = s[i]
    BY <1>4
  <2>5. Older' = Older
    BY <1>6, <2>1, <2>2, <2>4
  <2>6. Newer' = {a[j] : j \in {i \in 1 .. l : i > n}} \cup {a[l + 1]}
    BY <2>1, <2>3
  <2>7. {a[j] : j \in {i \in 1 .. l : i > n}} = Newer
    BY <1>6, <2>4
  <2>8. QED
    BY <1>4, <2>5, <2>6, <2>7
<1>8. ASSUME call'.stage # "await", call'.count = Len(call'.pending), n = 0
      PROVE  Older = {} /\ Newer = ToSet(s) /\ Older' = Newer \cup {x} /\ Newer' = {}
  <2>1. Older = {} /\ Newer = {s[j] : j \in 1 .. l}
    BY <1>6, <1>8
  <2>2. ToSet(s) = {s[j] : j \in 1 .. l}
    <3>1. DOMAIN s = 1 .. l
      BY <1>2
    <3>2. QED
      BY <3>1 DEF ToSet
  <2>3. Newer' = {} /\ Older' = ToSet(call'.pending)
    BY <1>0, <1>8, GroupsNext
  <2>4. QED
    BY <1>2, <1>5, <2>1, <2>2, <2>3
<1>9. CASE call.next + CommandLen < ChunkLen(call.pushing) /\ call'.stage = "push"
           /\ UNCHANGED <<call.pushing, call.count>>
  BY <1>1, <1>2, <1>5, <1>7, <1>9
<1>10. CASE /\ call.next + CommandLen = ChunkLen(call.pushing) /\ call'.pushing = call.pushing + 1
            /\ ~(call.pushing = 0 /\ (call.dir = "d2h" \/ call.pin))
            /\ call'.count = call.count /\ call'.stage = "drain"
  BY <1>1, <1>2, <1>5, <1>7, <1>10
<1>11. CASE /\ call.next + CommandLen = ChunkLen(call.pushing) /\ call'.pushing = call.pushing + 1
            /\ call.pushing = 0 /\ (call.dir = "d2h" \/ call.pin)
            /\ call'.count = Len(call'.pending)
            /\ call'.stage = IF LastChunk >= 1 THEN "push" ELSE "drain"
  <2>1. call'.stage # "await" /\ n = 0 /\ call'.pushing = 1
    BY <1>0, <1>2, <1>11
  <2>2. QED
    BY <1>1, <1>2, <1>5, <1>8, <1>11, <2>1
<1>12. QED
  BY <1>1, <1>9, <1>10, <1>11

LEMMA PushCommands ==
  ASSUME HostMemory, Pushing, Commands, Push
  PROVE  Commands'
<1>0. /\ HostMemory' /\ Fields /\ Fields' /\ Moving /\ Moving' /\ UNCHANGED hostMemory /\ UNCHANGED Kept
      /\ call.stage = "push" /\ answers' = answers /\ call'.stage # "restore"
      /\ call.sq \in Queues /\ call.bufs # <<>>
  <2>1. HostMemory' /\ Fields' /\ Moving /\ Moving' /\ UNCHANGED hostMemory /\ UNCHANGED Kept
    BY MovingMemory
  <2>2. Fields /\ call.stage = "push" /\ answers' = answers /\ call.sq \in Queues /\ call.bufs # <<>>
    BY <2>1 DEF HostMemory, Memory, Phases, Push, Moving
  <2>3. call'.stage # "restore"
    BY PushGroups
  <2>4. QED
    BY <2>1, <2>2, <2>3
<1>1. PICK k \in CommandSet : /\ k = Command /\ k.at = Pushed /\ k.x = call.x /\ k.buf \in ToSet(call.bufs)
                              /\ k.last <=> call.next + CommandLen = ChunkLen(call.pushing)
  BY CommandMade
<1>2. /\ queue \in [Queues -> Seq(CommandSet)]
      /\ queue' = [queue EXCEPT ![call.sq] = Append(queue[call.sq], k)]
  BY <1>1 DEF Push, Commands, CommandTypes
<1>3. /\ Pushed \in Nat /\ Pushed' \in Nat /\ Pushed < Pushed' /\ call.awaiting = <<>>
      /\ \A t \in Outstanding : t \in Nat /\ t < Pushed
  <2>1. /\ Pushed \in Nat /\ Pushed' \in Nat /\ Pushed < Pushed' /\ call.awaiting = <<>>
    BY PushPushing
  <2>2. \A t \in Outstanding : t \in Nat /\ t < Pushed
    BY <1>0, Groups DEF Pushing, Outstanding
  <2>3. QED
    BY <2>1, <2>2
<1>4. /\ UNCHANGED <<call.x, call.sq, call.bufs, mem>>
  BY <1>0 DEF Kept, hostMemory
<1>5. Outstanding' = Outstanding \cup {Pushed} /\ ToSet(call.awaiting) = {}
  <2>1. call'.awaiting = call.awaiting /\ ToSet(call'.pending) = ToSet(call.pending) \cup {Pushed}
    BY PushGroups
  <2>2. Outstanding' = ToSet(call'.awaiting) \cup ToSet(call'.pending)
    BY DEF Outstanding
  <2>3. ToSet(<<>>) = {}
    BY DEF ToSet
  <2>4. QED
    BY <1>3, <2>1, <2>2, <2>3 DEF Outstanding
<1>6. /\ \A q \in Queues : q # call.sq => queue'[q] = queue[q]
      /\ ToSet(queue'[call.sq]) = ToSet(queue[call.sq]) \cup {k}
      /\ queue'[call.sq] \in Seq(CommandSet)
      /\ Len(queue'[call.sq]) = Len(queue[call.sq]) + 1
      /\ \A i \in 1 .. Len(queue[call.sq]) : queue'[call.sq][i] = queue[call.sq][i]
      /\ queue'[call.sq][Len(queue[call.sq]) + 1] = k
  <2>1. PICK s \in Seq(CommandSet) : s = queue[call.sq]
    BY <1>0, <1>2
  <2>2. queue'[call.sq] = Append(s, k)
    BY <1>0, <1>2, <2>1
  <2>3. /\ Append(s, k) \in Seq(CommandSet) /\ Len(Append(s, k)) = Len(s) + 1
        /\ \A i \in 1 .. Len(s) : Append(s, k)[i] = s[i]
        /\ Append(s, k)[Len(s) + 1] = k
        /\ ToSet(Append(s, k)) = ToSet(s) \cup {k}
    BY Appended
  <2>4. \A q \in Queues : q # call.sq => queue'[q] = queue[q]
    BY <1>2
  <2>5. QED
    BY <2>1, <2>2, <2>3, <2>4
<1>7. CommandTypes'
  <2>1. queue' \in [Queues -> Seq(CommandSet)]
    BY <1>0, <1>2, <1>6
  <2>2. QED
    BY <1>0, <2>1 DEF Commands, CommandTypes
<1>8. \A t \in Nat : EndsChunk(t) /\ t < Pushed => EndsChunk(t)'
  <2>1. SUFFICES ASSUME NEW t \in Nat, EndsChunk(t), t < Pushed PROVE EndsChunk(t)'
    OBVIOUS
  <2>2. t # Pushed /\ t \notin Newer
    BY <1>0, <1>3, <2>1 DEF EndsChunk
  <2>3. t \notin Newer' /\ (t \in Older' => t \in Older /\ Older' = Older)
    BY <2>2, PushGroups
  <2>4. t \notin ToSet(call'.awaiting)
    BY <1>5, PushGroups
  <2>5. QED
    BY <2>1, <2>3, <2>4 DEF EndsChunk
<1>9. k.last => EndsChunk(k.at)'
  <2>1. SUFFICES ASSUME k.last PROVE EndsChunk(k.at)'
    OBVIOUS
  <2>2. /\ ~(call.next + CommandLen < ChunkLen(call.pushing))
    <3>1. call.next + CommandLen = ChunkLen(call.pushing)
      BY <1>1, <2>1
    <3>2. ChunkLen(call.pushing) \in Nat
      <4>1. call.next < call.chunk /\ Pushed < call.total
        BY <1>0 DEF Pushing
      <4>2. QED
        BY <1>0, <4>1, CommandFacts
    <3>3. QED
      BY <3>1, <3>2
  <2>3. /\ call'.stage \in {"produce", "push"} => Pushed \notin Newer'
    BY <2>2, PushGroups
  <2>4. \A u \in ToSet(call'.pending) \cup ToSet(call'.awaiting) : u <= Pushed
    <3>1. ToSet(call'.pending) \cup ToSet(call'.awaiting) \subseteq Outstanding \cup {Pushed}
      BY <1>5 DEF Outstanding
    <3>2. \A u \in Outstanding \cup {Pushed} : u <= Pushed
      BY <1>3
    <3>3. QED
      BY <3>1, <3>2
  <2>5. Older' \cup Newer' = ToSet(call'.pending)
    BY <1>0, GroupsNext
  <2>6. PICK t \in Nat : t = Pushed /\ t = k.at
    BY <1>1, <1>3
  <2>7. EndsChunk(t)'
    BY <2>3, <2>4, <2>5, <2>6 DEF EndsChunk
  <2>8. QED
    BY <2>6, <2>7
<1>10. \* The commands of the transfer that are queued come before the new one.
       \A q \in Queues : \A m \in ToSet(queue[q]) : m.x = call.x => m.at < Pushed
  <2>1. SUFFICES ASSUME NEW q \in Queues, NEW m \in ToSet(queue[q]), m.x = call.x PROVE m.at < Pushed
    OBVIOUS
  <2>2. HasWaiter(m)
    BY <1>0, <2>1 DEF HasWaiter
  <2>3. QED
    BY <1>3, <2>2 DEF Commands, Held, Due
<1>11. Ordered'
  <2>1. SUFFICES ASSUME NEW p \in Queues, NEW i \in 1 .. Len(queue'[p]), NEW j \in 1 .. Len(queue'[p]),
                        j < i, queue'[p][j].x = queue'[p][i].x
                 PROVE  queue'[p][j].at < queue'[p][i].at
    BY DEF Ordered
  <2>2. CASE p = call.sq
    <3>1. PICK s \in Seq(CommandSet), l \in Nat : s = queue[call.sq] /\ l = Len(s)
      BY <1>0, <1>2
    <3>2. /\ i \in 1 .. l + 1 /\ j \in 1 .. l + 1
          /\ \A n \in 1 .. l : queue'[p][n] = s[n]
          /\ queue'[p][l + 1] = k
      BY <1>6, <2>1, <2>2, <3>1
    <3>3. j \in 1 .. l /\ queue'[p][j] = s[j]
      BY <2>1, <3>2
    <3>4. CASE i = l + 1
      <4>1. s[j] \in ToSet(queue[p]) /\ s[j].x = call.x
        BY <1>1, <2>1, <2>2, <3>1, <3>2, <3>3, <3>4 DEF ToSet
      <4>2. QED
        BY <1>1, <1>10, <3>2, <3>3, <3>4, <4>1
    <3>5. CASE i \in 1 .. l
      <4>1. queue'[p][i] = s[i] /\ s[j].x = s[i].x
        BY <2>1, <3>2, <3>3, <3>5
      <4>2. s[j].at < s[i].at
        BY <2>1, <2>2, <3>1, <3>3, <3>5, <4>1 DEF Commands, Ordered
      <4>3. QED
        BY <3>3, <4>1, <4>2
    <3>6. QED
      BY <3>2, <3>4, <3>5
  <2>3. CASE p # call.sq
    BY <1>6, <2>1, <2>3 DEF Commands, Ordered
  <2>4. QED
    BY <2>2, <2>3
<1>12. \A a \in answers : a.at < Pushed /\ a.at \in Nat /\ (~a.ok => EndsChunk(a.at))
  BY AnswerTyped DEF Commands, Answered
<1>13. Held'
  <2>1. SUFFICES ASSUME NEW p \in Queues, NEW m \in ToSet(queue'[p])
                 PROVE  /\ m.x <= call'.x
                        /\ HasWaiter(m)' => Due(p, m)'
                        /\ ~HasWaiter(m)' => mem'[m.buf] = "leaked"
    BY DEF Held
  <2>2. HasWaiter(m)' <=> HasWaiter(m)
    BY <1>0, <1>4 DEF HasWaiter, Moving
  <2>3. CASE m \in ToSet(queue[p])
    <3>1. /\ m.x <= call.x /\ (HasWaiter(m) => Due(p, m)) /\ (~HasWaiter(m) => mem[m.buf] = "leaked")
          /\ m.at \in Nat
      BY <2>3, CommandTyped DEF Commands, Held
    <3>2. ASSUME HasWaiter(m) PROVE Due(p, m)'
      <4>1. Due(p, m) /\ m.at < Pushed
        BY <1>10, <2>3, <3>1, <3>2 DEF HasWaiter
      <4>2. m.last => EndsChunk(m.at)'
        BY <1>8, <3>1, <4>1 DEF Due
      <4>3. QED
        BY <1>0, <1>4, <1>5, <4>1, <4>2 DEF Due
    <3>3. QED
      BY <1>4, <2>2, <3>1, <3>2
  <2>4. CASE m = k /\ p = call.sq
    <3>1. HasWaiter(m) /\ m.x <= call.x
      <4>1. call.x \in 0 .. MaxTransfers
        BY <1>0 DEF Fields
      <4>2. call.x <= call.x
        BY <4>1, Typed
      <4>3. QED
        BY <1>0, <1>1, <2>4, <4>2 DEF HasWaiter
    <3>2. m.at \in Outstanding' /\ \A a \in answers' : a.at < m.at
      BY <1>0, <1>1, <1>5, <1>12, <2>4
    <3>3. m.last => EndsChunk(m.at)'
      BY <1>1, <1>9, <2>4
    <3>4. Due(p, m)'
      BY <1>0, <1>1, <1>4, <2>4, <3>2, <3>3 DEF Due
    <3>5. QED
      BY <1>4, <2>2, <3>1, <3>4
  <2>5. QED
    BY <1>6, <2>1, <2>3, <2>4
<1>14. Answered'
  <2>1. \A a \in answers : a.at < Pushed' /\ (~a.ok => EndsChunk(a.at)')
    BY <1>3, <1>8, <1>12
  <2>2. call'.stage \notin {"idle", "take"}
    BY <1>0 DEF Moving
  <2>3. QED
    BY <1>0, <2>1, <2>2 DEF Commands, Answered
<1>15. QED
  BY <1>7, <1>11, <1>13, <1>14 DEF Commands
-----------------------------------------------------------------------------
(***************************************************************************)
(* The mappings: for every step of the device and of the host, whichever   *)
(* commands the device rejects.                                            *)
(***************************************************************************)
HostState == HostMemory /\ Pushing

LEMMA HostInductive ==
  HostState /\ [Next]_vars => HostState'
<1> SUFFICES ASSUME HostState, [Next]_vars PROVE HostState'
  OBVIOUS
<1>0. HostMemory /\ Pushing
  BY DEF HostState
<1>1. ASSUME NEW h \in Halves, SetStagingCapacity(h) PROVE HostState'
  <2>1. HostMemory'
    BY <1>0, <1>1, SetCapacityMemory
  <2>2. call'.stage = "idle"
    BY <1>1 DEF SetStagingCapacity
  <2>3. QED
    BY <2>1, <2>2 DEF HostState, Pushing, Moving
<1>2. ASSUME NEW f \in Frames, NEW len \in PinnedSizes, AllocPinned(f, len) PROVE HostState'
  <2>1. HostMemory'
    BY <1>0, <1>2, AllocPinnedMemory
  <2>2. call'.stage = "idle"
    BY <1>2 DEF AllocPinned
  <2>3. QED
    BY <2>1, <2>2 DEF HostState, Pushing, Moving
<1>3. CASE DropPinned
  <2>1. HostMemory'
    BY <1>0, <1>3, DropPinnedMemory
  <2>2. call'.stage = "idle"
    BY <1>3 DEF DropPinned
  <2>3. QED
    BY <2>1, <2>2 DEF HostState, Pushing, Moving
<1>4. ASSUME NEW dir \in {"h2d", "fill", "d2h"}, NEW total \in 1 .. MaxTotal, NEW q \in Queues,
             TakeStaging(dir, total, q)
      PROVE  HostState'
  <2>1. HostMemory'
    BY <1>0, <1>4, TakeStagingMemory
  <2>2. call'.stage = "take"
    BY <1>0, <1>4, TakeStagingFields
  <2>3. QED
    BY <2>1, <2>2 DEF HostState, Pushing, Moving
<1>5. ASSUME NEW dir \in {"h2d", "d2h"}, NEW q \in Queues, PinnedTransfer(dir, q) PROVE HostState'
  <2>1. HostMemory'
    BY <1>0, <1>5, PinnedTransferMemory
  <2>2. /\ Fields' /\ call'.stage = "push" /\ call'.pushing = 0 /\ call'.next = 0 /\ call'.count = 0
        /\ call'.pending = <<>> /\ call'.awaiting = <<>> /\ call'.total > 0 /\ call'.chunk > 0
    <3>1. /\ Fields' /\ call'.stage = "push" /\ call'.pushing = 0 /\ call'.next = 0 /\ call'.count = 0
          /\ call'.pending = <<>> /\ call'.awaiting = <<>> /\ call'.total = size[pinned]
          /\ call'.chunk = size[pinned] /\ size[pinned] \in 1 .. MaxTotal
      BY <1>0, <1>5, PinnedTransferFields
    <3>2. QED
      BY <3>1
  <2>3. Pushing'
    BY <2>2, NothingPushedNext
  <2>4. QED
    BY <2>1, <2>3 DEF HostState
<1>6. CASE TakeKeep
  <2>1. HostMemory' /\ call'.stage = "take"
    BY <1>0, <1>6, TakeKeepMemory
  <2>2. QED
    BY <2>1 DEF HostState, Pushing, Moving
<1>7. ASSUME NEW f \in Frames, TakeReplace(f) PROVE HostState'
  <2>1. HostMemory' /\ call'.stage = "take"
    BY <1>0, <1>7, TakeReplaceMemory
  <2>2. QED
    BY <2>1 DEF HostState, Pushing, Moving
<1>8. CASE TakeFails
  <2>1. HostMemory' /\ call'.stage = "idle"
    BY <1>0, <1>8, TakeFailsMemory
  <2>2. QED
    BY <2>1 DEF HostState, Pushing, Moving
<1>9. CASE TakeDone
  <2>1. /\ HostMemory' /\ call.stage = "take" /\ call'.stage \in {"push", "produce"}
        /\ UNCHANGED <<call.pushing, call.next, call.count, call.pending, call.awaiting>>
    BY <1>0, <1>9, TakeDoneMemory
  <2>2. /\ call.pushing = 0 /\ call.next = 0 /\ call.count = 0 /\ call.pending = <<>> /\ call.awaiting = <<>>
    BY <1>0, <2>1 DEF HostMemory, Phases
  <2>3. Fields' /\ call'.total > 0 /\ call'.chunk > 0
    BY <2>1 DEF HostMemory, Memory, Phases, Moving
  <2>4. Pushing'
    BY <2>1, <2>2, <2>3, NothingPushedNext
  <2>5. QED
    BY <2>1, <2>4 DEF HostState
<1>10. CASE Push
  BY <1>0, <1>10, MovingMemory, PushPushing DEF HostState
<1>11. CASE OtherStep
  <2>1. HostMemory'
    BY <1>0, <1>11, MovingMemory DEF OtherStep
  <2>2. QED
    BY <1>0, <1>11, <2>1, OtherPushing DEF HostState
<1>12. CASE Restore
  <2>1. HostMemory' /\ call'.stage = "idle"
    BY <1>0, <1>12, RestoreMemory
  <2>2. QED
    BY <2>1 DEF HostState, Pushing, Moving
<1>13. ASSUME UNCHANGED hostMemory, call' = call PROVE HostState'
  <2>1. HostMemory'
    BY <1>0, <1>13, SameMemory
  <2>2. Pushing'
    BY <1>0, <1>13 DEF Pushing, Pushed, Offset, Outstanding, Moving
  <2>3. QED
    BY <2>1, <2>2 DEF HostState
<1>14. ASSUME NEW q \in Queues, Perform(q) \/ Reject(q) PROVE HostState'
  BY <1>13, <1>14 DEF Perform, Reject, Complete
<1>15. CASE UNCHANGED vars
  BY <1>13, <1>15 DEF vars, hostMemory
<1>16. QED
  BY <1>1, <1>2, <1>3, <1>4, <1>5, <1>6, <1>7, <1>8, <1>9, <1>10, <1>11, <1>12, <1>14, <1>15
     DEF Next, Begin, Continue, OtherStep

LEMMA InitState == Init => HostState
<1> SUFFICES ASSUME Init PROVE HostState
  OBVIOUS
<1>1. HostMemory
  BY InitMemory
<1>2. call.stage = "idle"
  BY DEF Init, Idle
<1>3. QED
  BY <1>1, <1>2 DEF HostState, Pushing, Moving

\* What becomes of the host memory does not depend on what the device answers:
\* `HostMemory`, and the bookkeeping of chunks it needs, always hold.
THEOREM HostMemoryAlways == Spec => []HostState
BY InitState, HostInductive, PTL DEF Spec

\* The mapped blocks are those of the pool, the transfer and the pinned buffer,
\* each held once: no mapping is lost or handed out twice by `take_staging`,
\* `restore_staging` or a failed replacement.
THEOREM MappingsAccountedAlways == Spec => []MappingsAccounted
<1>1. HostState => MappingsAccounted
  <2> SUFFICES ASSUME HostState PROVE MappingsAccounted
    OBVIOUS
  <2>0. HostMemory
    BY DEF HostState
  <2>1. /\ ToSet(pool) \subseteq Frames /\ ToSet(call.bufs) \subseteq Frames
        /\ pinned \in Frames \cup {None}
        /\ pool \in Seq(Frames) /\ call.bufs \in Seq(Frames)
        /\ \A f \in Frames : mem[f] = "mapped" <=> f \in Buffers \cup {pinned}
        /\ Distinct(pool) /\ Distinct(call.bufs)
        /\ pinned \notin ToSet(pool) /\ (~call.pin => pinned \notin ToSet(call.bufs))
    BY SMTT(30), <2>0 DEF HostMemory, Memory, Fields, Mappings, ToSet
  <2>2. {f \in Frames : mem[f] = "mapped"} = Buffers \cup ({pinned} \ {None})
    BY <2>1, Typed DEF Buffers
  <2>3. IsInjective(pool \o call.bufs)
    <3>1. PICK s \in Seq(Frames), t \in Seq(Frames), l \in Nat, m \in Nat :
            s = pool /\ t = call.bufs /\ l = Len(s) /\ m = Len(t) /\ Distinct(s) /\ Distinct(t)
      BY <2>1
    <3>2. PICK c \in Seq(Frames) : /\ c = s \o t /\ Len(c) = l + m
                                   /\ \A j \in 1 .. l + m : c[j] = IF j <= l THEN s[j] ELSE t[j - l]
      <4>1. /\ s \o t \in Seq(Frames) /\ Len(s \o t) = Len(s) + Len(t)
            /\ \A j \in 1 .. Len(s) + Len(t) : (s \o t)[j] = IF j <= Len(s) THEN s[j] ELSE t[j - Len(s)]
        BY Concatenation
      <4>2. QED
        BY <3>1, <4>1
    <3>3. \A f \in ToSet(s) : f \notin ToSet(t)
      <4>1. CASE call.pin
        <5>1. t = <<pinned>>
          BY <2>0, <3>1, <4>1 DEF HostMemory, Phases
        <5>2. ToSet(t) = {pinned}
          BY <5>1 DEF ToSet
        <5>3. QED
          BY <2>1, <3>1, <5>2
      <4>2. CASE ~call.pin
        <5>1. s = <<>> \/ t = <<>>
          BY <2>0, <3>1, <4>2, IdleFields DEF HostMemory, Phases
        <5>2. ToSet(<<>>) = {}
          BY DEF ToSet
        <5>3. QED
          BY <5>1, <5>2
      <4>3. QED
        BY <4>1, <4>2
    <3>4. ASSUME NEW i \in 1 .. l + m, NEW j \in 1 .. l + m, c[i] = c[j] PROVE i = j
      <4>1. CASE i <= l /\ j <= l
        <5>1. i \in DOMAIN s /\ j \in DOMAIN s /\ s[i] = s[j]
          BY <3>1, <3>2, <3>4, <4>1
        <5>2. QED
          BY <3>1, <5>1 DEF Distinct
      <4>2. CASE ~(i <= l) /\ ~(j <= l)
        <5>1. i - l \in DOMAIN t /\ j - l \in DOMAIN t /\ t[i - l] = t[j - l]
          BY <3>1, <3>2, <3>4, <4>2
        <5>2. i - l = j - l
          BY <3>1, <5>1 DEF Distinct
        <5>3. QED
          BY <3>1, <5>2
      <4>3. CASE i <= l /\ ~(j <= l)
        <5>1. i \in DOMAIN s /\ j - l \in DOMAIN t /\ s[i] = t[j - l]
          BY <3>1, <3>2, <3>4, <4>3
        <5>2. QED
          BY <3>3, <5>1 DEF ToSet
      <4>4. CASE ~(i <= l) /\ j <= l
        <5>1. j \in DOMAIN s /\ i - l \in DOMAIN t /\ s[j] = t[i - l]
          BY <3>1, <3>2, <3>4, <4>4
        <5>2. QED
          BY <3>3, <5>1 DEF ToSet
      <4>5. QED
        BY <4>1, <4>2, <4>3, <4>4
    <3>5. DOMAIN c = 1 .. l + m
      BY <3>1, <3>2
    <3>6. QED
      BY SMTT(30), <3>1, <3>2, <3>4, <3>5 DEF IsInjective
  <2>4. call.pin \/ pinned \notin Buffers
    BY <2>1 DEF Buffers
  <2>5. QED
    BY <2>2, <2>3, <2>4 DEF MappingsAccounted
<1>2. QED
  BY <1>1, HostMemoryAlways, PTL

\* The size of at most two buffers, as `CapacityRespected` adds it up.
StagedSize(s) == FoldLeft(LAMBDA sum, f : sum + size[f], 0, s)

LEMMA StagedSizeFits ==
  ASSUME NEW s \in Seq(Frames), Len(s) <= 2, NEW h \in Nat,
         \A f \in ToSet(s) : size[f] \in 1 .. h
  PROVE  StagedSize(s) <= 2 * h
<1> DEFINE F(it, x) == IF x = {} THEN 0 ELSE it[x \ {Max(x)}] + size[s[Max(x)]]
           g == [x \in SUBSET (DOMAIN s) |->
                   IF x = {} THEN 0
                   ELSE IF x = {1} THEN 0 + size[s[1]]
                   ELSE IF x = {2} THEN 0 + size[s[2]]
                   ELSE 0 + size[s[1]] + size[s[2]]]
           iter == CHOOSE i : i = [x \in SUBSET (DOMAIN s) |-> F(i, x)]
<1>1. PICK l \in 0 .. 2 : l = Len(s) /\ DOMAIN s = 1 .. l
  <2>1. PICK n \in Nat : n = Len(s) /\ DOMAIN s = 1 .. n
    OBVIOUS
  <2>2. n <= 2
    BY <2>1
  <2>3. n \in 0 .. 2
    BY <2>2
  <2>4. QED
    BY <2>1, <2>3
<1>2. DOMAIN s \subseteq {1, 2} /\ (1 \notin DOMAIN s => 2 \notin DOMAIN s)
  BY <1>1
<1>3. /\ \A i \in DOMAIN s : size[s[i]] \in Nat /\ size[s[i]] <= h
  BY DEF ToSet
<1>4. Max({1}) = 1 /\ Max({2}) = 2 /\ Max({1, 2}) = 2
  BY DEF Max
<1>5. g = [x \in SUBSET (DOMAIN s) |-> F(g, x)]
  <2>1. ASSUME NEW x \in SUBSET (DOMAIN s) PROVE g[x] = F(g, x)
    <3>1. x = {} \/ x = {1} \/ x = {2} \/ x = {1, 2}
      BY <1>2
    <3>2. CASE x = {}
      BY <3>2
    <3>3. CASE x = {1}
      <4>1. x \ {Max(x)} = {} /\ Max(x) = 1 /\ g[{}] = 0
        BY <1>4, <3>3
      <4>2. QED
        BY <3>3, <4>1
    <3>4. CASE x = {2}
      <4>1. x \ {Max(x)} = {} /\ Max(x) = 2 /\ g[{}] = 0
        BY <1>4, <3>4
      <4>2. QED
        BY <3>4, <4>1
    <3>5. CASE x = {1, 2}
      <4>1. x \ {Max(x)} = {1} /\ Max(x) = 2 /\ g[{1}] = 0 + size[s[1]]
        BY <1>4, <3>5
      <4>2. QED
        BY <3>5, <4>1
    <3>6. QED
      BY <3>1, <3>2, <3>3, <3>4, <3>5
  <2> HIDE DEF F
  <2>2. QED
    BY <2>1
<1>6. iter = [x \in SUBSET (DOMAIN s) |-> F(iter, x)]
  <2> HIDE DEF F, g
  <2>1. QED
    BY <1>5
<1>7. StagedSize(s) = iter[DOMAIN s]
  BY DEF StagedSize, FoldLeft, MapThenFoldSet
<1> HIDE DEF iter, g
<1>8. \A x \in SUBSET (DOMAIN s) : iter[x] = F(iter, x)
  <2> HIDE DEF F
  <2>1. QED
    BY <1>6
<1>9. CASE l = 0
  <2>1. DOMAIN s = {} /\ iter[DOMAIN s] = 0
    <3>1. DOMAIN s = {}
      BY <1>1, <1>9
    <3>2. QED
      BY <1>8, <3>1
  <2>2. QED
    BY <1>7, <2>1
<1>10. CASE l = 1
  <2>1. DOMAIN s = {1}
    BY <1>1, <1>10
  <2>2. iter[{}] = 0
    BY <1>8
  <2>3. iter[{1}] = 0 + size[s[1]]
    <3>1. {1} \ {1} = {} /\ {1} # {}
      OBVIOUS
    <3>2. QED
      BY ZenonT(30), <1>4, <1>8, <2>1, <2>2, <3>1
  <2>4. PICK a \in Nat : a = size[s[1]] /\ a <= h
    BY <1>3, <2>1
  <2>5. QED
    BY <1>7, <2>1, <2>3, <2>4
<1>11. CASE l = 2
  <2>1. DOMAIN s = {1, 2}
    BY <1>1, <1>11
  <2>2. iter[{}] = 0
    BY <1>8
  <2>3. iter[{1}] = 0 + size[s[1]]
    <3>1. {1} \ {1} = {} /\ {1} # {} /\ {1} \in SUBSET (DOMAIN s)
      BY <2>1
    <3>2. iter[{1}] = F(iter, {1})
      BY <1>8, <3>1
    <3>3. QED
      BY <1>4, <2>2, <3>1, <3>2
  <2>4. iter[{1, 2}] = iter[{1}] + size[s[2]]
    <3>1. {1, 2} \ {2} = {1}
      OBVIOUS
    <3>2. QED
      BY <1>4, <1>8, <2>1, <3>1
  <2>5. PICK a \in Nat, b \in Nat : a = size[s[1]] /\ a <= h /\ b = size[s[2]] /\ b <= h
    BY <1>3, <2>1
  <2>6. QED
    BY <1>7, <2>1, <2>3, <2>4, <2>5
<1>12. QED
  BY <1>1, <1>9, <1>10, <1>11

\* The buffers kept or taken for staging never exceed the staging capacity.
THEOREM CapacityRespectedAlways == Spec => []CapacityRespected
<1>1. HostState => CapacityRespected
  <2> SUFFICES ASSUME HostState PROVE CapacityRespected
    OBVIOUS
  <2>0. HostMemory /\ half \in Nat
    BY Typed DEF HostState, HostMemory, Memory
  <2> DEFINE staged == IF call.pin THEN pool ELSE pool \o call.bufs
  <2>1. pool \in Seq(Frames) /\ call.bufs \in Seq(Frames)
    BY <2>0 DEF HostMemory, Memory, Fields
  <2>2. staged = pool \/ (~call.pin /\ staged = call.bufs)
    <3>1. CASE call.pin
      BY <3>1
    <3>2. CASE ~call.pin
      <4>1. pool = <<>> \/ call.bufs = <<>>
        BY <2>0, <3>2, IdleFields DEF HostMemory, Phases
      <4>2. QED
        BY <2>1, <3>2, <4>1
    <3>3. QED
      BY <3>1, <3>2
  <2> HIDE DEF staged
  <2>3. staged \in Seq(Frames) /\ Len(staged) <= 2 /\ \A f \in ToSet(staged) : size[f] \in 1 .. half
    BY <2>0, <2>1, <2>2 DEF HostMemory, Mappings
  <2>4. StagedSize(staged) <= 2 * half
    BY <2>0, <2>3, StagedSizeFits
  <2>5. QED
    BY <2>4 DEF CapacityRespected, StagedSize, staged
<1>2. QED
  BY <1>1, HostMemoryAlways, PTL
-----------------------------------------------------------------------------
(***************************************************************************)
(* Memory and commands together, when the device rejects no command but    *)
(* the last of a chunk.  Without that the property does not hold: see the  *)
(* run that lets it reject any.                                            *)
(***************************************************************************)
OnlyLastRejected == Rejects \in {"none", "last"}

\* Beginning a transfer, and taking its buffers, leave leaked memory leaked.
LEMMA BeginCommands ==
  ASSUME Transfer, HostState', Begin \/ TakeKeep \/ (\E f \in Frames : TakeReplace(f)) \/ TakeFails \/ TakeDone
  PROVE  Commands'
<1>0. HostMemory /\ Commands /\ Answered
  BY DEF Transfer, Commands
<1>1. /\ call.stage \in {"idle", "take"} /\ queue' = queue /\ answers' = answers
  BY DEF Begin, SetStagingCapacity, AllocPinned, DropPinned, TakeStaging, PinnedTransfer, TakeKeep, TakeReplace,
         TakeFails, TakeDone
<1>2. answers' = {}
  BY <1>0, <1>1 DEF Answered
<1>3. \A f \in Frames : f \in ToSet(pool) \cup {pinned} => mem[f] = "mapped"
  BY <1>0 DEF HostMemory, Mappings, Buffers
<1>4. /\ \A g \in Frames : mem[g] = "leaked" => mem'[g] = "leaked"
      /\ \/ call'.x = call.x /\ (call.stage = "take" \/ call'.stage = "idle")
         \/ call'.x = call.x + 1
  <2>1. ASSUME NEW h \in Halves, SetStagingCapacity(h)
        PROVE  call' = call /\ call.stage = "idle" /\ \A g \in Frames : mem[g] = "leaked" => mem'[g] = "leaked"
    BY <1>3, <2>1 DEF SetStagingCapacity, Unmap
  <2>2. ASSUME NEW f \in Frames, NEW len \in PinnedSizes, AllocPinned(f, len)
        PROVE  call' = call /\ call.stage = "idle" /\ \A g \in Frames : mem[g] = "leaked" => mem'[g] = "leaked"
    <3>1. mem' = [mem EXCEPT ![f] = "mapped"] /\ mem[f] = "unmapped" /\ call' = call /\ call.stage = "idle"
      BY <2>2 DEF AllocPinned
    <3>2. QED
      BY <1>0, <3>1 DEF HostMemory, Memory
  <2>3. CASE DropPinned
    BY <1>3, <2>3 DEF DropPinned, Unmap
  <2>4. ASSUME NEW dir \in {"h2d", "fill", "d2h"}, NEW total \in 1 .. MaxTotal, NEW q \in Queues,
               TakeStaging(dir, total, q)
        PROVE  call'.x = call.x + 1 /\ mem' = mem
    BY <1>0, <2>4, TakeStagingFields DEF TakeStaging
  <2>5. ASSUME NEW dir \in {"h2d", "d2h"}, NEW q \in Queues, PinnedTransfer(dir, q)
        PROVE  call'.x = call.x + 1 /\ mem' = mem
    BY <1>0, <2>5, PinnedTransferFields DEF PinnedTransfer, hostMemory
  <2>6. CASE TakeKeep
    BY <1>0, <2>6, TakeKeepMemory DEF TakeKeep
  <2>7. ASSUME NEW f \in Frames, TakeReplace(f)
        PROVE  /\ call'.x = call.x /\ call.stage = "take"
               /\ \A g \in Frames : mem[g] = "leaked" => mem'[g] = "leaked"
    BY <1>0, <2>7, TakeReplaceMemory DEF TakeReplace
  <2>8. CASE TakeFails
    BY <1>0, <2>8, TakeFailsMemory DEF TakeFails
  <2>9. CASE TakeDone
    BY <1>0, <2>9, TakeDoneMemory DEF hostMemory
  <2>10. QED
    BY <2>1, <2>2, <2>3, <2>4, <2>5, <2>6, <2>7, <2>8, <2>9 DEF Begin
<1>5. QED
  BY <1>0, <1>1, <1>2, <1>4, UnwaitedCommands

LEMMA StutterCommands ==
  ASSUME Commands, UNCHANGED vars
  PROVE  Commands'
<1>1. UNCHANGED <<mem, queue, answers, call>>
  BY DEF vars
<1>2. \A t : EndsChunk(t)' <=> EndsChunk(t)
  BY <1>1 DEF EndsChunk, Older, Newer
<1>3. Pushed' = Pushed /\ Outstanding' = Outstanding
  BY <1>1 DEF Pushed, Offset, Outstanding
<1>4. CommandTypes' /\ Ordered' /\ Answered'
  BY <1>1, <1>2, <1>3 DEF Commands, CommandTypes, Ordered, Answered
<1>5. Held'
  <2>1. SUFFICES ASSUME NEW q \in Queues, NEW k \in ToSet(queue[q])
                 PROVE  /\ k.x <= call'.x
                        /\ HasWaiter(k)' => Due(q, k)'
                        /\ ~HasWaiter(k)' => mem'[k.buf] = "leaked"
    BY <1>1 DEF Held
  <2>2. HasWaiter(k)' <=> HasWaiter(k)
    BY <1>1 DEF HasWaiter
  <2>3. Due(q, k) => Due(q, k)'
    BY <1>1, <1>2, <1>3 DEF Due
  <2>4. QED
    BY <1>1, <2>2, <2>3 DEF Commands, Held
<1>6. QED
  BY <1>4, <1>5 DEF Commands

THEOREM TransferInductive ==
  ASSUME OnlyLastRejected
  PROVE  Transfer /\ [Next]_vars => Transfer'
<1> SUFFICES ASSUME Transfer, [Next]_vars PROVE Transfer'
  OBVIOUS
<1>0. HostMemory /\ Pushing /\ Commands /\ HostState
  BY DEF Transfer, HostState
<1>1. HostState'
  BY <1>0, HostInductive
<1>2. CASE Begin \/ TakeKeep \/ (\E f \in Frames : TakeReplace(f)) \/ TakeFails \/ TakeDone
  BY <1>1, <1>2, BeginCommands DEF Transfer, HostState
<1>3. CASE Push
  BY <1>0, <1>1, <1>3, PushCommands DEF Transfer, HostState
<1>4. CASE OtherStep
  BY <1>0, <1>1, <1>4, OtherCommands DEF Transfer, HostState
<1>5. CASE Restore
  BY <1>0, <1>1, <1>5, RestoreCommands DEF Transfer, HostState
<1>6. ASSUME NEW q \in Queues, Perform(q) \/ Reject(q) PROVE Transfer'
  <2>1. CASE Perform(q)
    <3>1. Complete(q, TRUE)
      BY <2>1 DEF Perform
    <3>2. QED
      BY <1>0, <1>1, <3>1, CompleteCommands DEF Transfer, HostState
  <2>2. CASE Reject(q)
    <3>1. Complete(q, FALSE) /\ Head(queue[q]).last
      BY <2>2 DEF Reject, OnlyLastRejected
    <3>2. QED
      BY <1>0, <1>1, <3>1, CompleteCommands DEF Transfer, HostState
  <2>3. QED
    BY <1>6, <2>1, <2>2
<1>7. CASE UNCHANGED vars
  BY <1>0, <1>1, <1>7, StutterCommands DEF Transfer, HostState
<1>8. QED
  BY <1>2, <1>3, <1>4, <1>5, <1>6, <1>7 DEF Next, Continue, OtherStep

LEMMA InitTransfer == Init => Transfer
<1> SUFFICES ASSUME Init PROVE Transfer
  OBVIOUS
<1>1. HostMemory /\ Pushing
  BY InitState DEF HostState
<1>2. queue = [q \in Queues |-> <<>>] /\ answers = {}
  BY DEF Init
<1>3. \A q \in Queues : queue[q] = <<>> /\ ToSet(queue[q]) = {}
  BY <1>2 DEF ToSet
<1>4. Commands
  <2>1. CommandTypes
    BY <1>2 DEF CommandTypes
  <2>2. Ordered
    BY <1>3 DEF Ordered
  <2>3. QED
    BY <1>2, <1>3, <2>1, <2>2 DEF Commands, Held, Answered
<1>5. QED
  BY <1>1, <1>4 DEF Transfer

\* The device only ever accesses memory held for the transfer that submitted the
\* command, or memory leaked for good: `restore_staging` never puts a buffer back
\* that a queued command still names, and `dma_may_be_in_flight` with the
\* pending tags tells when.
THEOREM DmaOnlyIntoHeldMemoryAlways ==
  ASSUME OnlyLastRejected
  PROVE  Spec => []DmaOnlyIntoHeldMemory
<1>1. Transfer => DmaOnlyIntoHeldMemory
  <2> SUFFICES ASSUME Transfer, NEW q \in Queues, NEW k \in ToSet(queue[q])
               PROVE  mem[k.buf] = "leaked" \/ (k.x = call.x /\ k.buf \in ToSet(call.bufs))
    BY DEF DmaOnlyIntoHeldMemory
  <2>1. HasWaiter(k) => Due(q, k)
    BY DEF Transfer, Commands, Held
  <2>2. ~HasWaiter(k) => mem[k.buf] = "leaked"
    BY DEF Transfer, Commands, Held
  <2>3. QED
    BY <2>1, <2>2 DEF HasWaiter, Due
<1>2. Spec => []Transfer
  BY InitTransfer, TransferInductive, PTL DEF Spec
<1>3. QED
  BY <1>1, <1>2, PTL
-----------------------------------------------------------------------------
(***************************************************************************)
(* The data.                                                               *)
(***************************************************************************)
LEMMA PieceTyped ==
  ASSUME NEW x \in Transfers
  PROVE  /\ \A i \in Pieces : <<x, i>> \in Data
         /\ None \in Data /\ Nothing \in [Pieces -> Data] /\ 0 \in Pieces
         /\ \A i \in Pieces : i \in Nat /\ i < MaxTotal
<1>1. MaxTotal \in Nat \ {0} /\ 0 \in Pieces /\ \A i \in Pieces : i \in Nat /\ i < MaxTotal
  BY Typed DEF Pieces
<1>2. QED
  BY <1>1 DEF Data, Nothing

LEMMA StageTyped ==
  ASSUME NEW x \in Transfers, NEW offset \in Nat, NEW len \in Nat, offset + len <= MaxTotal
  PROVE  Stage(x, offset, len) \in [Pieces -> Data] /\ Pattern(x, len) \in [Pieces -> Data]
<1>1. \A i \in Pieces : i < len => offset + i \in Pieces
  BY Typed DEF Pieces
<1>2. QED
  BY <1>1, PieceTyped DEF Stage, Pattern

LEMMA NothingTyped == Nothing \in [Pieces -> Data]
BY DEF Nothing, Data

\* Nothing is claimed of the data while no transfer is under way.
LEMMA QuietData ==
  ASSUME DataTypes', ~Moving'
  PROVE  Moved'
BY DEF Moved, Chunks, CommandData, StagedData, MovedData, Running, Moving

LEMMA QuietTypes ==
  ASSUME HostMemory, DataTypes, UNCHANGED <<queue, dram>>, content' = content \/ (\E f \in Frames : content' = [content EXCEPT ![f] = Nothing]),
         call'.dst = call.dst \/ call'.dst = Nothing
  PROVE  DataTypes'
BY NothingTyped DEF DataTypes

LEMMA BeginData ==
  ASSUME HostMemory, DataTypes,
         \/ \E h \in Halves : SetStagingCapacity(h)
         \/ \E f \in Frames, len \in PinnedSizes : AllocPinned(f, len)
         \/ DropPinned
         \/ \E dir \in {"h2d", "fill", "d2h"}, total \in 1 .. MaxTotal, q \in Queues : TakeStaging(dir, total, q)
         \/ TakeKeep
         \/ \E f \in Frames : TakeReplace(f)
         \/ TakeFails
         \/ Restore
  PROVE  Moved'
<1>1. CASE (\E h \in Halves : SetStagingCapacity(h)) \/ DropPinned
  <2>1. UNCHANGED <<content, dram, queue, call>> /\ call.stage = "idle"
    BY <1>1 DEF SetStagingCapacity, DropPinned
  <2>2. QED
    BY <2>1, QuietTypes, QuietData DEF Moving
<1>2. ASSUME NEW f \in Frames, NEW len \in PinnedSizes, AllocPinned(f, len) PROVE Moved'
  <2>1. UNCHANGED <<dram, queue, call>> /\ call.stage = "idle" /\ content' = [content EXCEPT ![f] = Nothing]
    BY <1>2 DEF AllocPinned
  <2>2. QED
    BY <2>1, QuietTypes, QuietData DEF Moving
<1>3. ASSUME NEW dir \in {"h2d", "fill", "d2h"}, NEW total \in 1 .. MaxTotal, NEW q \in Queues,
             TakeStaging(dir, total, q)
      PROVE  Moved'
  <2>1. call'.stage = "take" /\ call'.dst = Nothing /\ UNCHANGED <<content, queue>> /\ dram' = Nothing
    BY <1>3, TakeStagingFields DEF TakeStaging
  <2>2. QED
    BY <2>1, NothingTyped, QuietData DEF Moving, DataTypes
<1>4. CASE TakeKeep
  <2>1. /\ call' = [call EXCEPT !.index = @ + 1] /\ call.stage = "take" /\ UNCHANGED <<content, dram, queue>>
    BY <1>4 DEF TakeKeep
  <2>2. call'.stage = "take" /\ call'.dst = call.dst
    BY <2>1 DEF HostMemory, Memory, Fields, Idle
  <2>3. QED
    BY <2>1, <2>2, QuietTypes, QuietData DEF Moving
<1>5. ASSUME NEW f \in Frames, TakeReplace(f) PROVE Moved'
  <2>1. /\ call' = [call EXCEPT !.bufs = InsertAt(Remaining, call.index + 1, f), !.index = @ + 1]
        /\ call.stage = "take" /\ UNCHANGED <<dram, queue>> /\ content' = [content EXCEPT ![f] = Nothing]
    BY <1>5 DEF TakeReplace
  <2>2. call'.stage = "take" /\ call'.dst = call.dst
    BY <2>1 DEF HostMemory, Memory, Fields, Idle
  <2>3. QED
    BY <2>1, <2>2, QuietTypes, QuietData DEF Moving
<1>6. CASE TakeFails \/ Restore
  <2>1. /\ call' = [Idle EXCEPT !.x = call.x] /\ UNCHANGED <<content, dram, queue>>
    BY <1>6 DEF TakeFails, Restore
  <2>2. call'.stage = "idle" /\ call'.dst = Nothing
    <3>1. PICK x : x = call.x
      OBVIOUS
    <3>2. call' = [Idle EXCEPT !.x = x]
      BY <2>1, <3>1
    <3>3. QED
      BY <3>2 DEF Idle
  <2>3. QED
    BY <2>1, <2>2, QuietTypes, QuietData DEF Moving
<1>7. QED
  BY <1>1, <1>2, <1>3, <1>4, <1>5, <1>6

\* Chunks follow one another.
LEMMA Multiples ==
  ASSUME NEW a \in Nat, NEW b \in Nat, NEW n \in Nat
  PROVE  /\ a * n \in Nat /\ b * n \in Nat
         /\ a <= b => a * n <= b * n
         /\ a < b => a * n + n <= b * n
<1>1. a * n \in Nat /\ b * n \in Nat
  OBVIOUS
<1>2. ASSUME a <= b PROVE a * n <= b * n
  <2>1. PICK d \in Nat : b = a + d
    BY <1>2
  <2>2. b * n = a * n + d * n /\ d * n \in Nat
    BY <2>1
  <2>3. QED
    BY <1>1, <2>2
<1>3. ASSUME a < b PROVE a * n + n <= b * n
  <2>1. PICK d \in Nat : b = a + 1 + d
    BY <1>3
  <2>2. b * n = a * n + n + d * n /\ d * n \in Nat
    BY <2>1
  <2>3. QED
    BY <1>1, <2>2
<1>4. QED
  BY <1>1, <1>2, <1>3

LEMMA ChunkOrder ==
  ASSUME Fields
  PROVE  \A c, d \in Nat :
           /\ Offset(c) \in Nat /\ Offset(d) \in Nat
           /\ c <= d => Offset(c) <= Offset(d)
           /\ c < d => Offset(c) + call.chunk <= Offset(d)
<1>1. PICK n \in Nat : n = call.chunk
  BY DEF Fields
<1>2. SUFFICES ASSUME NEW c \in Nat, NEW d \in Nat
               PROVE  /\ c * n \in Nat /\ d * n \in Nat
                      /\ c <= d => c * n <= d * n
                      /\ c < d => c * n + n <= d * n
  BY <1>1 DEF Offset
<1>3. QED
  BY Multiples

LEMMA ChunkEnds ==
  ASSUME NEW t \in Nat, NEW n \in Nat, NEW k \in Nat, t > 0, n > 0
  PROVE  ~(k <= (t - 1) \div n) => k * n >= t
<1>1. PICK q \in Nat, r \in 0 .. n - 1 : q = (t - 1) \div n /\ t - 1 = n * q + r
  <2>1. (t - 1) \div n \in Nat /\ (t - 1) % n \in 0 .. n - 1 /\ t - 1 = n * ((t - 1) \div n) + ((t - 1) % n)
    OBVIOUS
  <2>2. QED
    BY <2>1
<1>2. ASSUME q < k PROVE k * n >= t
  <2>1. q * n + n <= k * n /\ q * n \in Nat /\ k * n \in Nat
    BY <1>2, Multiples
  <2>2. q * n = n * q
    OBVIOUS
  <2>3. QED
    BY <1>1, <2>1, <2>2
<1>3. QED
  BY <1>1, <1>2

\* The chunks up to the last one start within the transfer, those after it do not.
LEMMA LastChunkIs ==
  ASSUME HostMemory, Moving
  PROVE  \A k \in Nat : k <= LastChunk <=> Offset(k) < call.total
<1>1. Fields /\ call.total > 0 /\ call.chunk > 0
  BY DEF HostMemory, Memory, Phases, Moving
<1>2. PICK t \in Nat, n \in Nat : t = call.total /\ n = call.chunk /\ t > 0 /\ n > 0
  BY <1>1, Typed DEF Fields
<1>3. SUFFICES ASSUME NEW k \in Nat PROVE k <= (t - 1) \div n <=> k * n < t
  BY <1>2 DEF LastChunk, Offset
<1>4. k <= (t - 1) \div n => k * n < t
  BY <1>2, ChunkStarts
<1>5. ~(k <= (t - 1) \div n) => k * n >= t
  BY <1>2, ChunkEnds
<1>6. k * n \in Nat
  OBVIOUS
<1>7. QED
  BY <1>4, <1>5, <1>6

LEMMA RunningTyped ==
  ASSUME HostMemory, Moving
  PROVE  /\ Fields /\ call.x \in Transfers /\ call.total \in Nat /\ call.total > 0 /\ call.total <= MaxTotal
         /\ call.chunk \in Nat /\ call.chunk > 0 /\ call.pushing \in Nat /\ call.next \in Nat
         /\ call.done \in Nat /\ Base \in Nat /\ call.bufs \in Seq(Frames) /\ call.bufs # <<>>
         /\ Base = IF ReadsAhead THEN call.done + 1 ELSE call.done
         /\ Pushed \in Nat /\ Pushed = Offset(call.pushing) + call.next
         /\ \A c \in Nat : Offset(c) \in Nat
<1>1. /\ Fields /\ call.x \in Transfers /\ call.total > 0 /\ call.chunk > 0 /\ call.bufs # <<>>
  BY DEF HostMemory, Memory, Phases, Moving
<1>2. /\ call.total \in 0 .. MaxTotal /\ call.chunk \in Nat /\ call.pushing \in Nat /\ call.next \in Nat
      /\ call.done \in Nat /\ call.bufs \in Seq(Frames)
  BY <1>1 DEF Fields
<1>3. call.total \in Nat /\ call.total <= MaxTotal /\ call.done + 1 \in Nat
  BY <1>2, Typed
<1>4. QED
  BY <1>1, <1>2, <1>3, PushedTyped, ChunkOrder DEF Base

\* Two chunks that follow one another are staged in different buffers.
LEMMA Parity ==
  ASSUME NEW c \in Nat
  PROVE  /\ c % 2 \in {0, 1} /\ (c + 1) % 2 \in {0, 1} /\ c % 2 # (c + 1) % 2 /\ c % 1 = 0
OBVIOUS

LEMMA NextBuffer ==
  ASSUME HostMemory, Moving, Len(call.bufs) # 1, NEW c \in Nat
  PROVE  BufferOf(c) # BufferOf(c + 1)
<1>1. PICK s \in Seq(Frames) : s = call.bufs /\ s # <<>> /\ Len(s) <= 2 /\ Len(s) # 1 /\ Distinct(s)
  BY DEF HostMemory, Memory, Fields, Phases, Mappings, Moving
<1>2. Len(s) = 2 /\ DOMAIN s = {1, 2}
  <2>1. Len(s) \in Nat /\ Len(s) # 0 /\ DOMAIN s = 1 .. Len(s)
    BY <1>1, EmptySeq
  <2>2. PICK l \in Nat : l = Len(s) /\ l # 0 /\ l # 1 /\ l <= 2 /\ DOMAIN s = 1 .. l
    BY <1>1, <2>1
  <2>3. l = 2 /\ 1 .. 2 = {1, 2}
    BY <2>2
  <2>4. QED
    BY <2>2, <2>3
<1>3. s[1] # s[2]
  BY <1>1, <1>2 DEF Distinct
<1>4. PICK a \in {0, 1}, b \in {0, 1} : a = c % 2 /\ b = (c + 1) % 2 /\ a # b
  BY Parity
<1>5. s[a + 1] # s[b + 1]
  BY <1>3, <1>4
<1>6. BufferOf(c) = s[a + 1] /\ BufferOf(c + 1) = s[b + 1]
  BY <1>1, <1>2, <1>4, Zenon DEF BufferOf
<1>7. QED
  BY <1>5, <1>6

LEMMA BuffersApart ==
  ASSUME HostMemory, Moving, NEW c \in Nat, NEW d \in Nat, NEW i \in Nat, NEW j \in Nat,
         InChunk(c, i), InChunk(d, j), d \in {c, c + 1} \/ c = d + 1, BufferOf(c) = BufferOf(d)
  PROVE  c = d
<1>1. CASE Len(call.bufs) # 1
  BY <1>1, NextBuffer
<1>2. CASE Len(call.bufs) = 1
  <2>1. Fields /\ call.total <= call.chunk /\ call.total \in Nat /\ call.chunk \in Nat
    BY <1>2, RunningTyped DEF HostMemory, Phases
  <2>2. ASSUME NEW k \in Nat, NEW n \in Nat, InChunk(k, n) PROVE k = 0
    <3>1. 0 < k => Offset(0) + call.chunk <= Offset(k) /\ Offset(0) \in Nat /\ Offset(k) \in Nat
      BY <2>1, ChunkOrder
    <3>2. n < call.total /\ Offset(k) <= n
      BY <2>2 DEF InChunk
    <3>3. QED
      BY <2>1, <3>1, <3>2
  <2>3. QED
    BY <2>2
<1>3. QED
  BY <1>1, <1>2

\* Every buffer is that of one of the first two chunks.
LEMMA FirstBuffers ==
  ASSUME HostMemory, Moving, NEW p \in Nat
  PROVE  \E c \in 0 .. 1 : c <= p /\ BufferOf(c) = BufferOf(p)
<1>1. PICK s \in Seq(Frames) : s = call.bufs /\ s # <<>> /\ Len(s) <= 2
  BY DEF HostMemory, Memory, Fields, Phases, Mappings, Moving
<1>2. Len(s) \in {1, 2}
  <2>1. Len(s) \in Nat /\ Len(s) # 0
    BY <1>1, EmptySeq
  <2>2. PICK l \in Nat : l = Len(s) /\ l # 0 /\ l <= 2
    BY <1>1, <2>1
  <2>3. l \in {1, 2}
    BY <2>2
  <2>4. QED
    BY <2>2, <2>3
<1>3. CASE Len(s) = 1
  <2>1. p % 1 = 0 /\ 0 % 1 = 0 /\ 0 <= p
    OBVIOUS
  <2>2. BufferOf(0) = BufferOf(p)
    BY <1>1, <1>3, <2>1, Zenon DEF BufferOf
  <2>3. QED
    BY <2>1, <2>2
<1>4. CASE Len(s) = 2
  <2>1. \E c \in 0 .. 1 : c <= p /\ c % 2 = p % 2
    <3>1. PICK c \in {0, 1} : c = p % 2
      BY Parity
    <3>2. c <= p
      <4>1. p = 0 => p % 2 = 0
        OBVIOUS
      <4>2. QED
        BY <3>1, <4>1
    <3>3. c % 2 = c
      <4>1. 0 % 2 = 0 /\ 1 % 2 = 1
        OBVIOUS
      <4>2. QED
        BY <4>1
    <3>4. c \in 0 .. 1
      OBVIOUS
    <3>5. QED
      BY <3>1, <3>2, <3>3, <3>4, Zenon
  <2>2. PICK c \in 0 .. 1 : c <= p /\ c % 2 = p % 2
    BY <2>1, Zenon
  <2>3. BufferOf(c) = BufferOf(p)
    BY <1>1, <1>4, <2>2, Zenon DEF BufferOf
  <2>4. QED
    BY <2>2, <2>3, Zenon
<1>5. QED
  BY <1>2, <1>3, <1>4

LEMMA WaitedFacts ==
  ASSUME HostMemory, Commands, NEW k \in Waited
  PROVE  /\ k \in CommandSet /\ HasWaiter(k) /\ k.x = call.x /\ k.at \in Nat /\ k.lo \in Nat /\ k.len \in Nat
         /\ k.len > 0 /\ k.buf \in Frames /\ k.buf \in ToSet(call.bufs) /\ k.at \in Outstanding
         /\ \E q \in Queues : k \in ToSet(queue[q]) /\ Due(q, k)
<1>1. PICK q \in Queues : k \in ToSet(queue[q]) /\ HasWaiter(k)
  BY DEF Waited
<1>2. Due(q, k)
  BY <1>1 DEF Commands, Held
<1>3. k \in CommandSet /\ k.at \in Nat /\ k.lo \in Nat /\ k.len \in Nat /\ k.len > 0 /\ k.buf \in Frames
  BY <1>1, CommandTyped DEF Commands
<1>4. k.x = call.x
  BY <1>1 DEF HasWaiter
<1>5. k.at \in Outstanding /\ k.buf \in ToSet(call.bufs)
  BY <1>2 DEF Due
<1>6. QED
  BY <1>1, <1>2, <1>3, <1>4, <1>5

\* The host thread changes nothing of what is queued for its transfer.
LEMMA SameWaited ==
  ASSUME queue' = queue, call'.x = call.x, call.stage # "idle", call'.stage # "idle"
  PROVE  Waited' = Waited
BY DEF Waited, HasWaiter

\* Tags that stay outstanding keep their answers, and what is on its way stays so.
LEMMA StillOnItsWay ==
  ASSUME Waited \subseteq Waited', NEW i,
         \A a \in answers : ~a.ok /\ a.at \in Outstanding => a \in answers' /\ a.at \in Outstanding',
         OnItsWay(i)
  PROVE  OnItsWay(i)'
BY DEF OnItsWay, Refused, Covers

\* What an unchanged transfer calls its pieces and chunks.
LEMMA SamePlaces ==
  ASSUME UNCHANGED Kept
  PROVE  /\ \A c : Offset(c)' = Offset(c) /\ BufferOf(c)' = BufferOf(c) /\ ChunkLen(c)' = ChunkLen(c)
         /\ \A i : Payload(i)' = Payload(i)
         /\ \A c, i : InChunk(c, i)' <=> InChunk(c, i)
         /\ \A c, i : content' = content => Staged(c, i)' = Staged(c, i)
         /\ ReadsAhead' <=> ReadsAhead
         /\ LastChunk' = LastChunk
BY DEF Kept, Offset, BufferOf, ChunkLen, SmallerOf, Payload, InChunk, Staged, ReadsAhead, LastChunk

LEMMA PushChunks ==
  ASSUME HostMemory, Pushing, Chunks, Push
  PROVE  Chunks' /\ Base' = Base
<1>0. /\ HostMemory' /\ Fields' /\ Moving /\ UNCHANGED Kept /\ call.stage = "push" /\ Running
      /\ UNCHANGED <<call.done, call.dir, call.pin, call.chunk, call.total>>
      /\ call.next < call.chunk /\ Pushed < call.total
  <2>1. /\ HostMemory' /\ Fields' /\ Moving /\ UNCHANGED Kept /\ call.stage = "push" /\ Running /\ Fields
        /\ call.next < call.chunk /\ Pushed < call.total
    BY MovingMemory DEF Push, Running, HostMemory, Memory, Pushing
  <2>2. UNCHANGED call.done
    BY <2>1, PushFields
  <2>3. QED
    BY <2>1, <2>2 DEF Kept
<1>1. PICK b \in Nat, o \in Nat, p \in Nat, c \in Nat, t \in Nat, h \in Nat, d \in Nat, n \in Nat :
        /\ b = Base /\ o = Offset(b) /\ p = Pushed /\ c = call.chunk /\ t = call.total /\ h = call.pushing
        /\ d = call.done /\ c > 0
        /\ n = call.next /\ p = Offset(h) + n /\ (ReadsAhead => b = d + 1) /\ (~ReadsAhead => b = d)
  BY <1>0, RunningTyped
<1>2. Base' = b /\ Offset(b)' = o /\ (ReadsAhead' <=> ReadsAhead)
  BY <1>0, <1>1 DEF Base, ReadsAhead, Offset
<1>3. /\ h = b \/ (ReadsAhead /\ h = 0 /\ d = 0)
      /\ \A x \in ToSet(call.awaiting) \cup Older : x + c >= o
      /\ \A x \in Newer : x >= o \/ h = 0
      /\ call.awaiting = <<>>
  BY <1>0, <1>1 DEF Chunks, Pushing
<1>4. h = b => p >= o
  BY <1>1
<1>5. /\ \A k \in Nat : k <= LastChunk <=> Offset(k) < t
      /\ Offset(1) = c
  <2>1. \A k \in Nat : k <= LastChunk <=> Offset(k) < call.total
    BY <1>0, LastChunkIs
  <2>2. Offset(1) = c
    <3>1. 1 * c = c
      OBVIOUS
    <3>2. QED
      BY <1>1, <3>1 DEF Offset
  <2>3. QED
    BY <1>1, <2>1, <2>2
<1>6. CASE /\ Older' = Older /\ Newer' = Newer \cup {Pushed} /\ call'.stage = "push"
           /\ call'.pushing = call.pushing
  <2>1. call'.awaiting = call.awaiting
    BY PushGroups
  <2>2. \A x \in Newer' : x >= o \/ h = 0
    <3>1. p >= o \/ h = 0
      BY <1>3, <1>4
    <3>2. QED
      BY <1>1, <1>3, <1>6, <3>1
  <2>3. QED
    BY <1>0, <1>1, <1>2, <1>3, <1>6, <2>1, <2>2 DEF Chunks
<1>7. CASE /\ Older' = Older /\ Newer' = Newer \cup {Pushed} /\ call'.stage = "drain"
           /\ call'.pushing = call.pushing + 1
           /\ ~(call.pushing = 0 /\ (call.dir = "d2h" \/ call.pin))
  <2>1. call'.awaiting = call.awaiting
    BY PushGroups
  <2>2. h = b /\ call'.pushing = b + 1
    BY <1>1, <1>3, <1>7 DEF ReadsAhead
  <2>3. \A x \in Newer' : x >= o \/ h = 0
    BY <1>1, <1>3, <1>4, <1>7, <2>2
  <2>4. \A x \in Newer' : x >= o
    <3>1. h = 0 => o = 0
      <4>1. 0 * c = 0
        OBVIOUS
      <4>2. QED
        BY <1>1, <2>2, <4>1 DEF Offset
    <3>2. Newer' \subseteq Nat
      BY <1>0, GroupsNext DEF Fields, ToSet
    <3>3. QED
      BY <2>3, <3>1, <3>2
  <2>5. QED
    BY <1>0, <1>1, <1>2, <1>3, <1>7, <2>1, <2>2, <2>4 DEF Chunks
<1>8. CASE /\ Older = {} /\ Newer = ToSet(call.pending)
           /\ Older' = Newer \cup {Pushed} /\ Newer' = {} /\ call'.pushing = 1
           /\ call.pushing = 0 /\ (call.dir = "d2h" \/ call.pin)
           /\ call'.stage = (IF LastChunk >= 1 THEN "push" ELSE "drain")
  <2>1. call'.awaiting = call.awaiting
    BY PushGroups
  <2>2. b = 1 /\ d = 0 /\ o = c
    BY <1>1, <1>3, <1>5, <1>8 DEF ReadsAhead
  <2>3. \A x \in Older' : x + c >= o
    <3>1. Older' \subseteq Nat
      BY <1>0, GroupsNext DEF Fields, ToSet
    <3>2. QED
      BY <2>2, <3>1
  <2>4. call'.stage = "push" \/ (call'.stage = "drain" /\ o >= t)
    <3>1. LastChunk >= 1 <=> 1 <= LastChunk
      OBVIOUS
    <3>2. QED
      BY <1>5, <1>8, <2>2, <3>1
  <2>5. QED
    BY <1>0, <1>1, <1>2, <1>3, <1>8, <2>1, <2>2, <2>3, <2>4 DEF Chunks
<1>9. QED
  BY <1>1, <1>2, <1>6, <1>7, <1>8, PushGroups

\* The numbers an unfinished transfer goes by.
LEMMA OtherNumbers ==
  ASSUME HostMemory, Pushing, OtherStep
  PROVE  /\ HostMemory' /\ Fields /\ Fields' /\ Moving /\ Moving' /\ UNCHANGED Kept
         /\ UNCHANGED <<call.x, call.dir, call.pin, call.total, call.chunk, call.sq, call.bufs, call.pushing>>
         /\ Pushed' = Pushed /\ UNCHANGED queue
         /\ (ReadsAhead' <=> ReadsAhead) /\ \A c : Offset(c)' = Offset(c)
<1>1. HostMemory' /\ Fields /\ Fields' /\ Moving /\ Moving' /\ UNCHANGED Kept
  BY MovingMemory DEF OtherStep, HostMemory, Memory
<1>2. UNCHANGED <<call.x, call.dir, call.pin, call.total, call.chunk, call.sq, call.bufs>>
  BY <1>1 DEF Kept
<1>3. UNCHANGED queue
  BY DEF OtherStep, Produce, PushFails, Drain, Collect, WaitFails, AwaitDone
<1>4. Pushed' = Pushed /\ UNCHANGED call.pushing
  BY SamePushed
<1>5. QED
  BY <1>1, <1>2, <1>3, <1>4, SamePlaces

LEMMA ProduceChunks ==
  ASSUME HostMemory, Pushing, Chunks, Produce
  PROVE  /\ Chunks' /\ Base' = Base /\ Older' = Older /\ Newer' = Newer /\ Outstanding' = Outstanding
         /\ call.pushing = Base /\ Running /\ ~ReadsAhead /\ call.dir # "d2h" /\ UNCHANGED call.done
<1>1. OtherStep
  BY DEF OtherStep
<1>2. /\ call.stage = "produce" /\ call'.stage = "push"
      /\ UNCHANGED <<call.count, call.pending, call.awaiting, call.done>> /\ Running /\ Running'
  BY OtherNumbers, <1>1, ProduceFields DEF Running
<1>3. Older' = Older /\ Newer' = Newer /\ Outstanding' = Outstanding
  BY <1>2 DEF Older, Newer, Outstanding
<1>4. Base' = Base /\ Offset(Base)' = Offset(Base)
  BY <1>1, <1>2, OtherNumbers DEF Base, Offset
<1>5. ~ReadsAhead
  BY <1>2 DEF Chunks
<1>6. call.pushing = Base /\ call.dir # "d2h"
  BY <1>2, <1>5 DEF Chunks, ReadsAhead
<1>7. Chunks'
  <2>1. UNCHANGED <<call.pushing, call.chunk, call.dir, call.total>> /\ (ReadsAhead' <=> ReadsAhead)
    BY <1>1, OtherNumbers
  <2>2. QED
    BY <1>2, <1>3, <1>4, <1>5, <1>6, <2>1 DEF Chunks
<1>8. QED
  BY <1>2, <1>3, <1>4, <1>5, <1>6, <1>7

LEMMA DrainChunks ==
  ASSUME HostMemory, Pushing, Chunks, Drain
  PROVE  /\ Chunks' /\ Base' = Base /\ Outstanding' = Outstanding /\ UNCHANGED <<call.done, call.dst>>
         /\ call.stage = "drain" /\ call'.stage = "await"
<1>1. OtherStep
  BY DEF OtherStep
<1>2. call.count <= Len(call.pending) /\ call.awaiting = <<>>
  BY DEF Pushing, Drain
<1>3. /\ call.stage = "drain" /\ call'.stage = "await" /\ UNCHANGED <<call.done, call.dst>> /\ Running /\ Running'
      /\ ToSet(call'.awaiting) = Older /\ ToSet(call'.pending) = Newer /\ Newer' = Newer /\ Older' = {}
  BY OtherNumbers, <1>1, <1>2, DrainFields, DrainTags DEF Running
<1>4. Outstanding' = Outstanding
  <2>1. ToSet(call.pending) = Older \cup Newer /\ ToSet(call.awaiting) = {}
    BY <1>1, <1>2, OtherNumbers, Groups DEF ToSet
  <2>2. QED
    BY <1>3, <2>1 DEF Outstanding
<1>5. Base' = Base /\ Offset(Base)' = Offset(Base)
  BY <1>1, <1>3, OtherNumbers DEF Base, Offset
<1>6. Chunks'
  <2>1. UNCHANGED <<call.pushing, call.chunk, call.dir, call.total>> /\ (ReadsAhead' <=> ReadsAhead)
    BY <1>1, OtherNumbers
  <2>2. QED
    BY <1>3, <1>5, <2>1 DEF Chunks
<1>7. QED
  BY <1>3, <1>4, <1>5, <1>6

LEMMA CollectChunks ==
  ASSUME HostMemory, Pushing, Chunks, Collect, call'.stage = "await"
  PROVE  /\ Chunks' /\ Base' = Base /\ UNCHANGED <<call.done, call.dst>> /\ call.stage = "await"
         /\ \E a \in answers : /\ a.ok /\ answers' = answers \ {a}
                               /\ Outstanding \subseteq Outstanding' \cup {a.at} /\ Outstanding' \subseteq Outstanding
<1>1. OtherStep
  BY DEF OtherStep
<1>2. PICK a \in answers :
        /\ a.at = Head(call.awaiting) /\ answers' = answers \ {a} /\ a.ok
        /\ call.awaiting # <<>> /\ call.awaiting \in Seq(Nat) /\ call'.awaiting = Tail(call.awaiting)
        /\ UNCHANGED <<call.done, call.dst, call.pending, call.count>> /\ call.stage = "await"
  BY <1>1, OtherNumbers, CollectFields
<1>3. PICK s \in Seq(Nat) : s = call.awaiting /\ s # <<>>
  BY <1>2
<1>4. ToSet(s) = ToSet(Tail(s)) \cup {Head(s)}
  BY <1>3, TailSet
<1>5. Outstanding \subseteq Outstanding' \cup {a.at} /\ Outstanding' \subseteq Outstanding
  BY <1>2, <1>3, <1>4 DEF Outstanding
<1>6. Older' = Older /\ Newer' = Newer /\ ToSet(call'.awaiting) \subseteq ToSet(call.awaiting)
  BY <1>2, <1>3, <1>4 DEF Older, Newer
<1>7. Base' = Base /\ Offset(Base)' = Offset(Base)
  BY <1>1, <1>2, OtherNumbers DEF Base, Offset
<1>8. Chunks'
  <2>1. UNCHANGED <<call.pushing, call.chunk, call.dir, call.total>> /\ (ReadsAhead' <=> ReadsAhead)
    BY <1>1, OtherNumbers
  <2>2. QED
    BY <1>2, <1>6, <1>7, <2>1 DEF Chunks, Running
<1>9. QED
  BY <1>2, <1>5, <1>7, <1>8

\* A chunk is complete: the tags left are those of the chunk after it.
LEMMA AwaitDoneChunks ==
  ASSUME HostMemory, Pushing, Chunks, AwaitDone
  PROVE  /\ Chunks' /\ Base' = Base + 1 /\ Outstanding' = Outstanding /\ call'.done = call.done + 1
         /\ Running /\ call.pushing >= Base /\ Base \in Nat
         /\ \A t \in Outstanding : t \in Nat /\ t >= Offset(Base)
         /\ call.stage = "await" /\ call.next = 0
         /\ call'.stage = "restore" => /\ Offset(call.pushing) >= call.total
                                       /\ call.dir = "d2h" => Offset(Base) >= call.total
<1>1. OtherStep
  BY DEF OtherStep
<1>2. /\ call.stage = "await" /\ call.awaiting = <<>> /\ call'.awaiting = <<>>
      /\ call'.done = call.done + 1 /\ call'.count = Len(call.pending) /\ UNCHANGED call.pending
      /\ call'.stage = IF call.pushing <= LastChunk
                       THEN IF call.dir = "d2h" THEN "push" ELSE "produce"
                       ELSE IF call.pending # <<>> THEN "drain" ELSE "restore"
      /\ call'.dst = IF call.dir = "d2h" THEN CopyOut(call.done) ELSE call.dst
      /\ call.next = 0 /\ Running
  BY <1>1, OtherNumbers, AwaitDoneFields DEF Pushing, Running
<1>3. PICK b \in Nat, o \in Nat, c \in Nat, t \in Nat, h \in Nat, d \in Nat :
        /\ b = Base /\ o = Offset(b) /\ c = call.chunk /\ t = call.total /\ h = call.pushing
        /\ d = call.done /\ c > 0 /\ t > 0 /\ (ReadsAhead => b = d + 1) /\ (~ReadsAhead => b = d)
  BY <1>1, OtherNumbers, RunningTyped
<1>4. /\ (h = b + 1 /\ (call.dir = "d2h" => Newer # {})) \/ (h = b /\ o >= t)
      /\ \A x \in Newer : x >= o \/ h = 0
  BY <1>2, <1>3 DEF Chunks
<1>5. /\ \A k \in Nat : k <= LastChunk <=> Offset(k) < t
      /\ Offset(0) = 0 /\ Offset(b + 1) = o + c
  <2>1. \A k \in Nat : k <= LastChunk <=> Offset(k) < call.total
    BY <1>1, OtherNumbers, LastChunkIs
  <2>2. Offset(0) = 0
    <3>1. 0 * c = 0
      OBVIOUS
    <3>2. QED
      BY <1>3, <3>1 DEF Offset
  <2>3. Offset(b + 1) = o + c
    BY <1>1, <1>3, OtherNumbers, OffsetTyped
  <2>4. QED
    BY <1>3, <2>1, <2>2, <2>3
<1>6. h > 0
  <2>1. CASE h = b
    BY <1>3, <1>4, <1>5, <2>1
  <2>2. CASE h = b + 1
    BY <1>3, <2>2
  <2>3. QED
    BY <1>4, <2>1, <2>2
<1>7. /\ Newer = ToSet(call.pending) /\ ToSet(call.pending) \subseteq Nat /\ Newer' = {} /\ Older' = Newer
      /\ ToSet(call.awaiting) = {} /\ ToSet(call'.awaiting) = {}
  <2>1. Newer = ToSet(call.pending) /\ ToSet(call.pending) \subseteq Nat
    BY <1>1, <1>2, OtherNumbers, Groups
  <2>2. call'.stage # "await"
    BY <1>2
  <2>3. Newer' = {} /\ Older' = ToSet(call'.pending)
    BY <1>1, <1>2, <2>2, OtherNumbers, GroupsNext
  <2>4. QED
    BY <1>2, <2>1, <2>3 DEF ToSet
<1>8. Outstanding' = Outstanding /\ Outstanding = Newer
  BY <1>2, <1>7 DEF Outstanding
<1>9. \A x \in Newer : x \in Nat /\ x >= o
  BY <1>4, <1>6, <1>7
<1>10. \A x \in Newer : x < t
  BY <1>1, <1>3, <1>8, OtherNumbers DEF Pushing
<1>11. o >= t => Newer = {} /\ call.pending = <<>>
  <2>1. SUFFICES ASSUME o >= t PROVE Newer = {} /\ call.pending = <<>>
    OBVIOUS
  <2>2. Newer = {}
    BY <1>3, <1>9, <1>10, <2>1
  <2>3. PICK s \in Seq(Nat) : s = call.pending
    BY <1>1, OtherNumbers DEF Fields
  <2>4. s # <<>> => s[1] \in ToSet(s)
    <3>1. s # <<>> => Head(s) \in ToSet(s)
      BY <2>3, TailSet
    <3>2. QED
      BY <3>1
  <2>5. QED
    BY <1>7, <2>2, <2>3, <2>4
<1>12. Base' = b + 1 /\ Offset(Base)' = o + c
  <2>1. /\ (ReadsAhead' <=> ReadsAhead) /\ Offset(b + 1)' = Offset(b + 1)
    BY <1>1, OtherNumbers
  <2>2. Base' = b + 1
    BY <1>2, <1>3, <2>1 DEF Base
  <2>3. QED
    BY <1>5, <2>1, <2>2 DEF Offset
<1>13. (h <= LastChunk) <=> (Offset(h) < t)
  BY <1>3, <1>5
<1>14. /\ h <= LastChunk => h = b + 1 /\ (ReadsAhead => call.dir = "d2h")
       /\ ~(h <= LastChunk) => Offset(h) >= t
  <2>1. Offset(h) \in Nat
    BY <1>1, <1>3, OtherNumbers, RunningTyped
  <2>2. ~(h <= LastChunk) => Offset(h) >= t
    BY <1>3, <1>13, <2>1
  <2>3. h <= LastChunk => h = b + 1
    BY <1>3, <1>4, <1>13
  <2>4. h <= LastChunk /\ call.pin => FALSE
    <3>1. SUFFICES ASSUME h <= LastChunk, call.pin PROVE FALSE
      OBVIOUS
    <3>2. Len(call.bufs) = 1
      <4>1. call.bufs = <<pinned>>
        BY <3>1 DEF HostMemory, Phases
      <4>2. Len(<<pinned>>) = 1
        OBVIOUS
      <4>3. QED
        BY <4>1, <4>2
    <3>3. t <= c
      BY <1>1, <1>3, <3>2, OtherNumbers DEF HostMemory, Phases
    <3>4. Offset(0) + c <= Offset(h) /\ Offset(h) < t
      BY <1>1, <1>3, <1>6, <1>13, <3>1, OtherNumbers, ChunkOrder
    <3>5. QED
      BY <1>3, <1>5, <2>1, <3>3, <3>4
  <2>5. QED
    BY <2>2, <2>3, <2>4 DEF ReadsAhead
<1>15. /\ \A x \in ToSet(call'.awaiting) \cup Older' : x + c >= o + c
       /\ \A x \in Newer' : FALSE
  BY <1>3, <1>7, <1>9
<1>16. UNCHANGED <<call.pushing, call.chunk, call.dir, call.total>> /\ (ReadsAhead' <=> ReadsAhead)
  BY <1>1, OtherNumbers
<1>17. Chunks'
  <2>1. CASE h <= LastChunk
    <3>1. h = b + 1 /\ ((call'.stage = "produce" /\ ~ReadsAhead) \/ call'.stage = "push")
      BY <1>2, <1>3, <1>14, <2>1 DEF ReadsAhead
    <3>2. QED
      BY <1>3, <1>12, <1>15, <1>16, <3>1 DEF Chunks
  <2>2. CASE ~(h <= LastChunk)
    <3>1. CASE call'.stage = "drain"
      <4>1. h = b + 1
        BY <1>2, <1>3, <1>4, <1>11, <2>2, <3>1
      <4>2. o + c >= t
        BY <1>3, <1>5, <1>14, <2>2, <4>1
      <4>3. QED
        BY <1>3, <1>12, <1>15, <1>16, <3>1, <4>1, <4>2 DEF Chunks
    <3>2. CASE call'.stage = "restore"
      BY <3>2 DEF Chunks, Running
    <3>3. QED
      BY <1>2, <1>3, <2>2, <3>1, <3>2
  <2>3. QED
    BY <2>1, <2>2
<1>18. call'.stage = "restore" => /\ Offset(call.pushing) >= call.total
                                  /\ call.dir = "d2h" => Offset(Base) >= call.total
  <2>1. SUFFICES ASSUME call'.stage = "restore"
                 PROVE  Offset(h) >= t /\ (call.dir = "d2h" => o >= t)
    BY <1>3
  <2>2. ~(h <= LastChunk) /\ call.pending = <<>>
    BY <1>2, <1>3, <2>1
  <2>3. Newer = {}
    BY <1>7, <2>2 DEF ToSet
  <2>4. QED
    BY <1>4, <1>14, <2>2, <2>3
<1>19. h >= b
  BY <1>3, <1>4
<1>20. QED
  BY <1>2, <1>3, <1>8, <1>9, <1>12, <1>17, <1>18, <1>19

LEMMA ChunkLenIs ==
  ASSUME HostMemory, Moving, NEW c \in Nat
  PROVE  /\ ChunkLen(c) \in Int /\ ChunkLen(c) <= call.chunk /\ Offset(c) + ChunkLen(c) <= call.total
         /\ Offset(c) < call.total => ChunkLen(c) \in Nat
         /\ \A i \in Nat : InChunk(c, i) <=> Offset(c) <= i /\ i < Offset(c) + ChunkLen(c)
         /\ \A d \in Nat : c <= d => ChunkLen(d) <= ChunkLen(c)
<1>1. PICK o \in Nat, n \in Nat, t \in Nat : o = Offset(c) /\ n = call.chunk /\ t = call.total /\ n > 0
  BY RunningTyped
<1>2. PICK l \in Int : l = IF n < t - o THEN n ELSE t - o
  OBVIOUS
<1>3. l = ChunkLen(c)
  BY <1>1, <1>2 DEF ChunkLen, SmallerOf
<1>4. l <= n /\ o + l <= t /\ (o < t => l \in Nat) /\ \A i \in Nat : (i < t /\ o <= i /\ i < o + n) <=> (o <= i /\ i < o + l)
  BY <1>1, <1>2
<1>5. ASSUME NEW d \in Nat, c <= d PROVE ChunkLen(d) <= l
  <2>1. PICK v \in Nat : v = Offset(d) /\ o <= v
    BY <1>1, <1>5, RunningTyped, ChunkOrder
  <2>2. PICK m \in Int : m = IF n < t - v THEN n ELSE t - v
    OBVIOUS
  <2>3. m = ChunkLen(d)
    BY <1>1, <2>1, <2>2 DEF ChunkLen, SmallerOf
  <2>4. m <= l
    BY <1>1, <1>2, <2>1, <2>2
  <2>5. QED
    BY <2>3, <2>4
<1>6. QED
  BY <1>1, <1>3, <1>4, <1>5 DEF InChunk

\* What `h2d_pipeline` has the caller write into a buffer.
LEMMA ProducedIs ==
  ASSUME HostMemory, Moving, DataTypes, StagedData, Running, call.dir # "d2h",
         Offset(call.pushing) < call.total
  PROVE  LET p == call.pushing IN
         /\ Produced(p) \in [Pieces -> Data]
         /\ \A i \in Pieces : InChunk(p, i) => Produced(p)[i - Offset(p)] = Payload(i)
         /\ call.dir = "fill" => \A n \in Pieces : n < ChunkLen(p) => Produced(p)[n] = <<call.x, 0>>
<1>1. PICK p \in Nat, o \in Nat, t \in Nat, x \in Transfers :
        p = call.pushing /\ o = Offset(p) /\ t = call.total /\ x = call.x /\ o < t /\ t <= MaxTotal
  BY RunningTyped
<1>2. PICK l \in Nat :
        /\ l = ChunkLen(p) /\ o + l <= t
        /\ \A i \in Nat : InChunk(p, i) <=> o <= i /\ i < o + l
  BY <1>1, ChunkLenIs
<1>3. \A i \in Pieces : i \in Nat /\ i < MaxTotal
  BY <1>1, PieceTyped
<1>4. o + l <= MaxTotal /\ 0 + l <= MaxTotal
  BY <1>1, <1>2, Typed
<1>5. ASSUME NEW i \in Pieces, InChunk(p, i)
      PROVE  i - o \in Pieces /\ i - o < l /\ o + (i - o) = i
  <2>1. i \in Nat /\ i < MaxTotal /\ o <= i /\ i < o + l
    BY <1>2, <1>3, <1>5
  <2>2. i - o \in 0 .. MaxTotal - 1 /\ i - o < l /\ o + (i - o) = i
    BY <1>2, <2>1, Typed
  <2>3. QED
    BY <2>2 DEF Pieces
<1>6. CASE call.dir = "h2d"
  <2>1. Produced(p) = Stage(x, o, l)
    BY <1>1, <1>2, <1>6 DEF Produced
  <2>2. Stage(x, o, l) \in [Pieces -> Data]
    BY <1>4, StageTyped
  <2>3. \A n \in Pieces : n < l => Stage(x, o, l)[n] = <<x, o + n>>
    BY DEF Stage
  <2>4. ASSUME NEW i \in Pieces, InChunk(p, i) PROVE Produced(p)[i - o] = Payload(i)
    <3>1. i - o \in Pieces /\ i - o < l /\ o + (i - o) = i
      BY <1>5, <2>4
    <3>2. Stage(x, o, l)[i - o] = <<x, o + (i - o)>>
      BY <2>3, <3>1
    <3>3. QED
      BY <1>1, <1>6, <2>1, <3>1, <3>2 DEF Payload
  <2>5. QED
    BY <1>1, <1>6, <2>1, <2>2, <2>4
<1>7. CASE call.dir = "fill"
  <2>1. Produced(p) \in [Pieces -> Data] /\ \A n \in Pieces : n < l => Produced(p)[n] = <<x, 0>>
    <3>1. CASE p < 2
      <4>1. Produced(p) = Pattern(x, l)
        BY <1>1, <1>2, <1>7, <3>1 DEF Produced, PatternChunks
      <4>2. QED
        BY <1>4, <4>1, StageTyped DEF Pattern
    <3>2. CASE ~(p < 2)
      <4>1. Produced(p) = content[BufferOf(p)]
        BY <1>1, <1>7, <3>2 DEF Produced, PatternChunks
      <4>2. PICK c \in 0 .. 1 : c <= p /\ BufferOf(c) = BufferOf(p)
        BY FirstBuffers
      <4>3. c < p /\ c \in Nat
        BY <3>2, <4>2
      <4>4. \A n \in Pieces : n < ChunkLen(c) => content[BufferOf(c)][n] = <<x, 0>>
        BY <1>1, <1>7, <4>3 DEF StagedData
      <4>5. PICK m \in Int : m = ChunkLen(c) /\ l <= m
        BY <1>2, <4>2, <4>3, ChunkLenIs
      <4>6. \A n \in Pieces : n < l => n < m
        BY <1>3, <4>5
      <4>7. BufferOf(p) \in Frames
        BY RunningTyped, BufferTyped
      <4>8. QED
        BY <4>1, <4>2, <4>4, <4>5, <4>6, <4>7 DEF DataTypes
    <3>3. QED
      BY <3>1, <3>2
  <2>2. ASSUME NEW i \in Pieces, InChunk(p, i) PROVE Produced(p)[i - o] = Payload(i)
    <3>1. i - o \in Pieces /\ i - o < l
      BY <1>5, <2>2
    <3>2. QED
      BY <1>1, <1>7, <2>1, <3>1 DEF Payload
  <2>3. QED
    BY <1>1, <1>2, <1>7, <2>1, <2>2
<1>8. QED
  BY <1>6, <1>7, RunningTyped DEF Fields

\* The buffer that is written next is none that a queued command uses.
LEMMA OtherBuffer ==
  ASSUME Transfer, Moved, call.stage = "produce", NEW k \in Waited
  PROVE  \E c \in 0 .. call.pushing :
           /\ k.at = Offset(c) + k.lo /\ k.buf = BufferOf(c) /\ BufferOf(c) # BufferOf(call.pushing)
           /\ \A i \in Pieces : Covers(k, i) => Staged(c, i) = Payload(i)
<1>0. HostMemory /\ Pushing /\ Commands /\ Chunks /\ CommandData /\ Running /\ Moving
  BY DEF Transfer, Moved, Running, Moving
<1>1. k.at \in Nat /\ k.lo \in Nat /\ k.len \in Nat /\ k.len > 0 /\ k.at \in Outstanding
  BY <1>0, WaitedFacts
<1>2. ~ReadsAhead /\ call.pushing = Base
  BY <1>0 DEF Chunks, ReadsAhead
<1>3. PICK p \in Nat, o \in Nat, n \in Nat, t \in Nat :
        p = call.pushing /\ o = Offset(p) /\ n = call.chunk /\ t = call.total /\ n > 0
  BY <1>0, RunningTyped
<1>4. o < t /\ k.at < o /\ k.at < t
  <2>1. call.next = 0 /\ Pushed < call.total /\ Pushed = Offset(call.pushing) + call.next
    BY <1>0, RunningTyped DEF Pushing
  <2>2. Pushed = o
    BY <1>3, <2>1
  <2>3. QED
    BY <1>0, <1>1, <1>3, <2>1, <2>2 DEF Pushing
<1>5. k.at + n >= o
  <2>1. call.count = Len(call.pending) /\ call.awaiting = <<>> /\ Fields
    BY <1>0, RunningTyped DEF Pushing
  <2>2. Older = ToSet(call.pending) /\ ToSet(call.awaiting) = {}
    BY <2>1, Groups DEF ToSet
  <2>3. k.at \in Older
    BY <1>1, <2>2 DEF Outstanding
  <2>4. QED
    BY <1>0, <1>2, <1>3, <2>3 DEF Chunks
<1>6. PICK c \in 0 .. p :
        /\ k.at = Offset(c) + k.lo /\ k.buf = BufferOf(c) /\ k.lo + k.len <= n
        /\ \A i \in Pieces : Covers(k, i) => Staged(c, i) = Payload(i)
  BY <1>0, <1>2, <1>3 DEF CommandData, ReadsAhead
<1>7. PICK u \in Nat : u = Offset(c)
  BY <1>0, RunningTyped
<1>8. c \in Nat /\ c + 1 \in Nat /\ Offset(c + 1) = u + n
  <2>1. c \in Nat /\ c + 1 \in Nat
    OBVIOUS
  <2>2. Fields
    BY <1>0, RunningTyped
  <2>3. Offset(c + 1) = Offset(c) + call.chunk
    BY <2>1, <2>2, OffsetTyped
  <2>4. QED
    BY <1>3, <1>7, <2>1, <2>3
<1>9. c + 1 = p
  <2>1. c # p
    BY <1>1, <1>3, <1>4, <1>6
  <2>2. ASSUME c + 1 < p PROVE FALSE
    <3>1. Offset(c + 1) + n <= o
      BY <1>0, <1>3, <1>8, <2>2, RunningTyped, ChunkOrder
    <3>2. QED
      BY <1>1, <1>3, <1>5, <1>6, <1>7, <1>8, <3>1
  <2>3. QED
    BY <1>3, <1>6, <1>8, <2>1, <2>2
<1>10. BufferOf(c) # BufferOf(p)
  <2>1. InChunk(c, k.at)
    BY <1>1, <1>3, <1>4, <1>6, <1>7 DEF InChunk
  <2>2. InChunk(p, o)
    BY <1>3, <1>4 DEF InChunk
  <2>3. SUFFICES ASSUME BufferOf(c) = BufferOf(p) PROVE FALSE
    OBVIOUS
  <2>4. c = p
    <3>1. p \in {c, c + 1}
      BY <1>9
    <3>2. QED
      BY <1>0, <1>1, <1>3, <1>8, <2>1, <2>2, <2>3, <3>1, BuffersApart
  <2>5. QED
    BY <1>8, <1>9, <2>4
<1>11. QED
  BY <1>3, <1>6, <1>10

\* The caller's next chunk disturbs nothing that is still to be sent.
LEMMA ProduceData ==
  ASSUME Transfer, Moved, Produce
  PROVE  Moved'
<1>1. HostMemory /\ Pushing /\ Commands /\ Chunks /\ CommandData /\ StagedData /\ MovedData /\ DataTypes /\ OtherStep
  BY DEF Transfer, Moved, OtherStep
<1>2. /\ Fields /\ Fields' /\ Moving /\ Moving' /\ UNCHANGED Kept /\ Pushed' = Pushed /\ UNCHANGED queue
      /\ UNCHANGED <<call.x, call.dir, call.total, call.pushing>>
  BY <1>1, OtherNumbers
<1>3. /\ Chunks' /\ Outstanding' = Outstanding /\ Running /\ ~ReadsAhead /\ call.dir # "d2h"
  BY <1>1, ProduceChunks
<1>4. /\ call.stage = "produce" /\ call'.stage = "push" /\ UNCHANGED <<call.error, call.dst>>
  BY <1>2, ProduceFields
<1>5. /\ UNCHANGED <<dram, answers>>
      /\ content' = [content EXCEPT ![BufferOf(call.pushing)] = Produced(call.pushing)]
  BY DEF Produce
<1>6. PICK p \in Nat, o \in Nat, t \in Nat, B \in Frames :
        /\ p = call.pushing /\ o = Offset(p) /\ t = call.total /\ B = BufferOf(p) /\ o < t
  <2>1. call.pushing \in Nat /\ Offset(call.pushing) \in Nat /\ call.total \in Nat /\ call.bufs # <<>>
    BY <1>1, <1>2, RunningTyped
  <2>2. BufferOf(call.pushing) \in Frames
    BY <1>2, <2>1, BufferTyped
  <2>3. Offset(call.pushing) < call.total
    <3>1. call.next = 0 /\ Pushed < call.total /\ Pushed = Offset(call.pushing) + call.next
      BY <1>1, <1>2, <1>4, RunningTyped DEF Pushing
    <3>2. QED
      BY <2>1, <3>1
  <2>4. QED
    BY <2>1, <2>2, <2>3
<1>7. /\ Produced(p) \in [Pieces -> Data]
      /\ \A i \in Pieces : InChunk(p, i) => Produced(p)[i - o] = Payload(i)
      /\ call.dir = "fill" => \A n \in Pieces : n < ChunkLen(p) => Produced(p)[n] = <<call.x, 0>>
  BY <1>1, <1>2, <1>3, <1>6, ProducedIs
<1>8. /\ content' \in [Frames -> [Pieces -> Data]] /\ content'[B] = Produced(p)
      /\ \A f \in Frames : f # B => content'[f] = content[f]
  BY <1>1, <1>5, <1>6, <1>7 DEF DataTypes
<1>9. DataTypes'
  BY <1>1, <1>2, <1>4, <1>5, <1>8 DEF DataTypes
<1>10. Waited' = Waited
  BY <1>2, <1>4, SameWaited
<1>11. /\ \A c : Offset(c)' = Offset(c) /\ BufferOf(c)' = BufferOf(c) /\ ChunkLen(c)' = ChunkLen(c)
       /\ \A i : Payload(i)' = Payload(i)
       /\ \A c, i : InChunk(c, i)' <=> InChunk(c, i)
  BY <1>2, SamePlaces
<1>12. \A c \in Nat : BufferOf(c) \in Frames
  BY <1>1, <1>2, RunningTyped, BufferTyped
<1>13. \A c \in Nat : \A i : BufferOf(c) # B => Staged(c, i)' = Staged(c, i)
  BY <1>8, <1>11, <1>12 DEF Staged
<1>14. CommandData'
  <2>1. SUFFICES ASSUME NEW k \in Waited
                 PROVE  /\ k.dir = "d2h" <=> call'.dir = "d2h"
                        /\ k.at + k.len <= call'.total /\ k.lo + k.len <= call'.chunk
                        /\ \E c \in 0 .. call'.pushing :
                             /\ k.at = Offset(c)' + k.lo /\ k.buf = BufferOf(c)'
                             /\ \A i \in Pieces : Covers(k, i) => Staged(c, i)' = Payload(i)'
    BY <1>10 DEF CommandData, Covers
  <2>2. /\ k.dir = "d2h" <=> call.dir = "d2h"
        /\ k.at + k.len <= call.total /\ k.lo + k.len <= call.chunk
    BY <1>1, <1>3 DEF CommandData
  <2>3. PICK c \in 0 .. p :
           /\ k.at = Offset(c) + k.lo /\ k.buf = BufferOf(c) /\ BufferOf(c) # B
           /\ \A i \in Pieces : Covers(k, i) => Staged(c, i) = Payload(i)
    BY <1>4, <1>6, OtherBuffer
  <2>4. c \in Nat /\ UNCHANGED call.chunk
    BY <1>2 DEF Kept
  <2>5. QED
    BY <1>2, <1>6, <1>11, <1>13, <2>2, <2>3, <2>4
<1>15. StagedData'
  <2>1. ASSUME NEW i \in Pieces, InChunk(p, i) PROVE Staged(p, i)' = Payload(i)
    BY <1>6, <1>7, <1>8, <1>11, <2>1 DEF Staged
  <2>2. ASSUME call.dir = "fill", NEW c \in 0 .. 1, c < p \/ c = p, NEW n \in Pieces, n < ChunkLen(c)
        PROVE  content'[BufferOf(c)][n] = <<call.x, 0>>
    <3>0. c \in Nat
      OBVIOUS
    <3>1. CASE c = p
      BY <1>6, <1>7, <1>8, <2>2, <3>1
    <3>2. CASE c < p
      <4>1. content[BufferOf(c)][n] = <<call.x, 0>>
        BY <1>1, <1>3, <1>6, <2>2, <3>2 DEF StagedData
      <4>2. CASE BufferOf(c) # B
        BY <1>8, <1>12, <3>0, <4>1, <4>2
      <4>3. CASE BufferOf(c) = B
        <5>1. CASE p < 2
          <6>1. c = 0 /\ p = 1
            BY <3>2, <5>1
          <6>2. PICK v \in Nat, l \in Nat : v = Offset(c) /\ l = call.chunk /\ l > 0 /\ v <= o
            <7>1. Offset(c) \in Nat /\ call.chunk \in Nat /\ call.chunk > 0
              BY <1>1, <1>2, <3>0, RunningTyped
            <7>2. c <= p
              BY <6>1
            <7>3. Offset(c) <= o
              BY <1>2, <1>6, <3>0, <7>2, ChunkOrder
            <7>4. QED
              BY <7>1, <7>3
          <6>3. InChunk(c, v) /\ InChunk(p, o)
            BY <1>6, <6>2 DEF InChunk
          <6>4. p \in {c, c + 1}
            BY <6>1
          <6>5. c = p
            BY <1>1, <1>2, <1>6, <3>0, <4>3, <6>2, <6>3, <6>4, BuffersApart
          <6>6. QED
            BY <6>1, <6>5
        <5>2. CASE ~(p < 2)
          <6>1. Produced(p) = content[B]
            BY <1>6, <2>2, <5>2 DEF Produced, PatternChunks
          <6>2. QED
            BY <1>8, <4>1, <4>3, <6>1
        <5>3. QED
          BY <5>1, <5>2
      <4>4. QED
        BY <4>2, <4>3
    <3>3. QED
      BY <2>2, <3>1, <3>2
  <2>3. QED
    BY <1>2, <1>6, <1>11, <2>1, <2>2 DEF StagedData
<1>16. MovedData'
  <2>1. \A a \in answers : ~a.ok /\ a.at \in Outstanding => a \in answers' /\ a.at \in Outstanding'
    BY <1>3, <1>5
  <2>2. ASSUME NEW i, OnItsWay(i) PROVE OnItsWay(i)'
    BY <1>10, <2>1, <2>2, StillOnItsWay
  <2>3. call'.error = "none" => call.error = "none"
    BY <1>4
  <2>4. call.error = "none" => \A i \in Pieces : i < call.total /\ i < Pushed => dram[i] = Payload(i) \/ OnItsWay(i)
    BY <1>1, <1>2, <1>3 DEF MovedData
  <2>5. QED
    BY <1>2, <1>3, <1>4, <1>5, <1>11, <2>2, <2>3, <2>4 DEF MovedData
<1>17. QED
  BY <1>3, <1>9, <1>14, <1>15, <1>16 DEF Moved

\* A transfer that starts to push has pushed nothing, so nobody waits yet.
LEMMA StartsData ==
  ASSUME HostMemory, HostMemory', Commands', Moving', call'.stage \in {"push", "produce"},
         call'.pushing = 0, call'.next = 0, call'.done = 0,
         call'.pending = <<>>, call'.awaiting = <<>>, DataTypes',
         call'.dir = "h2d" /\ call'.stage = "push" => call'.pin
            /\ \A i \in Pieces : i < call'.total => content'[BufferOf(0)'][i] = <<call'.x, i>>,
         call'.dir = "fill" => call'.stage = "produce",
         (call'.dir = "d2h" \/ call'.pin) <=> call'.stage = "push"
  PROVE  Moved'
<1>1. /\ Fields' /\ call'.chunk \in Nat /\ call'.chunk > 0 /\ call'.total \in Nat
      /\ Offset(0)' = 0 /\ Pushed' = 0 /\ Outstanding' = {}
  <2>1. Fields' /\ call'.chunk \in Nat /\ call'.chunk > 0 /\ call'.total \in Nat
    <3>1. Fields' /\ call'.chunk > 0
      BY DEF HostMemory, Memory, Phases, Moving
    <3>2. call'.total \in 0 .. MaxTotal /\ call'.chunk \in Nat
      BY <3>1 DEF Fields
    <3>3. QED
      BY <3>1, <3>2, Typed
  <2>2. PICK n \in Nat : n = call'.chunk
    BY <2>1
  <2>3. 0 * n = 0
    OBVIOUS
  <2>4. Offset(0)' = 0
    BY <2>2, <2>3 DEF Offset
  <2>5. Pushed' = 0
    BY <2>4 DEF Pushed, Offset
  <2>6. Outstanding' = {}
    BY DEF Outstanding, ToSet
  <2>7. QED
    BY <2>1, <2>4, <2>5, <2>6
<1>2. Waited' = {}
  <2>1. ASSUME NEW k \in Waited' PROVE FALSE
    <3>1. PICK q \in Queues : k \in ToSet(queue'[q]) /\ HasWaiter(k)'
      BY <2>1 DEF Waited
    <3>2. k.at \in Outstanding'
      BY <3>1 DEF Commands, Held, Due
    <3>3. QED
      BY <1>1, <3>2
  <2>2. QED
    BY <2>1
<1>3. Older' = {} /\ Newer' = {}
  <2>1. 1 .. Len(<<>>) = {}
    OBVIOUS
  <2>2. QED
    BY <2>1 DEF Older, Newer
<1>4. Chunks'
  <2>1. (call'.dir = "d2h" \/ call'.pin) => call'.stage # "produce"
    OBVIOUS
  <2>2. call'.stage \notin {"drain", "await"} /\ ToSet(call'.awaiting) = {}
    BY DEF ToSet
  <2>3. QED
    BY <1>3, <2>1, <2>2 DEF Chunks, ReadsAhead, Base
<1>5. CommandData'
  BY <1>2 DEF CommandData
<1>6. StagedData'
  <2>1. ASSUME call'.stage = "push", call'.dir # "d2h" PROVE /\ call'.dir = "h2d"
                                     /\ \A i \in Pieces : InChunk(0, i)' => Staged(0, i)' = Payload(i)'
    <3>1. call'.dir = "h2d"
      BY <1>1, <2>1 DEF Fields
    <3>2. ASSUME NEW i \in Pieces, i < call'.total PROVE content'[BufferOf(0)'][i - 0] = <<call'.x, i>>
      <4>1. i - 0 = i
        BY Typed DEF Pieces
      <4>2. QED
        BY <2>1, <3>1, <3>2, <4>1
    <3>3. QED
      BY <1>1, <3>1, <3>2 DEF InChunk, Staged, Payload
  <2>2. ASSUME call'.stage = "produce", NEW c \in 0 .. 1 PROVE ~(c < 0)
    OBVIOUS
  <2>3. QED
    BY <2>1, <2>2 DEF StagedData
<1>7. MovedData'
  <2>1. \A i \in Pieces : ~(i < 0)
    BY Typed DEF Pieces
  <2>2. call'.stage # "restore"
    OBVIOUS
  <2>3. QED
    BY <1>1, <2>1, <2>2 DEF MovedData
<1>8. QED
  BY <1>4, <1>5, <1>6, <1>7 DEF Moved

LEMMA TakeDoneData ==
  ASSUME HostMemory, HostMemory', Commands', DataTypes, TakeDone
  PROVE  Moved'
<1>1. /\ call.stage = "take" /\ call'.stage = (IF call.dir = "d2h" THEN "push" ELSE "produce")
      /\ UNCHANGED <<call.dir, call.pin, call.pushing, call.next, call.done, call.pending, call.awaiting, call.dst>>
      /\ call'.stage \in {"push", "produce"}
  BY TakeDoneMemory
<1>2. UNCHANGED <<content, dram, queue>>
  BY DEF TakeDone
<1>3. DataTypes'
  BY <1>1, <1>2 DEF DataTypes
<1>4. ~call.pin /\ call.pending = <<>> /\ call.awaiting = <<>> /\ call.pushing = 0 /\ call.next = 0 /\ call.done = 0
  BY <1>1 DEF HostMemory, Phases
<1>5. Moving'
  BY <1>1 DEF Moving
<1>6. QED
  BY <1>1, <1>3, <1>4, <1>5, StartsData

LEMMA PinnedTransferData ==
  ASSUME HostMemory, HostMemory', Commands', DataTypes,
         NEW dir \in {"h2d", "d2h"}, NEW q \in Queues, PinnedTransfer(dir, q)
  PROVE  Moved'
<1>1. /\ call'.stage = "push" /\ call'.x = call.x + 1 /\ call.x < MaxTransfers
      /\ call'.dir = dir /\ call'.pin = TRUE /\ call'.total = size[pinned]
      /\ call'.bufs = <<pinned>> /\ call'.pushing = 0 /\ call'.next = 0
      /\ call'.done = 0 /\ call'.pending = <<>> /\ call'.awaiting = <<>>
      /\ call'.dst = Nothing /\ pinned \in Frames /\ size[pinned] \in 1 .. MaxTotal /\ call.x \in 0 .. MaxTransfers
      /\ UNCHANGED queue /\ dram' = Nothing
      /\ content' = IF dir = "h2d" THEN [content EXCEPT ![pinned] = Stage(call.x + 1, 0, size[pinned])] ELSE content
  <2>1. /\ UNCHANGED queue /\ dram' = Nothing
        /\ content' = IF dir = "h2d" THEN [content EXCEPT ![pinned] = Stage(call.x + 1, 0, size[pinned])] ELSE content
    BY DEF PinnedTransfer, Started
  <2>2. call.x \in 0 .. MaxTransfers
    BY DEF HostMemory, Memory, Fields
  <2>3. QED
    BY <2>1, <2>2, PinnedTransferFields
<1>2. PICK x \in Transfers : x = call.x + 1 /\ x = call'.x
  BY <1>1, Typed DEF Transfers
<1>3. PICK n \in Nat : n = size[pinned] /\ 0 + n <= MaxTotal /\ n <= MaxTotal
  BY <1>1, Typed
<1>4. Stage(x, 0, n) \in [Pieces -> Data]
  BY <1>3, StageTyped
<1>5. DataTypes'
  <2>1. content' \in [Frames -> [Pieces -> Data]]
    BY <1>1, <1>2, <1>3, <1>4 DEF DataTypes
  <2>2. QED
    BY <1>1, <2>1, NothingTyped DEF DataTypes
<1>6. BufferOf(0)' = pinned
  <2>1. Len(<<pinned>>) = 1 /\ <<pinned>>[1] = pinned
    OBVIOUS
  <2>2. (0 % 1) + 1 = 1
    OBVIOUS
  <2>3. QED
    BY <1>1, <2>1, <2>2, Zenon DEF BufferOf
<1>7. ASSUME dir = "h2d", NEW i \in Pieces, i < n PROVE content'[pinned][i] = <<x, i>>
  <2>1. content'[pinned] = Stage(x, 0, n)
    BY <1>1, <1>2, <1>3, <1>7 DEF DataTypes
  <2>2. 0 + i = i
    BY Typed DEF Pieces
  <2>3. QED
    BY <1>7, <2>1, <2>2 DEF Stage
<1>8. Moving'
  BY <1>1 DEF Moving
<1>9. QED
  BY <1>1, <1>2, <1>3, <1>5, <1>6, <1>7, <1>8, StartsData

\* The next command takes up where the last one ended, in the same chunk.
LEMMA PushPieces ==
  ASSUME HostMemory, Pushing, Commands, Push
  PROVE  /\ Waited' = Waited \cup {Command}
         /\ Command.at = Pushed /\ Command.lo = call.next /\ Command.buf = BufferOf(call.pushing)
         /\ Command.dir = "d2h" <=> call.dir = "d2h"
         /\ Command.at + Command.len <= call.total /\ Command.lo + Command.len <= call.chunk
         /\ \A i \in Pieces : Covers(Command, i) => InChunk(call.pushing, i)
         /\ \A i \in Pieces : i < call.total /\ i < Pushed' => i < Pushed \/ Covers(Command, i)
<1>1. /\ Fields /\ Moving /\ call.stage = "push" /\ call.next < call.chunk /\ Pushed < call.total
      /\ UNCHANGED Kept /\ call'.stage # "idle"
  <2>1. Fields /\ call.stage = "push" /\ call.next < call.chunk /\ Pushed < call.total
    BY DEF HostMemory, Memory, Push, Pushing
  <2>2. Moving /\ Moving' /\ UNCHANGED Kept
    BY MovingMemory
  <2>3. QED
    BY <2>1, <2>2 DEF Moving
<1>2. PICK p \in Nat, o \in Nat, n \in Nat, c \in Nat, l \in Nat, t \in Nat, w \in Nat, at \in Nat :
        /\ p = call.pushing /\ o = Offset(p) /\ n = call.next /\ c = call.chunk /\ l = ChunkLen(p)
        /\ t = call.total /\ w = CommandLen /\ at = Pushed /\ at = o + n /\ l <= c /\ o + l <= t
        /\ n + w <= l /\ (l < c => o + l = t)
  <2>1. /\ Offset(call.pushing) \in Nat /\ Pushed \in Nat /\ ChunkLen(call.pushing) \in Nat
        /\ ChunkLen(call.pushing) <= call.chunk
        /\ Offset(call.pushing) + ChunkLen(call.pushing) <= call.total
        /\ ChunkLen(call.pushing) < call.chunk => Offset(call.pushing) + ChunkLen(call.pushing) = call.total
        /\ CommandLen \in Nat /\ call.next + CommandLen <= ChunkLen(call.pushing)
    BY <1>1, CommandFacts
  <2>2. /\ call.pushing \in Nat /\ call.next \in Nat /\ call.chunk \in Nat /\ call.total \in Nat
        /\ Pushed = Offset(call.pushing) + call.next
    BY <1>1, RunningTyped
  <2>3. QED
    BY <2>1, <2>2
<1>3. /\ Command.at = at /\ Command.lo = n /\ Command.buf = BufferOf(p) /\ Command.len = w
      /\ Command.dir = (IF call.dir = "d2h" THEN "d2h" ELSE "h2d") /\ Command.x = call.x
  BY <1>2, CommandMade
<1>4. Waited' = Waited \cup {Command}
  <2>1. /\ Command \in CommandSet /\ call.sq \in Queues /\ queue \in [Queues -> Seq(CommandSet)]
        /\ queue' = [queue EXCEPT ![call.sq] = Append(@, Command)]
    BY <1>1, CommandMade DEF Push, Commands, CommandTypes, HostMemory, Phases
  <2>2. PICK q \in Queues, s \in Seq(CommandSet) : q = call.sq /\ s = queue[q]
    BY <2>1
  <2>3. ToSet(Append(s, Command)) = ToSet(s) \cup {Command}
    BY <2>1, Appended
  <2>4. /\ ToSet(queue'[q]) = ToSet(queue[q]) \cup {Command}
        /\ \A r \in Queues : r # q => queue'[r] = queue[r]
    BY <2>1, <2>2, <2>3
  <2>5. \A k : HasWaiter(k)' <=> HasWaiter(k)
    BY <1>1 DEF HasWaiter, Kept
  <2>6. HasWaiter(Command)
    BY <1>1, <1>3 DEF HasWaiter
  <2>7. QED
    BY <2>4, <2>5, <2>6 DEF Waited
<1>5. at + w <= t /\ n + w <= c
  BY <1>2
<1>6. ASSUME NEW i \in Pieces, Covers(Command, i) PROVE InChunk(p, i)
  <2>1. i \in Nat
    BY Typed DEF Pieces
  <2>2. at <= i /\ i < at + w
    BY <1>3, <1>6 DEF Covers
  <2>3. i < t /\ o <= i /\ i < o + c
    BY <1>2, <2>1, <2>2
  <2>4. QED
    BY <1>2, <2>3 DEF InChunk
<1>7. ASSUME NEW i \in Pieces, i < t, i < Pushed' PROVE i < at \/ Covers(Command, i)
  <2>1. i \in Nat
    BY Typed DEF Pieces
  <2>2. \A k \in Nat : Offset(k)' = Offset(k)
    BY <1>1, SamePlaces
  <2>3. CASE call'.pushing = p /\ call'.next = n + w
    <3>1. Pushed' = o + (n + w)
      BY <1>2, <2>2, <2>3 DEF Pushed
    <3>2. i < at \/ (at <= i /\ i < at + w)
      BY <1>2, <1>7, <2>1, <3>1
    <3>3. QED
      BY <1>3, <3>2 DEF Covers
  <2>4. CASE call'.pushing = p + 1 /\ call'.next = 0 /\ n + w = l
    <3>1. Offset(p + 1) = o + c
      BY <1>1, <1>2, OffsetTyped
    <3>2. p + 1 \in Nat
      OBVIOUS
    <3>3. Pushed' = Offset(p + 1) + 0
      BY <2>2, <2>4, <3>2 DEF Pushed
    <3>4. i < o + c
      BY <1>2, <1>7, <3>1, <3>3
    <3>5. i < o + l
      BY <1>2, <1>7, <2>1, <3>4
    <3>6. i < at \/ (at <= i /\ i < at + w)
      BY <1>2, <2>1, <2>4, <3>5
    <3>7. QED
      BY <1>3, <3>6 DEF Covers
  <2>5. QED
    BY <1>1, <1>2, <2>3, <2>4, PushFields
<1>8. QED
  BY <1>2, <1>3, <1>4, <1>5, <1>6, <1>7

\* What is staged is pushed, piece after piece.
LEMMA PushData ==
  ASSUME Transfer, Moved, Push
  PROVE  Moved'
<1>1. HostMemory /\ Pushing /\ Commands /\ Chunks /\ CommandData /\ StagedData /\ MovedData /\ DataTypes
  BY DEF Transfer, Moved
<1>2. /\ Fields /\ Moving /\ Moving' /\ UNCHANGED Kept /\ call.stage = "push" /\ Running
      /\ call.next < call.chunk /\ Pushed < call.total
      /\ UNCHANGED <<call.x, call.dir, call.total, call.chunk, call.pin, call.bufs>>
  <2>1. Fields /\ call.stage = "push" /\ Running /\ call.next < call.chunk /\ Pushed < call.total
    BY <1>1 DEF HostMemory, Memory, Push, Running, Pushing
  <2>2. Moving /\ Moving' /\ UNCHANGED Kept
    BY <1>1, MovingMemory
  <2>3. QED
    BY <2>1, <2>2 DEF Kept
<1>3. UNCHANGED <<call.done, call.error, call.dst, content, dram, answers>>
  BY <1>2, PushFields DEF Push
<1>4. /\ Waited' = Waited \cup {Command}
      /\ Command.at = Pushed /\ Command.lo = call.next /\ Command.buf = BufferOf(call.pushing)
      /\ Command.dir = "d2h" <=> call.dir = "d2h"
      /\ Command.at + Command.len <= call.total /\ Command.lo + Command.len <= call.chunk
      /\ \A i \in Pieces : Covers(Command, i) => InChunk(call.pushing, i)
      /\ \A i \in Pieces : i < call.total /\ i < Pushed' => i < Pushed \/ Covers(Command, i)
  BY <1>1, PushPieces
<1>5. /\ \A c : Offset(c)' = Offset(c) /\ BufferOf(c)' = BufferOf(c) /\ ChunkLen(c)' = ChunkLen(c)
      /\ \A i : Payload(i)' = Payload(i)
      /\ \A c, i : InChunk(c, i)' <=> InChunk(c, i)
      /\ \A c, i : Staged(c, i)' = Staged(c, i)
  BY <1>2, <1>3, SamePlaces
<1>6. Chunks'
  BY <1>1, PushChunks
<1>7. PICK p \in Nat : p = call.pushing
  BY <1>1, <1>2, RunningTyped
<1>8. \/ call'.pushing = p /\ call'.stage = "push"
      \/ call'.pushing = p + 1 /\ call'.stage = "drain"
      \/ call'.pushing = p + 1 /\ call.dir = "d2h"
  <2>1. \/ call'.stage = "push" /\ call'.pushing = p
        \/ call'.stage = "drain" /\ call'.pushing = p + 1
        \/ /\ call'.pushing = 1 /\ p = 0 /\ (call.dir = "d2h" \/ call.pin)
           /\ call'.stage = (IF LastChunk >= 1 THEN "push" ELSE "drain")
    BY <1>1, <1>7, PushGroups
  <2>2. call.pin => ~(LastChunk >= 1)
    <3>1. SUFFICES ASSUME call.pin, LastChunk >= 1 PROVE FALSE
      OBVIOUS
    <3>2. Len(call.bufs) = 1
      <4>1. call.bufs = <<pinned>>
        BY <1>1, <3>1 DEF HostMemory, Phases
      <4>2. Len(<<pinned>>) = 1
        OBVIOUS
      <4>3. QED
        BY <4>1, <4>2
    <3>3. call.total <= call.chunk /\ call.total \in Nat /\ call.chunk \in Nat
      BY <1>1, <1>2, <3>2, RunningTyped DEF HostMemory, Phases
    <3>4. Offset(1) < call.total
      <4>1. 1 <= LastChunk
        BY <3>1
      <4>2. QED
        BY <1>1, <1>2, <4>1, LastChunkIs
    <3>5. Offset(1) = call.chunk
      <4>1. PICK c \in Nat : c = call.chunk
        BY <3>3
      <4>2. 1 * c = c
        OBVIOUS
      <4>3. QED
        BY <4>1, <4>2 DEF Offset
    <3>6. QED
      BY <3>3, <3>4, <3>5
  <2>3. QED
    BY <2>1, <2>2
<1>9. CommandData'
  <2>1. SUFFICES ASSUME NEW k \in Waited \cup {Command}
                 PROVE  /\ k.dir = "d2h" <=> call.dir = "d2h"
                        /\ k.at + k.len <= call.total /\ k.lo + k.len <= call.chunk
                        /\ \E c \in 0 .. call'.pushing :
                             /\ k.at = Offset(c) + k.lo /\ k.buf = BufferOf(c)
                             /\ call.dir # "d2h" => \A i \in Pieces : Covers(k, i) => Staged(c, i) = Payload(i)
    BY <1>2, <1>4, <1>5 DEF CommandData, Covers
  <2>2. \A c \in 0 .. p : c \in 0 .. call'.pushing
    BY <1>8
  <2>3. CASE k \in Waited
    <3>1. /\ k.dir = "d2h" <=> call.dir = "d2h"
          /\ k.at + k.len <= call.total /\ k.lo + k.len <= call.chunk
          /\ \E c \in 0 .. p :
               /\ k.at = Offset(c) + k.lo /\ k.buf = BufferOf(c)
               /\ call.dir # "d2h" => \A i \in Pieces : Covers(k, i) => Staged(c, i) = Payload(i)
      BY <1>1, <1>2, <1>7, <2>3 DEF CommandData
    <3>2. QED
      BY <2>2, <3>1
  <2>4. CASE k = Command
    <3>1. p \in 0 .. p
      OBVIOUS
    <3>2. Command.at = Offset(p) + Command.lo
      BY <1>4, <1>7 DEF Pushed
    <3>3. call.dir # "d2h" => \A i \in Pieces : Covers(Command, i) => Staged(p, i) = Payload(i)
      BY <1>1, <1>2, <1>4, <1>7 DEF StagedData
    <3>4. QED
      BY <1>4, <1>7, <2>2, <2>4, <3>1, <3>2, <3>3
  <2>5. QED
    BY <2>3, <2>4
<1>10. StagedData'
  <2>1. SUFFICES ASSUME call.dir # "d2h"
                 PROVE  /\ call'.stage = "push" =>
                             \A i \in Pieces : InChunk(call'.pushing, i) => Staged(call'.pushing, i) = Payload(i)
                        /\ call.dir = "fill" =>
                             \A c \in 0 .. 1 : c < call'.pushing \/ (c = call'.pushing /\ call'.stage = "push") =>
                               \A n \in Pieces : n < ChunkLen(c) => content[BufferOf(c)][n] = <<call.x, 0>>
    BY <1>2, <1>3, <1>5 DEF StagedData
  <2>2. \A c \in 0 .. 1 : c < call'.pushing \/ (c = call'.pushing /\ call'.stage = "push") => c < p \/ c = p
    BY <1>8, <2>1
  <2>3. QED
    BY <1>1, <1>2, <1>7, <1>8, <2>1, <2>2 DEF StagedData
<1>11. \A i : OnItsWay(i) => OnItsWay(i)'
  <2>1. call'.awaiting = call.awaiting /\ ToSet(call'.pending) = ToSet(call.pending) \cup {Pushed}
    BY <1>1, PushGroups
  <2>2. Outstanding \subseteq Outstanding'
    BY <2>1 DEF Outstanding
  <2>3. QED
    BY <1>3, <1>4, <2>2, StillOnItsWay
<1>12. \A i \in Pieces : i < call.total /\ i < Pushed' => i < Pushed \/ OnItsWay(i)'
  <2>1. \A i \in Pieces : Covers(Command, i) => OnItsWay(i)'
    BY <1>4 DEF OnItsWay, Covers
  <2>2. QED
    BY <1>4, <2>1
<1>13. MovedData'
  <2>1. call'.stage # "restore"
    <3>1. call'.stage \in {"push", "drain"}
      BY <1>1, PushGroups
    <3>2. QED
      BY <3>1
  <2>2. \A i : Arrived(i)' <=> Arrived(i)
    BY <1>2, <1>3, <1>5 DEF Arrived
  <2>3. Offset(call.done)' = Offset(call.done)
    BY <1>3, <1>5
  <2>4. SUFFICES ASSUME call.error = "none"
                 PROVE  /\ call.dir # "d2h" =>
                             \A i \in Pieces : i < call.total /\ i < Pushed' => dram[i] = Payload(i) \/ OnItsWay(i)'
                        /\ call.dir = "d2h" =>
                             \A i \in Pieces : i < call.total =>
                               /\ i < Offset(call.done) => call.dst[i] = <<call.x, i>>
                               /\ Offset(call.done) <= i /\ i < Pushed' => Arrived(i) \/ OnItsWay(i)'
    BY <1>2, <1>3, <1>5, <2>1, <2>2, <2>3 DEF MovedData
  <2>5. QED
    BY <1>1, <1>2, <1>11, <1>12, <2>4 DEF MovedData
<1>14. DataTypes'
  <2>1. Command.at + Command.len <= MaxTotal /\ Command.lo <= Command.at
    <3>1. Command \in CommandSet
      BY <1>1, CommandMade
    <3>2. Command.at \in Nat /\ Command.len \in Nat
      BY <3>1, Typed DEF CommandSet, Pieces
    <3>3. call.total \in Nat /\ call.total <= MaxTotal
      BY <1>1, <1>2, RunningTyped
    <3>4. Command.at + Command.len <= MaxTotal
      BY <1>4, <3>2, <3>3, Typed
    <3>5. Pushed = Offset(call.pushing) + call.next /\ Offset(call.pushing) \in Nat /\ call.next \in Nat
      BY <1>1, <1>2, RunningTyped
    <3>6. call.next <= Pushed
      BY <3>5
    <3>7. QED
      BY <1>4, <3>4, <3>6
  <2>2. ASSUME NEW q \in Queues, NEW k \in ToSet(queue'[q]) PROVE k.at + k.len <= MaxTotal /\ k.lo <= k.at
    <3>1. /\ Command \in CommandSet /\ call.sq \in Queues /\ queue \in [Queues -> Seq(CommandSet)]
          /\ queue' = [queue EXCEPT ![call.sq] = Append(@, Command)]
      BY <1>1, <1>2, CommandMade DEF Push, Commands, CommandTypes, HostMemory, Phases
    <3>2. PICK s \in Seq(CommandSet) : s = queue[q]
      BY <3>1
    <3>3. ToSet(Append(s, Command)) = ToSet(s) \cup {Command}
      BY <3>1, Appended
    <3>4. k = Command \/ k \in ToSet(s)
      BY <2>2, <3>1, <3>2, <3>3
    <3>5. QED
      BY <1>1, <2>1, <3>2, <3>4 DEF DataTypes
  <2>3. QED
    BY <1>1, <1>3, <2>2 DEF DataTypes
<1>15. QED
  BY <1>6, <1>9, <1>10, <1>13, <1>14 DEF Moved

\* A transfer that has failed claims nothing of its data.
LEMMA FailData ==
  ASSUME Transfer, Moved, PushFails \/ WaitFails \/ (Collect /\ call'.stage = "restore")
  PROVE  Moved'
<1>1. HostMemory /\ Pushing /\ Fields /\ DataTypes
  BY DEF Transfer, Moved, HostMemory, Memory
<1>2. UNCHANGED <<content, dram, queue>>
  BY DEF PushFails, WaitFails, Collect
<1>3. call'.stage = "restore" /\ call'.error # "none" /\ call'.dst = call.dst
  <2>1. CASE PushFails \/ WaitFails
    <3>1. PICK e \in {"inflight", "definite"} : Fail(e)
      BY <2>1 DEF PushFails, WaitFails
    <3>2. QED
      BY <1>1, <3>1, FailFields
  <2>2. CASE Collect /\ call'.stage = "restore"
    BY <1>1, <2>2, CollectFields
  <2>3. QED
    BY <2>1, <2>2
<1>4. DataTypes'
  BY <1>1, <1>2, <1>3 DEF DataTypes
<1>5. ~Running'
  BY <1>3 DEF Running
<1>6. QED
  BY <1>3, <1>4, <1>5 DEF Moved, Chunks, CommandData, StagedData, MovedData

\* Collecting leaves the commands and the staged chunks alone.
LEMMA SameData ==
  ASSUME Transfer, Moved, OtherStep, Running, UNCHANGED <<content, dram>>,
         call.dir # "d2h" => call'.stage # "push" /\ call.stage # "push",
         \A a \in answers : ~a.ok /\ a.at \in Outstanding => a \in answers' /\ a.at \in Outstanding'
  PROVE  /\ CommandData' /\ StagedData' /\ \A i : OnItsWay(i) => OnItsWay(i)'
         /\ Waited' = Waited
<1>1. HostMemory /\ Pushing /\ Commands /\ CommandData /\ StagedData
  BY DEF Transfer, Moved
<1>2. /\ UNCHANGED Kept /\ UNCHANGED queue /\ Moving /\ Moving'
      /\ UNCHANGED <<call.x, call.dir, call.total, call.chunk, call.pushing>>
  BY <1>1, OtherNumbers
<1>3. Waited' = Waited
  BY <1>2, SameWaited DEF Moving
<1>4. /\ \A c : Offset(c)' = Offset(c) /\ BufferOf(c)' = BufferOf(c) /\ ChunkLen(c)' = ChunkLen(c)
      /\ \A i : Payload(i)' = Payload(i)
      /\ \A c, i : InChunk(c, i)' <=> InChunk(c, i)
      /\ \A c, i : Staged(c, i)' = Staged(c, i)
  BY <1>2, SamePlaces
<1>5. CommandData'
  BY <1>1, <1>2, <1>3, <1>4 DEF CommandData, Covers
<1>6. StagedData'
  BY <1>1, <1>2, <1>4 DEF StagedData
<1>7. \A i : OnItsWay(i) => OnItsWay(i)'
  BY <1>3, StillOnItsWay
<1>8. QED
  BY <1>3, <1>5, <1>6, <1>7

\* Draining and collecting move no data.
LEMMA CollectData ==
  ASSUME Transfer, Moved, Drain \/ (Collect /\ call'.stage = "await")
  PROVE  Moved'
<1>1. HostMemory /\ Pushing /\ Commands /\ Chunks /\ MovedData /\ DataTypes /\ OtherStep /\ Fields
  BY DEF Transfer, Moved, OtherStep, HostMemory, Memory
<1>2. /\ UNCHANGED Kept /\ Pushed' = Pushed /\ UNCHANGED queue /\ Moving
      /\ UNCHANGED <<call.x, call.dir, call.total, call.pushing>>
  BY <1>1, OtherNumbers
<1>3. UNCHANGED <<content, dram>>
  BY DEF Drain, Collect
<1>4. /\ Chunks' /\ UNCHANGED <<call.done, call.dst>> /\ call'.stage = "await"
      /\ call.stage \in {"drain", "await"}
  BY <1>1, DrainChunks, CollectChunks
<1>5. \A a \in answers : ~a.ok /\ a.at \in Outstanding => a \in answers' /\ a.at \in Outstanding'
  <2>1. CASE Drain
    <3>1. answers' = answers /\ Outstanding' = Outstanding
      BY <1>1, <2>1, DrainChunks DEF Drain
    <3>2. QED
      BY <3>1
  <2>2. CASE Collect
    <3>1. PICK b \in answers : /\ b.ok /\ answers' = answers \ {b}
                               /\ Outstanding \subseteq Outstanding' \cup {b.at}
      <4>1. call'.stage = "await"
        BY <1>4
      <4>2. QED
        BY <1>1, <2>2, <4>1, CollectChunks
    <3>2. \A a \in answers : a.at = b.at => a = b
      BY <1>1 DEF Commands, Answered
    <3>3. QED
      BY <3>1, <3>2
  <2>3. QED
    BY <2>1, <2>2
<1>6. /\ CommandData' /\ StagedData' /\ \A i : OnItsWay(i) => OnItsWay(i)'
  <2>1. Running /\ call'.stage # "push" /\ call.stage # "push"
    BY <1>4 DEF Running
  <2>2. QED
    BY <1>1, <1>3, <1>5, <2>1, SameData
<1>7. /\ \A c : Offset(c)' = Offset(c)
      /\ \A i : Payload(i)' = Payload(i)
      /\ \A c, i : InChunk(c, i)' <=> InChunk(c, i)
      /\ \A c, i : Staged(c, i)' = Staged(c, i)
  BY <1>2, <1>3, SamePlaces
<1>8. MovedData'
  <2>1. call.error = "none"
    BY <1>1, <1>4 DEF HostMemory, Phases
  <2>2. \A i : Arrived(i)' <=> Arrived(i)
    BY <1>2, <1>4, <1>7 DEF Arrived
  <2>3. Offset(call.done)' = Offset(call.done)
    BY <1>4, <1>7
  <2>4. QED
    BY <1>1, <1>2, <1>3, <1>4, <1>6, <1>7, <2>1, <2>2, <2>3 DEF MovedData
<1>9. DataTypes'
  BY <1>1, <1>2, <1>3, <1>4 DEF DataTypes
<1>10. QED
  BY <1>4, <1>6, <1>8, <1>9 DEF Moved

\* What a chunk's buffer holds goes to the chunk's place.
LEMMA CopyOutIs ==
  ASSUME HostMemory, Moving, DataTypes, NEW c \in Nat
  PROVE  /\ CopyOut(c) \in [Pieces -> Data]
         /\ \A i \in Pieces : /\ InChunk(c, i) => CopyOut(c)[i] = Staged(c, i)
                              /\ ~InChunk(c, i) => CopyOut(c)[i] = call.dst[i]
<1>1. PICK o \in Nat, l \in Int, B \in Frames :
        /\ o = Offset(c) /\ l = ChunkLen(c) /\ B = BufferOf(c)
        /\ \A i \in Nat : InChunk(c, i) <=> o <= i /\ i < o + l
  <2>1. Offset(c) \in Nat
    BY RunningTyped
  <2>2. BufferOf(c) \in Frames
    BY RunningTyped, BufferTyped
  <2>3. ChunkLen(c) \in Int /\ \A i \in Nat : InChunk(c, i) <=> Offset(c) <= i /\ i < Offset(c) + ChunkLen(c)
    BY ChunkLenIs
  <2>4. QED
    BY <2>1, <2>2, <2>3
<1>2. CopyOut(c) = [i \in Pieces |-> IF i \in o .. o + l - 1 THEN content[B][i - o] ELSE call.dst[i]]
  BY <1>1 DEF CopyOut
<1>3. ASSUME NEW i \in Pieces
      PROVE  /\ InChunk(c, i) <=> i \in o .. o + l - 1
             /\ i \in o .. o + l - 1 => i - o \in Pieces
  <2>1. i \in Nat /\ i < MaxTotal /\ MaxTotal \in Nat
    BY Typed DEF Pieces
  <2>2. InChunk(c, i) <=> o <= i /\ i < o + l
    BY <1>1, <2>1
  <2>3. (o <= i /\ i < o + l) <=> i \in o .. o + l - 1
    BY <1>1, <2>1
  <2>4. i \in o .. o + l - 1 => i - o \in 0 .. MaxTotal - 1
    BY <1>1, <2>1
  <2>5. QED
    BY <2>2, <2>3, <2>4 DEF Pieces
<1>4. CopyOut(c) \in [Pieces -> Data]
  <2>1. ASSUME NEW i \in Pieces PROVE (IF i \in o .. o + l - 1 THEN content[B][i - o] ELSE call.dst[i]) \in Data
    BY <1>3 DEF DataTypes
  <2>2. QED
    BY <1>2, <2>1
<1>5. QED
  BY <1>1, <1>2, <1>3, <1>4 DEF Staged

\* A complete chunk is in its buffer when it is copied out.
LEMMA AwaitDoneData ==
  ASSUME Transfer, Moved, AwaitDone
  PROVE  Moved'
<1>1. HostMemory /\ Pushing /\ Commands /\ Chunks /\ MovedData /\ DataTypes /\ OtherStep /\ Fields
  BY DEF Transfer, Moved, OtherStep, HostMemory, Memory
<1>2. /\ UNCHANGED Kept /\ Pushed' = Pushed /\ UNCHANGED queue /\ Moving
      /\ UNCHANGED <<call.x, call.dir, call.total, call.pushing>>
  BY <1>1, OtherNumbers
<1>3. UNCHANGED <<content, dram, answers>>
  BY DEF AwaitDone
<1>4. /\ Chunks' /\ Outstanding' = Outstanding /\ call'.done = call.done + 1
      /\ Running /\ call.pushing >= Base /\ Base \in Nat
      /\ \A t \in Outstanding : t \in Nat /\ t >= Offset(Base)
      /\ call.stage = "await" /\ call.next = 0
      /\ call'.stage = "restore" => /\ Offset(call.pushing) >= call.total
                                    /\ call.dir = "d2h" => Offset(Base) >= call.total
  BY <1>1, AwaitDoneChunks
<1>5. /\ call'.dst = (IF call.dir = "d2h" THEN CopyOut(call.done) ELSE call.dst)
      /\ call.dir # "d2h" => call'.stage # "push"
      /\ UNCHANGED call.error /\ call.error = "none"
  <2>1. call.error = "none"
    BY <1>1, <1>4 DEF HostMemory, Phases
  <2>2. QED
    BY <1>1, <2>1, AwaitDoneFields
<1>6. CommandData' /\ StagedData' /\ \A i : OnItsWay(i) => OnItsWay(i)'
  <2>1. \A a \in answers : ~a.ok /\ a.at \in Outstanding => a \in answers' /\ a.at \in Outstanding'
    BY <1>3, <1>4
  <2>2. QED
    BY <1>1, <1>3, <1>4, <1>5, <2>1, SameData
<1>7. /\ \A c : Offset(c)' = Offset(c)
      /\ \A i : Payload(i)' = Payload(i)
      /\ \A c, i : InChunk(c, i)' <=> InChunk(c, i)
      /\ \A c, i : Staged(c, i)' = Staged(c, i)
  BY <1>2, <1>3, SamePlaces
<1>8. call.done \in Nat /\ call.done + 1 \in Nat
  <2>1. PICK d \in Nat : d = call.done
    BY <1>1, <1>2, RunningTyped
  <2>2. d + 1 \in Nat
    OBVIOUS
  <2>3. QED
    BY <2>1, <2>2
<1>9. DataTypes'
  <2>1. call'.dst \in [Pieces -> Data]
    BY <1>1, <1>2, <1>5, <1>8, CopyOutIs DEF DataTypes
  <2>2. QED
    BY <1>1, <1>2, <1>3, <2>1 DEF DataTypes
<1>10. call'.stage = "restore" =>
         Pushed' >= call'.total /\ (call'.dir = "d2h" => Offset(call.done)' >= call'.total)
  <2>1. Pushed = Offset(call.pushing) + 0 /\ Offset(call.pushing) \in Nat
    BY <1>1, <1>4, PushedTyped
  <2>2. Pushed = Offset(call.pushing)
    BY <2>1
  <2>3. call.dir = "d2h" => Base = call'.done
    BY <1>4 DEF Base, ReadsAhead
  <2>4. Offset(call.done)' = Offset(call'.done)
    BY <1>2 DEF Offset, Kept
  <2>5. Pushed' = Offset(call.pushing) /\ call'.total = call.total /\ call'.dir = call.dir
    BY <1>2, <2>2
  <2>6. call.dir = "d2h" => Offset(call.done)' = Offset(Base)
    BY <2>3, <2>4
  <2>7. QED
    BY <1>4, <2>5, <2>6, Zenon
<1>11. CASE call.dir # "d2h"
  <2>1. MovedData'
    BY <1>1, <1>2, <1>3, <1>5, <1>6, <1>7, <1>10, <1>11 DEF MovedData
  <2>2. QED
    BY <1>4, <1>6, <1>9, <2>1 DEF Moved
<1>12. CASE call.dir = "d2h"
  <2>1. PICK d \in Nat, u \in Nat, v \in Nat, n \in Nat, p \in Nat :
          /\ d = call.done /\ u = Offset(d) /\ v = Offset(d + 1) /\ n = call.chunk /\ v = u + n
          /\ p = Pushed /\ v <= p /\ Base = d + 1
    <3>1. Base = call.done + 1
      BY <1>12 DEF Base, ReadsAhead
    <3>2. /\ Offset(call.done) \in Nat /\ Offset(call.done + 1) \in Nat
          /\ Offset(call.done + 1) = Offset(call.done) + call.chunk
          /\ call.chunk \in Nat /\ Pushed \in Nat /\ call.pushing \in Nat
      <4>1. /\ Offset(call.done) \in Nat /\ Offset(call.done + 1) \in Nat
            /\ call.chunk \in Nat /\ Pushed \in Nat /\ call.pushing \in Nat
        BY <1>1, <1>2, <1>8, RunningTyped
      <4>2. Offset(call.done + 1) = Offset(call.done) + call.chunk
        BY <1>1, <1>8, OffsetTyped
      <4>3. QED
        BY <4>1, <4>2
    <3>3. Pushed = Offset(call.pushing)
      <4>1. Pushed = Offset(call.pushing) + 0 /\ Offset(call.pushing) \in Nat
        BY <1>1, <1>4, PushedTyped
      <4>2. QED
        BY <4>1
    <3>4. call.done + 1 <= call.pushing
      BY <1>4, <1>8, <3>1, <3>2
    <3>5. Offset(call.done + 1) <= Offset(call.pushing)
      BY <1>1, <1>8, <3>2, <3>4, ChunkOrder
    <3>6. QED
      BY <1>8, <3>1, <3>2, <3>3, <3>5
  <2>2. ASSUME NEW i \in Pieces, OnItsWay(i) PROVE v <= i
    <3>1. i \in Nat
      BY Typed DEF Pieces
    <3>2. PICK t \in Outstanding : t <= i
      <4>1. CASE Refused(i)
        BY <4>1 DEF Refused
      <4>2. CASE \E k \in Waited : Covers(k, i)
        <5>1. PICK k \in Waited : Covers(k, i)
          BY <4>2
        <5>2. k.at \in Outstanding /\ k.at <= i
          BY <1>1, <5>1, WaitedFacts DEF Covers
        <5>3. QED
          BY <5>2
      <4>3. QED
        BY <2>2, <4>1, <4>2 DEF OnItsWay
    <3>3. t \in Nat /\ t >= v
      BY <1>4, <2>1
    <3>4. QED
      BY <2>1, <3>1, <3>2, <3>3
  <2>3. ASSUME NEW i \in Pieces, i < call.total, i < v PROVE call'.dst[i] = <<call.x, i>>
    <3>1. i \in Nat
      BY Typed DEF Pieces
    <3>2. CASE i < u
      <4>1. ~InChunk(d, i)
        BY <2>1, <3>1, <3>2 DEF InChunk
      <4>2. CopyOut(d)[i] = call.dst[i]
        BY <1>1, <1>2, <4>1, CopyOutIs
      <4>3. call.dst[i] = <<call.x, i>>
        BY <1>1, <1>2, <1>5, <1>12, <2>1, <2>3, <3>2 DEF MovedData
      <4>4. QED
        BY <1>5, <1>12, <2>1, <4>2, <4>3
    <3>3. CASE ~(i < u)
      <4>1. u <= i /\ i < p /\ ~(v <= i) /\ i < u + n
        BY <2>1, <2>3, <3>1, <3>3
      <4>2. InChunk(d, i)
        BY <2>1, <2>3, <4>1 DEF InChunk
      <4>3. Arrived(i)
        BY <1>1, <1>2, <1>5, <1>12, <2>1, <2>2, <2>3, <4>1 DEF MovedData
      <4>4. Staged(d, i) = <<call.x, i>>
        BY <2>1, <4>1, <4>3 DEF Arrived, InChunk
      <4>5. CopyOut(d)[i] = Staged(d, i)
        BY <1>1, <1>2, <4>2, CopyOutIs
      <4>6. QED
        BY <1>5, <1>12, <2>1, <4>4, <4>5
    <3>4. QED
      BY <3>2, <3>3
  <2>4. ASSUME NEW i \in Pieces, i < call.total, v <= i, i < p PROVE Arrived(i)' \/ OnItsWay(i)'
    <3>1. i \in Nat
      BY Typed DEF Pieces
    <3>2. u <= i /\ ~(i < u + n)
      BY <2>1, <2>4, <3>1
    <3>3. Arrived(i) \/ OnItsWay(i)
      BY <1>1, <1>2, <1>5, <1>12, <2>1, <2>4, <3>2 DEF MovedData
    <3>4. ~InChunk(d, i)
      BY <2>1, <3>2 DEF InChunk
    <3>5. Arrived(i) => InChunk(d + 1, i) /\ Staged(d + 1, i) = <<call.x, i>>
      BY <2>1, <3>4 DEF Arrived
    <3>6. InChunk(d + 1, i) /\ Staged(d + 1, i) = <<call.x, i>> => Arrived(i)'
      BY <1>2, <1>4, <1>7, <2>1 DEF Arrived
    <3>7. QED
      BY <1>6, <3>3, <3>5, <3>6
  <2>5. Offset(call.done)' = v
    BY <1>2, <1>4, <2>1 DEF Offset, Kept
  <2>6. MovedData'
    BY <1>2, <1>10, <1>12, <2>1, <2>3, <2>4, <2>5 DEF MovedData
  <2>7. QED
    BY <1>4, <1>6, <1>9, <2>6 DEF Moved
<1>13. QED
  BY <1>11, <1>12

\* The device takes the oldest command of a queue, and nothing else changes there.
LEMMA CompleteFacts ==
  ASSUME HostMemory, Pushing, Commands, NEW q \in Queues, NEW ok \in BOOLEAN, Complete(q, ok)
  PROVE  \E k \in CommandSet :
           /\ k \in ToSet(queue[q]) /\ call' = call /\ UNCHANGED Kept
           /\ Waited' \subseteq Waited /\ Waited \subseteq Waited' \cup {k}
           /\ \A p \in Queues : ToSet(queue'[p]) \subseteq ToSet(queue[p])
           /\ answers' = IF HasWaiter(k) THEN answers \cup {[at |-> k.at, ok |-> ok]} ELSE answers
           /\ HasWaiter(k) => k \in Waited /\ Moving
           /\ ~HasWaiter(k) => mem[k.buf] = "leaked" /\ k \notin Waited
           /\ IF ok THEN Move(k) ELSE UNCHANGED <<content, dram>>
<1>1. PICK s \in Seq(CommandSet) : s = queue[q] /\ s # <<>>
  BY DEF Commands, CommandTypes, Complete
<1>2. PICK k \in CommandSet : k = Head(s)
  BY <1>1, TailSet
<1>3. k \in ToSet(s) /\ ToSet(s) = ToSet(Tail(s)) \cup {k}
  BY <1>1, <1>2, TailSet
<1>4. /\ queue' = [queue EXCEPT ![q] = Tail(s)] /\ call' = call
      /\ answers' = IF HasWaiter(k) THEN answers \cup {[at |-> k.at, ok |-> ok]} ELSE answers
      /\ IF ok THEN Move(k) ELSE UNCHANGED <<content, dram>>
  BY <1>1, <1>2 DEF Complete
<1>5. \A p \in Queues : queue'[p] = IF p = q THEN Tail(s) ELSE queue[p]
  BY <1>4 DEF Commands, CommandTypes
<1>6. \A m : HasWaiter(m)' <=> HasWaiter(m)
  BY <1>4 DEF HasWaiter
<1>7. Waited' \subseteq Waited /\ Waited \subseteq Waited' \cup {k}
  BY <1>1, <1>3, <1>5, <1>6 DEF Waited
<1>8. HasWaiter(k) => k \in Waited
  BY <1>1, <1>3 DEF Waited
<1>9. HasWaiter(k) => Moving
  <2>1. HasWaiter(k) => call.stage \notin {"idle", "take"}
    BY <1>1, <1>3, NobodyWaits
  <2>2. QED
    BY <2>1 DEF Moving, HostMemory, Memory, Fields, Stages
<1>10. ~HasWaiter(k) => mem[k.buf] = "leaked" /\ k \notin Waited
  BY <1>1, <1>3 DEF Waited, Commands, Held
<1>11. UNCHANGED Kept
  BY <1>4 DEF Kept
<1>12. QED
  BY <1>1, <1>3, <1>4, <1>5, <1>7, <1>8, <1>9, <1>10, <1>11

\* What a command moves is data, and stays in its place.
LEMMA MovesData ==
  ASSUME HostMemory, DataTypes, NEW k \in CommandSet, k.at + k.len <= MaxTotal, k.lo <= k.at,
         Move(k)
  PROVE  /\ content' \in [Frames -> [Pieces -> Data]] /\ dram' \in [Pieces -> Data]
         /\ \A f \in Frames : f # k.buf => content'[f] = content[f]
         /\ k.dir = "h2d" =>
              /\ content' = content
              /\ ~HasWaiter(k) => dram' = dram
              /\ HasWaiter(k) => \A i \in Pieces :
                   dram'[i] = IF Covers(k, i) THEN content[k.buf][(k.lo + i) - k.at] ELSE dram[i]
         /\ k.dir = "d2h" =>
              /\ dram' = dram
              /\ \A n \in Pieces :
                   content'[k.buf][n] = IF k.lo <= n /\ n < k.lo + k.len
                                        THEN <<k.x, (k.at + n) - k.lo>> ELSE content[k.buf][n]
<1>1. PICK at \in Nat, lo \in Nat, len \in Nat, x \in Transfers, B \in Frames :
        /\ at = k.at /\ lo = k.lo /\ len = k.len /\ x = k.x /\ B = k.buf /\ at + len <= MaxTotal /\ lo <= at
  <2>1. k.at \in Nat /\ k.lo \in Nat /\ k.len \in Nat /\ k.x \in Transfers /\ k.buf \in Frames
    BY Typed DEF CommandSet, Pieces
  <2>2. QED
    BY <2>1
<1>2. \A i \in Pieces : i \in Nat /\ i < MaxTotal
  BY Typed DEF Pieces
<1>3. \A i \in Pieces : i \in at .. at + len - 1 <=> Covers(k, i)
  BY <1>1, <1>2 DEF Covers
<1>4. \A i \in Pieces : i \in lo .. lo + len - 1 <=> lo <= i /\ i < lo + len
  BY <1>1, <1>2
<1>5. CASE k.dir = "h2d"
  <2>1. /\ content' = content
        /\ dram' = IF ~HasWaiter(k) THEN dram
                   ELSE [i \in Pieces |-> IF i \in at .. at + len - 1
                                          THEN content[B][(lo + i) - at] ELSE dram[i]]
    BY <1>1, <1>5 DEF Move
  <2>2. ASSUME NEW i \in Pieces, Covers(k, i) PROVE (lo + i) - at \in Pieces
    <3>1. at <= i /\ i < at + len
      BY <1>1, <2>2 DEF Covers
    <3>2. (lo + i) - at \in 0 .. MaxTotal - 1
      BY <1>1, <1>2, <3>1, Typed
    <3>3. QED
      BY <3>2 DEF Pieces
  <2>3. dram' \in [Pieces -> Data]
    BY <1>1, <1>3, <2>1, <2>2 DEF DataTypes
  <2>4. QED
    BY <1>1, <1>3, <1>5, <2>1, <2>3 DEF DataTypes
<1>6. CASE k.dir = "d2h"
  <2>1. /\ dram' = dram
        /\ content' = [content EXCEPT ![B] = [i \in Pieces |-> IF i \in lo .. lo + len - 1
                                                              THEN <<x, (at + i) - lo>> ELSE content[B][i]]]
    BY <1>1, <1>6 DEF Move
  <2>2. ASSUME NEW i \in Pieces, i \in lo .. lo + len - 1 PROVE <<x, (at + i) - lo>> \in Data
    <3>1. (at + i) - lo \in 0 .. MaxTotal - 1
      BY <1>1, <2>2, Typed
    <3>2. QED
      BY <3>1 DEF Data, Pieces
  <2>3. [i \in Pieces |-> IF i \in lo .. lo + len - 1 THEN <<x, (at + i) - lo>> ELSE content[B][i]] \in [Pieces -> Data]
    BY <1>1, <2>2 DEF DataTypes
  <2>4. QED
    BY <1>1, <1>4, <1>6, <2>1, <2>3 DEF DataTypes
<1>7. QED
  BY <1>5, <1>6 DEF CommandSet

\* While the buffers keep what is staged, the commands queued send it.
LEMMA KeptData ==
  ASSUME Transfer, Moved, Moving, call' = call, Waited' \subseteq Waited,
         call.dir # "d2h" => \A c \in Nat : content'[BufferOf(c)] = content[BufferOf(c)]
  PROVE  /\ Chunks' /\ CommandData' /\ StagedData' /\ UNCHANGED Kept
         /\ call.dir # "d2h" => \A c \in Nat : \A i : Staged(c, i)' = Staged(c, i)
<1>1. HostMemory /\ Chunks /\ CommandData /\ StagedData
  BY DEF Transfer, Moved
<1>2. UNCHANGED Kept
  BY DEF Kept
<1>3. /\ \A c : Offset(c)' = Offset(c) /\ BufferOf(c)' = BufferOf(c) /\ ChunkLen(c)' = ChunkLen(c)
      /\ \A i : Payload(i)' = Payload(i)
      /\ \A c, i : InChunk(c, i)' <=> InChunk(c, i)
  BY <1>2, SamePlaces
<1>4. call.dir # "d2h" => \A c \in Nat : \A i : Staged(c, i)' = Staged(c, i)
  BY <1>3 DEF Staged
<1>5. Chunks'
  BY ZenonT(30), <1>1 DEF Chunks, Running, ReadsAhead, Base, Offset, Older, Newer
<1>6. PICK p \in Nat : p = call.pushing
  BY <1>1, RunningTyped
<1>7. \A c \in 0 .. p : c \in Nat
  OBVIOUS
<1>8. CommandData'
  <2>1. SUFFICES ASSUME Running, NEW k \in Waited
                 PROVE  /\ k.dir = "d2h" <=> call.dir = "d2h"
                        /\ k.at + k.len <= call.total /\ k.lo + k.len <= call.chunk
                        /\ \E c \in 0 .. p :
                             /\ k.at = Offset(c) + k.lo /\ k.buf = BufferOf(c)
                             /\ call.dir # "d2h" => \A i \in Pieces : Covers(k, i) => Staged(c, i)' = Payload(i)
    BY <1>3, <1>6 DEF CommandData, Covers, Running
  <2>2. /\ k.dir = "d2h" <=> call.dir = "d2h"
        /\ k.at + k.len <= call.total /\ k.lo + k.len <= call.chunk
        /\ \E c \in 0 .. p :
             /\ k.at = Offset(c) + k.lo /\ k.buf = BufferOf(c)
             /\ call.dir # "d2h" => \A i \in Pieces : Covers(k, i) => Staged(c, i) = Payload(i)
    BY <1>1, <1>6, <2>1 DEF CommandData
  <2>3. QED
    BY <1>4, <1>7, <2>2
<1>9. StagedData'
  <2>1. SUFFICES ASSUME Running, call.dir # "d2h"
                 PROVE  /\ call.stage = "push" => \A i \in Pieces : InChunk(p, i) => Staged(p, i)' = Payload(i)
                        /\ call.dir = "fill" =>
                             \A c \in 0 .. 1 : c < p \/ (c = p /\ call.stage = "push") =>
                               \A n \in Pieces : n < ChunkLen(c) => content'[BufferOf(c)][n] = <<call.x, 0>>
    BY <1>3, <1>6 DEF StagedData, Running
  <2>2. \A c \in 0 .. 1 : c \in Nat
    OBVIOUS
  <2>3. QED
    BY <1>1, <1>4, <1>6, <2>1, <2>2 DEF StagedData
<1>10. QED
  BY <1>2, <1>4, <1>5, <1>8, <1>9

\* The tag of a queued download is one of the two chunks in flight.
LEMMA InFlightChunk ==
  ASSUME Transfer, Moved, Running, call.dir = "d2h", NEW k \in Waited,
         NEW c \in Nat, c <= call.pushing, k.at = Offset(c) + k.lo, k.lo + k.len <= call.chunk
  PROVE  c \in {call.done, call.done + 1}
<1>1. HostMemory /\ Pushing /\ Commands /\ Chunks /\ Moving /\ Fields
  BY DEF Transfer, Moved, HostMemory, Memory, Running, Moving
<1>2. k.at \in Nat /\ k.lo \in Nat /\ k.len \in Nat /\ k.len > 0 /\ k.at \in Outstanding
  BY <1>1, WaitedFacts
<1>3. PICK d \in Nat, n \in Nat, p \in Nat, m \in Nat, w \in Nat :
        /\ d = call.done /\ n = call.chunk /\ n > 0 /\ p = call.pushing /\ m = call.next /\ w = Pushed
        /\ w = Offset(p) + m /\ c <= p
  BY <1>1, RunningTyped
<1>4. Base = d + 1 /\ ReadsAhead
  BY <1>3 DEF Base, ReadsAhead
<1>5. PICK u \in Nat, v \in Nat, o \in Nat, y \in Nat :
        u = Offset(d) /\ v = Offset(d + 1) /\ o = Offset(c) /\ y = Offset(p) /\ v = u + n
  <2>1. d + 1 \in Nat
    OBVIOUS
  <2>2. Offset(d) \in Nat /\ Offset(d + 1) \in Nat /\ Offset(c) \in Nat /\ Offset(p) \in Nat
    BY <1>1, <1>3, <2>1, RunningTyped
  <2>3. Offset(d + 1) = Offset(d) + n
    BY <1>1, <1>3, OffsetTyped
  <2>4. QED
    BY <2>2, <2>3
<1>6. p = 0 => d = 0 /\ u = 0
  <2>1. p = 0 => d = 0
    <3>1. CASE call.stage \in {"produce", "push"}
      <4>1. p = d + 1 \/ d = 0
        BY <1>1, <1>3, <1>4, <3>1 DEF Chunks
      <4>2. QED
        BY <4>1
    <3>2. CASE call.stage \in {"drain", "await"}
      <4>1. p = (d + 1) + 1 \/ p = d + 1
        BY <1>1, <1>3, <1>4, <3>2 DEF Chunks
      <4>2. QED
        BY <4>1
    <3>3. QED
      BY <3>1, <3>2 DEF Running
  <2>2. 0 * n = 0
    OBVIOUS
  <2>3. d = 0 => u = 0
    BY <1>3, <1>5, <2>2 DEF Offset
  <2>4. QED
    BY <2>1, <2>3
<1>7. k.at >= u
  <2>1. Outstanding = ToSet(call.awaiting) \cup (Older \cup Newer)
    BY <1>1, Groups DEF Outstanding
  <2>2. CASE k.at \in ToSet(call.awaiting) \cup Older
    <3>1. k.at + n >= v
      BY <1>1, <1>3, <1>4, <1>5, <2>2 DEF Chunks
    <3>2. QED
      BY <1>2, <1>5, <3>1
  <2>3. CASE k.at \in Newer
    <3>1. k.at >= v \/ p = 0
      BY <1>1, <1>3, <1>4, <1>5, <2>3 DEF Chunks
    <3>2. QED
      BY <1>2, <1>3, <1>5, <1>6, <3>1
  <2>4. QED
    BY <1>2, <2>1, <2>2, <2>3
<1>8. ~(c < d)
  <2>1. SUFFICES ASSUME c < d PROVE FALSE
    OBVIOUS
  <2>2. o + n <= u
    BY <1>1, <1>3, <1>5, <2>1, ChunkOrder
  <2>3. k.at < o + n
    BY <1>2, <1>3, <1>5
  <2>4. QED
    BY <1>2, <1>5, <1>7, <2>2, <2>3
<1>9. ~(d + 1 < c)
  <2>1. SUFFICES ASSUME d + 1 < c PROVE FALSE
    OBVIOUS
  <2>2. d + 1 < p
    BY <1>3, <2>1
  <2>3. call.stage \in {"drain", "await"} /\ p = (d + 1) + 1
    <3>1. call.stage \in {"produce", "push"} => p = d + 1 \/ p = 0
      BY <1>1, <1>3, <1>4 DEF Chunks
    <3>2. call.stage \notin {"produce", "push"}
      BY <2>2, <3>1
    <3>3. call.stage \in {"drain", "await"}
      BY <3>2 DEF Running
    <3>4. p = (d + 1) + 1 \/ p = d + 1
      BY <1>1, <1>3, <1>4, <3>3 DEF Chunks
    <3>5. QED
      BY <2>2, <3>3, <3>4
  <2>4. m = 0
    BY <1>1, <1>3, <2>3 DEF Pushing
  <2>5. c = p
    BY <1>3, <2>1, <2>3
  <2>6. k.at < w
    BY <1>1, <1>2, <1>3 DEF Pushing
  <2>7. QED
    BY <1>2, <1>3, <1>5, <2>4, <2>5, <2>6
<1>10. QED
  BY <1>3, <1>8, <1>9

\* An uploaded piece reaches its place.
LEMMA UploadData ==
  ASSUME Transfer, Moved, Running, call' = call, NEW k \in Waited, call.dir # "d2h", Move(k),
         Waited' \subseteq Waited, Waited \subseteq Waited' \cup {k}, answers \subseteq answers'
  PROVE  Chunks' /\ CommandData' /\ StagedData' /\ MovedData'
<1>1. HostMemory /\ Pushing /\ Commands /\ Moving /\ DataTypes /\ CommandData /\ MovedData
  BY DEF Transfer, Moved, Running, Moving
<1>2. /\ k \in CommandSet /\ HasWaiter(k) /\ k.at \in Nat /\ k.lo \in Nat /\ k.len \in Nat
      /\ k.at + k.len <= MaxTotal /\ k.lo <= k.at
  BY <1>1, WaitedFacts DEF DataTypes
<1>3. k.dir = "h2d"
  BY <1>1, <1>2 DEF CommandData, CommandSet
<1>4. /\ content' = content
      /\ \A i \in Pieces : dram'[i] = IF Covers(k, i) THEN content[k.buf][(k.lo + i) - k.at] ELSE dram[i]
  BY <1>1, <1>2, <1>3, MovesData
<1>5. Chunks' /\ CommandData' /\ StagedData' /\ UNCHANGED Kept
  BY <1>1, <1>4, KeptData
<1>6. PICK c \in 0 .. call.pushing :
        /\ k.at = Offset(c) + k.lo /\ k.buf = BufferOf(c)
        /\ \A i \in Pieces : Covers(k, i) => Staged(c, i) = Payload(i)
  BY <1>1 DEF CommandData
<1>7. PICK o \in Nat : o = Offset(c)
  <2>1. c \in Nat
    BY <1>1, RunningTyped
  <2>2. QED
    BY <1>1, <2>1, RunningTyped
<1>8. ASSUME NEW i \in Pieces, Covers(k, i) PROVE dram'[i] = Payload(i)
  <2>1. i \in Nat
    BY Typed DEF Pieces
  <2>2. (k.lo + i) - k.at = i - o
    BY <1>2, <1>6, <1>7, <2>1
  <2>3. QED
    BY <1>4, <1>6, <1>7, <1>8, <2>2 DEF Staged
<1>9. \A i \in Pieces : OnItsWay(i) => Covers(k, i) \/ OnItsWay(i)'
  <2>1. Outstanding' = Outstanding
    BY DEF Outstanding
  <2>2. QED
    BY <2>1 DEF OnItsWay, Refused, Covers
<1>10. /\ \A i : Payload(i)' = Payload(i)
       /\ Pushed' = Pushed
  BY DEF Payload, Pushed, Offset
<1>11. ASSUME call.error = "none", NEW i \in Pieces, i < call.total, i < Pushed
       PROVE  dram'[i] = Payload(i) \/ OnItsWay(i)'
  <2>1. dram[i] = Payload(i) \/ OnItsWay(i)
    BY <1>1, <1>11 DEF MovedData
  <2>2. QED
    BY <1>4, <1>8, <1>9, <2>1
<1>12. MovedData'
  BY <1>10, <1>11 DEF MovedData, Running
<1>13. QED
  BY <1>5, <1>12

\* A downloaded piece reaches the buffer of its own chunk, and of no other.
LEMMA DownloadData ==
  ASSUME Transfer, Moved, Running, call' = call, NEW k \in Waited, call.dir = "d2h", Move(k),
         Waited' \subseteq Waited, Waited \subseteq Waited' \cup {k}, answers \subseteq answers'
  PROVE  Chunks' /\ CommandData' /\ StagedData' /\ MovedData'
<1>1. HostMemory /\ Pushing /\ Commands /\ Moving /\ Fields /\ DataTypes /\ CommandData /\ MovedData
  BY DEF Transfer, Moved, Running, Moving, HostMemory, Memory
<1>2. /\ k \in CommandSet /\ HasWaiter(k) /\ k.at \in Nat /\ k.lo \in Nat /\ k.len \in Nat /\ k.len > 0
      /\ k.at + k.len <= MaxTotal /\ k.lo <= k.at /\ k.x = call.x
  BY <1>1, WaitedFacts DEF DataTypes
<1>3. k.dir = "d2h" /\ k.at + k.len <= call.total /\ k.lo + k.len <= call.chunk
  BY <1>1 DEF CommandData
<1>4. /\ \A f \in Frames : f # k.buf => content'[f] = content[f]
      /\ \A n \in Pieces :
           content'[k.buf][n] = IF k.lo <= n /\ n < k.lo + k.len
                                THEN <<call.x, (k.at + n) - k.lo>> ELSE content[k.buf][n]
  BY <1>1, <1>2, <1>3, MovesData
<1>5. Chunks' /\ CommandData' /\ StagedData' /\ UNCHANGED Kept
  BY <1>1, KeptData
<1>6. PICK c \in Nat, o \in Nat, h \in Nat :
        /\ h = call.chunk /\ c <= call.pushing
        /\ o = Offset(c) /\ k.at = o + k.lo /\ k.buf = BufferOf(c)
  <2>1. PICK c \in 0 .. call.pushing : k.at = Offset(c) + k.lo /\ k.buf = BufferOf(c)
    BY <1>1 DEF CommandData
  <2>2. c \in Nat /\ c <= call.pushing /\ call.chunk \in Nat
    BY <1>1, RunningTyped
  <2>3. Offset(c) \in Nat
    BY <1>1, <2>2, RunningTyped
  <2>4. QED
    BY <2>1, <2>2, <2>3
<1>7. c \in {call.done, call.done + 1}
  BY <1>1, <1>3, <1>6, InFlightChunk
<1>8. PICK at \in Nat, lo \in Nat, len \in Nat :
        /\ at = k.at /\ lo = k.lo /\ len = k.len /\ len > 0 /\ at = o + lo /\ lo + len <= h
  BY <1>2, <1>3, <1>6
<1>9. /\ \A e : Offset(e)' = Offset(e) /\ BufferOf(e)' = BufferOf(e)
      /\ \A e, i : InChunk(e, i)' <=> InChunk(e, i)
  BY <1>5, SamePlaces
<1>10. ASSUME NEW i \in Pieces, i < call.total, Covers(k, i) PROVE Arrived(i)'
  <2>1. i \in Nat /\ at <= i /\ i < at + len /\ i < MaxTotal /\ MaxTotal \in Nat
    BY <1>8, <1>10, Typed DEF Pieces, Covers
  <2>2. PICK n \in Pieces : n = i - o /\ lo <= n /\ n < lo + len /\ (at + n) - lo = i
    <3>1. /\ i - o \in 0 .. MaxTotal - 1 /\ lo <= i - o /\ i - o < lo + len
          /\ (at + (i - o)) - lo = i
      BY <1>8, <2>1
    <3>2. QED
      BY <3>1 DEF Pieces
  <2>3. content'[k.buf][n] = <<call.x, i>>
    BY <1>4, <1>8, <2>2
  <2>4. o <= i /\ i < o + h
    BY <1>8, <2>1
  <2>5. InChunk(c, i)
    BY <1>6, <1>10, <2>4 DEF InChunk
  <2>6. Staged(c, i)' = <<call.x, i>>
    BY <1>6, <1>9, <2>2, <2>3 DEF Staged
  <2>7. QED
    BY <1>7, <1>9, <2>5, <2>6 DEF Arrived
<1>11. ASSUME NEW i \in Pieces, Arrived(i) PROVE Arrived(i)'
  <2>1. PICK e \in {call.done, call.done + 1} : InChunk(e, i) /\ Staged(e, i) = <<call.x, i>>
    BY <1>11 DEF Arrived
  <2>2. e \in Nat /\ (e \in {c, c + 1} \/ c = e + 1) /\ i \in Nat /\ MaxTotal \in Nat /\ i < MaxTotal
    <3>1. call.done \in Nat
      BY <1>1, RunningTyped
    <3>2. QED
      BY <1>7, <3>1, Typed DEF Pieces
  <2>3. BufferOf(e) \in Frames
    BY <1>1, <2>2, RunningTyped, BufferTyped
  <2>4. CASE BufferOf(e) # BufferOf(c)
    BY <1>4, <1>6, <1>9, <2>1, <2>3, <2>4 DEF Arrived, Staged
  <2>5. CASE BufferOf(e) = BufferOf(c)
    <3>1. InChunk(c, at)
      <4>1. o <= at /\ at < o + h
        BY <1>8
      <4>2. at < call.total
        <5>1. PICK t \in Nat : t = call.total
          BY <1>1, RunningTyped
        <5>2. QED
          BY <1>3, <1>8, <5>1
      <4>3. QED
        BY <1>6, <4>1, <4>2 DEF InChunk
    <3>2. c = e
      BY <1>1, <1>6, <1>8, <2>1, <2>2, <2>5, <3>1, BuffersApart
    <3>3. o <= i
      BY <1>6, <2>1, <3>2 DEF InChunk
    <3>4. PICK n \in Pieces : n = i - o /\ (at + n) - lo = i
      <4>1. i - o \in 0 .. MaxTotal - 1 /\ (at + (i - o)) - lo = i
        BY <1>8, <2>2, <3>3
      <4>2. QED
        BY <4>1 DEF Pieces
    <3>5. content[k.buf][n] = <<call.x, i>>
      BY <1>6, <2>1, <3>2, <3>4 DEF Staged
    <3>6. content'[k.buf][n] = <<call.x, i>>
      BY <1>4, <1>8, <3>4, <3>5
    <3>7. Staged(c, i)' = <<call.x, i>>
      BY <1>6, <1>9, <3>4, <3>6 DEF Staged
    <3>8. QED
      BY <1>7, <1>9, <2>1, <3>2, <3>7 DEF Arrived
  <2>6. QED
    BY <2>4, <2>5
<1>12. \A i \in Pieces : OnItsWay(i) => Covers(k, i) \/ OnItsWay(i)'
  <2>1. Outstanding' = Outstanding
    BY DEF Outstanding
  <2>2. QED
    BY <2>1 DEF OnItsWay, Refused, Covers
<1>13. MovedData'
  <2>1. Pushed' = Pushed /\ Offset(call.done)' = Offset(call.done) /\ call'.stage # "restore"
    BY DEF Pushed, Offset, Running
  <2>2. ASSUME call.error = "none", NEW i \in Pieces, i < call.total
        PROVE  /\ i < Offset(call.done) => call.dst[i] = <<call.x, i>>
               /\ Offset(call.done) <= i /\ i < Pushed => Arrived(i)' \/ OnItsWay(i)'
    <3>1. /\ i < Offset(call.done) => call.dst[i] = <<call.x, i>>
          /\ Offset(call.done) <= i /\ i < Pushed => Arrived(i) \/ OnItsWay(i)
      BY <1>1, <2>2 DEF MovedData
    <3>2. QED
      BY <1>10, <1>11, <1>12, <2>2, <3>1
  <2>3. QED
    BY <2>1, <2>2 DEF MovedData
<1>14. QED
  BY <1>5, <1>13

\* A rejected command, or one that nobody waits for, changes nothing of the transfer's data.
LEMMA RejectedData ==
  ASSUME Transfer, Moved, Moving, call' = call, UNCHANGED dram,
         \A c \in Nat : content'[BufferOf(c)] = content[BufferOf(c)],
         Waited' \subseteq Waited, answers \subseteq answers',
         \A k \in Waited : k \in Waited' \/ \E a \in answers' : ~a.ok /\ a.at = k.at
  PROVE  Chunks' /\ CommandData' /\ StagedData' /\ MovedData'
<1>1. HostMemory /\ Commands /\ MovedData
  BY DEF Transfer, Moved
<1>2. Chunks' /\ CommandData' /\ StagedData' /\ UNCHANGED Kept
  BY KeptData
<1>3. /\ \A c : Offset(c)' = Offset(c) /\ BufferOf(c)' = BufferOf(c)
      /\ \A i : Payload(i)' = Payload(i)
      /\ \A c, i : InChunk(c, i)' <=> InChunk(c, i)
  BY <1>2, SamePlaces
<1>4. \A c \in Nat : \A i : Staged(c, i)' = Staged(c, i)
  BY <1>3 DEF Staged
<1>5. call.done \in Nat /\ call.done + 1 \in Nat
  <2>1. PICK d \in Nat : d = call.done
    BY <1>1, RunningTyped
  <2>2. d + 1 \in Nat
    OBVIOUS
  <2>3. QED
    BY <2>1, <2>2
<1>6. \A i : Arrived(i)' <=> Arrived(i)
  BY <1>3, <1>4, <1>5 DEF Arrived
<1>7. ASSUME NEW i, OnItsWay(i) PROVE OnItsWay(i)'
  <2>1. Outstanding' = Outstanding
    BY DEF Outstanding
  <2>2. CASE Refused(i)
    BY <2>1, <2>2 DEF OnItsWay, Refused
  <2>3. CASE \E k \in Waited : Covers(k, i)
    <3>1. PICK k \in Waited : Covers(k, i)
      BY <2>3
    <3>2. k.at \in Outstanding
      BY <1>1, WaitedFacts
    <3>3. CASE k \in Waited'
      BY <3>1, <3>3 DEF OnItsWay, Covers
    <3>4. CASE \E a \in answers' : ~a.ok /\ a.at = k.at
      BY <2>1, <3>1, <3>2, <3>4 DEF OnItsWay, Refused, Covers
    <3>5. QED
      BY <3>3, <3>4
  <2>4. QED
    BY <1>7, <2>2, <2>3 DEF OnItsWay
<1>8. Pushed' = Pushed /\ Offset(call.done)' = Offset(call.done)
  BY DEF Pushed, Offset
<1>9. MovedData'
  BY <1>1, <1>3, <1>6, <1>7, <1>8 DEF MovedData, Moving
<1>10. QED
  BY <1>2, <1>9

LEMMA CompleteData ==
  ASSUME Transfer, Moved, NEW q \in Queues, NEW ok \in BOOLEAN, Complete(q, ok)
  PROVE  Moved'
<1>1. HostMemory /\ Pushing /\ Commands /\ DataTypes /\ CommandTypes
  BY DEF Transfer, Moved, Commands
<1>2. PICK k \in CommandSet :
        /\ k \in ToSet(queue[q]) /\ call' = call /\ UNCHANGED Kept
        /\ Waited' \subseteq Waited /\ Waited \subseteq Waited' \cup {k}
        /\ \A p \in Queues : ToSet(queue'[p]) \subseteq ToSet(queue[p])
        /\ answers' = IF HasWaiter(k) THEN answers \cup {[at |-> k.at, ok |-> ok]} ELSE answers
        /\ HasWaiter(k) => k \in Waited /\ Moving
        /\ ~HasWaiter(k) => mem[k.buf] = "leaked" /\ k \notin Waited
        /\ IF ok THEN Move(k) ELSE UNCHANGED <<content, dram>>
  BY <1>1, CompleteFacts
<1>3. k.at + k.len <= MaxTotal /\ k.lo <= k.at /\ answers \subseteq answers'
  BY <1>1, <1>2 DEF DataTypes
<1>4. DataTypes'
  <2>1. content' \in [Frames -> [Pieces -> Data]] /\ dram' \in [Pieces -> Data]
    BY <1>1, <1>2, <1>3, MovesData DEF DataTypes
  <2>2. QED
    BY <1>1, <1>2, <2>1 DEF DataTypes
<1>5. CASE ~Moving
  BY <1>2, <1>4, <1>5, QuietData DEF Moving
<1>6. CASE Moving /\ ~HasWaiter(k)
  <2>1. ASSUME NEW c \in Nat PROVE content'[BufferOf(c)] = content[BufferOf(c)]
    <3>1. BufferOf(c) \in ToSet(call.bufs) /\ BufferOf(c) \in Frames
      BY <1>1, <1>6, RunningTyped, BufferTyped
    <3>2. mem[BufferOf(c)] = "mapped"
      BY <1>1, <3>1 DEF HostMemory, Mappings, Buffers
    <3>3. BufferOf(c) # k.buf
      BY <1>2, <1>6, <3>2
    <3>4. CASE ok
      BY <1>1, <1>2, <1>3, <3>1, <3>3, <3>4, MovesData
    <3>5. CASE ~ok
      BY <1>2, <3>5
    <3>6. QED
      BY <3>4, <3>5
  <2>2. UNCHANGED dram
    <3>1. CASE ok
      BY <1>1, <1>2, <1>3, <1>6, <3>1, MovesData DEF CommandSet
    <3>2. CASE ~ok
      BY <1>2, <3>2
    <3>3. QED
      BY <3>1, <3>2
  <2>3. \A m \in Waited : m \in Waited'
    BY <1>2, <1>6
  <2>4. Chunks' /\ CommandData' /\ StagedData' /\ MovedData'
    BY <1>2, <1>3, <1>6, <2>1, <2>2, <2>3, RejectedData
  <2>5. QED
    BY <1>4, <2>4 DEF Moved
<1>7. CASE HasWaiter(k) /\ call.stage = "restore"
  <2>1. call.error # "none"
    <3>1. k.at \in Outstanding
      BY <1>1, <1>2, <1>7, WaitedFacts
    <3>2. SUFFICES ASSUME call.error = "none" PROVE FALSE
      OBVIOUS
    <3>3. call.awaiting = <<>> /\ call.pending = <<>>
      BY <1>1, <1>7, <3>2 DEF Pushing
    <3>4. Outstanding = {}
      BY <3>3 DEF Outstanding, ToSet
    <3>5. QED
      BY <3>1, <3>4
  <2>2. ~Running'
    BY <1>2, <1>7 DEF Running
  <2>3. QED
    BY <1>2, <1>4, <2>1, <2>2 DEF Moved, Chunks, CommandData, StagedData, MovedData
<1>8. CASE HasWaiter(k) /\ call.stage # "restore"
  <2>1. Running /\ Moving /\ k \in Waited
    BY <1>2, <1>8 DEF Running, Moving
  <2>2. Chunks' /\ CommandData' /\ StagedData' /\ MovedData'
    <3>1. CASE ok /\ call.dir = "d2h"
      BY <1>2, <1>3, <2>1, <3>1, DownloadData
    <3>2. CASE ok /\ call.dir # "d2h"
      BY <1>2, <1>3, <2>1, <3>2, UploadData
    <3>3. CASE ~ok
      <4>1. \A m \in Waited : m \in Waited' \/ \E a \in answers' : ~a.ok /\ a.at = m.at
        BY <1>2, <1>8, <3>3
      <4>2. UNCHANGED <<content, dram>>
        BY <1>2, <3>3
      <4>3. QED
        BY <1>2, <1>3, <2>1, <4>1, <4>2, RejectedData
    <3>4. QED
      BY <3>1, <3>2, <3>3
  <2>3. QED
    BY <1>4, <2>2 DEF Moved
<1>9. QED
  BY <1>2, <1>5, <1>6, <1>7, <1>8

LEMMA StutterData ==
  ASSUME Moved, UNCHANGED vars
  PROVE  Moved'
<1>1. /\ UNCHANGED <<content, dram, queue, answers, call>>
  BY DEF vars
<1>2. DataTypes' /\ Waited' = Waited
  BY <1>1 DEF Moved, DataTypes, Waited, HasWaiter
<1>3. Chunks'
  BY ZenonT(30), <1>1 DEF Moved, Chunks, Running, ReadsAhead, Base, Offset, Older, Newer
<1>4. UNCHANGED Kept
  BY <1>1 DEF Kept
<1>5. /\ \A c : Offset(c)' = Offset(c) /\ BufferOf(c)' = BufferOf(c) /\ ChunkLen(c)' = ChunkLen(c)
      /\ \A i : Payload(i)' = Payload(i)
      /\ \A c, i : InChunk(c, i)' <=> InChunk(c, i)
      /\ \A c, i : Staged(c, i)' = Staged(c, i)
  BY <1>1, <1>4, SamePlaces
<1>6. CommandData'
  BY <1>1, <1>2, <1>5 DEF Moved, CommandData, Running, Covers
<1>7. StagedData'
  BY <1>1, <1>5 DEF Moved, StagedData, Running
<1>8. \A i : OnItsWay(i)' <=> OnItsWay(i)
  <2>1. Outstanding' = Outstanding
    BY <1>1 DEF Outstanding
  <2>2. QED
    BY <1>1, <1>2, <2>1 DEF OnItsWay, Refused, Covers
<1>9. \A i : Arrived(i)' <=> Arrived(i)
  BY <1>1, <1>5 DEF Arrived
<1>10. MovedData'
  <2>1. Pushed' = Pushed /\ Offset(call.done)' = Offset(call.done)
    BY <1>1 DEF Pushed, Offset
  <2>2. QED
    BY <1>1, <1>5, <1>8, <1>9, <2>1 DEF Moved, MovedData, Moving
<1>11. QED
  BY <1>2, <1>3, <1>6, <1>7, <1>10 DEF Moved

THEOREM DataInductive ==
  ASSUME OnlyLastRejected
  PROVE  IInv /\ [Next]_vars => IInv'
<1> SUFFICES ASSUME IInv, [Next]_vars PROVE IInv'
  OBVIOUS
<1>0. Transfer /\ Moved /\ HostMemory /\ Pushing /\ Commands /\ DataTypes
  BY DEF IInv, Transfer, Moved
<1>1. Transfer' /\ HostMemory' /\ Commands'
  BY <1>0, TransferInductive DEF Transfer
<1>2. CASE \/ \E h \in Halves : SetStagingCapacity(h)
           \/ \E f \in Frames, len \in PinnedSizes : AllocPinned(f, len)
           \/ DropPinned
           \/ \E dir \in {"h2d", "fill", "d2h"}, total \in 1 .. MaxTotal, q \in Queues : TakeStaging(dir, total, q)
           \/ TakeKeep
           \/ \E f \in Frames : TakeReplace(f)
           \/ TakeFails
           \/ Restore
  BY <1>0, <1>1, <1>2, BeginData DEF IInv
<1>3. ASSUME NEW dir \in {"h2d", "d2h"}, NEW q \in Queues, PinnedTransfer(dir, q) PROVE IInv'
  BY <1>0, <1>1, <1>3, PinnedTransferData DEF IInv
<1>4. CASE TakeDone
  BY <1>0, <1>1, <1>4, TakeDoneData DEF IInv
<1>5. CASE Produce
  BY <1>0, <1>1, <1>5, ProduceData DEF IInv
<1>6. CASE Push
  BY <1>0, <1>1, <1>6, PushData DEF IInv
<1>7. CASE PushFails \/ WaitFails
  BY <1>0, <1>1, <1>7, FailData DEF IInv
<1>8. CASE Drain
  BY <1>0, <1>1, <1>8, CollectData DEF IInv
<1>9. CASE Collect
  <2>1. call'.stage \in {"await", "restore"}
    BY <1>0, <1>9, CollectFields DEF HostMemory, Memory
  <2>2. QED
    BY <1>0, <1>1, <1>9, <2>1, FailData, CollectData DEF IInv
<1>10. CASE AwaitDone
  BY <1>0, <1>1, <1>10, AwaitDoneData DEF IInv
<1>11. ASSUME NEW q \in Queues, Perform(q) \/ Reject(q) PROVE IInv'
  <2>1. Complete(q, TRUE) \/ Complete(q, FALSE)
    BY <1>11 DEF Perform, Reject
  <2>2. QED
    BY <1>0, <1>1, <2>1, CompleteData DEF IInv
<1>12. CASE UNCHANGED vars
  BY <1>0, <1>1, <1>12, StutterData DEF IInv
<1>13. QED
  BY <1>2, <1>3, <1>4, <1>5, <1>6, <1>7, <1>8, <1>9, <1>10, <1>11, <1>12 DEF Next, Begin, Continue

LEMMA InitData == Init => IInv
<1> SUFFICES ASSUME Init PROVE IInv
  OBVIOUS
<1>1. Transfer
  BY InitTransfer
<1>2. /\ content = [f \in Frames |-> Nothing] /\ dram = Nothing /\ queue = [q \in Queues |-> <<>>]
      /\ call.stage = "idle" /\ call.dst = Nothing
  BY DEF Init, Idle
<1>3. \A q \in Queues : ToSet(queue[q]) = {}
  BY <1>2 DEF ToSet
<1>4. DataTypes
  BY <1>2, <1>3, NothingTyped DEF DataTypes
<1>5. ~Running /\ ~Moving
  BY <1>2 DEF Running, Moving
<1>6. QED
  BY <1>1, <1>4, <1>5 DEF IInv, Moved, Chunks, CommandData, StagedData, MovedData

\* The tags of a transfer are places within it.
LEMMA TagsTyped ==
  ASSUME Transfer
  PROVE  call.pending \in Seq(Pieces) /\ call.awaiting \in Seq(Pieces)
<1>1. HostMemory /\ Pushing /\ Fields
  BY DEF Transfer, HostMemory, Memory
<1>2. PICK s \in Seq(Nat), r \in Seq(Nat) : s = call.pending /\ r = call.awaiting
  BY <1>1 DEF Fields
<1>3. CASE Moving
  <2>1. call.total \in Nat /\ call.total <= MaxTotal /\ MaxTotal \in Nat
    BY <1>1, <1>3, RunningTyped, Typed
  <2>2. ASSUME NEW t \in Nat, t \in Outstanding PROVE t \in Pieces
    <3>1. t < call.total
      BY <1>1, <1>3, <2>2 DEF Pushing
    <3>2. t \in 0 .. MaxTotal - 1
      BY <2>1, <3>1
    <3>3. QED
      BY <3>2 DEF Pieces
  <2>3. \A i \in 1 .. Len(s) : s[i] \in Pieces
    <3>1. \A i \in 1 .. Len(s) : s[i] \in Nat /\ s[i] \in ToSet(s)
      BY <1>2 DEF ToSet
    <3>2. QED
      BY <1>2, <2>2, <3>1 DEF Outstanding
  <2>4. \A i \in 1 .. Len(r) : r[i] \in Pieces
    <3>1. \A i \in 1 .. Len(r) : r[i] \in Nat /\ r[i] \in ToSet(r)
      BY <1>2 DEF ToSet
    <3>2. QED
      BY <1>2, <2>2, <3>1 DEF Outstanding
  <2>5. s \in Seq(Pieces) /\ r \in Seq(Pieces)
    BY <2>3, <2>4
  <2>6. QED
    BY <1>2, <2>5
<1>4. CASE call.stage = "take"
  <2>1. call.pending = <<>> /\ call.awaiting = <<>>
    BY <1>1, <1>4 DEF HostMemory, Phases
  <2>2. QED
    BY <2>1
<1>5. CASE call.stage = "idle"
  <2>1. PICK x : call = [Idle EXCEPT !.x = x]
    BY <1>1, <1>5, IdleFields
  <2>2. call.pending = <<>> /\ call.awaiting = <<>>
    BY <2>1 DEF Idle
  <2>3. QED
    BY <2>2
<1>6. QED
  BY <1>1, <1>3, <1>4, <1>5 DEF Fields, Stages, Moving

\* A transfer that reports success has moved every piece to its place, however
\* the two buffers of `h2d_pipeline` and of the device-to-host one alternate: no
\* buffer is refilled before the device has read it, nor copied out before the
\* device has written it, and a fill leaves its pattern also where it staged
\* nothing.
THEOREM DataIntactAlways ==
  ASSUME OnlyLastRejected
  PROVE  Spec => []DataIntact
<1>1. IInv => DataIntact
  <2> SUFFICES ASSUME IInv PROVE DataIntact
    OBVIOUS
  <2>0. Transfer /\ HostMemory /\ Pushing /\ Commands /\ DataTypes /\ MovedData /\ Memory /\ Fields
    BY DEF IInv, Transfer, Moved, HostMemory, Memory
  <2>1. TypeOK
    <3>1. call.pending \in Seq(Pieces) /\ call.awaiting \in Seq(Pieces)
      BY <2>0, TagsTyped
    <3>2. /\ queue \in [Queues -> Seq([x : Transfers, dir : {"h2d", "d2h"}, buf : Frames,
                                      lo : Pieces, len : 1 .. MaxTotal, at : Pieces, last : BOOLEAN])]
          /\ answers \subseteq [at : Pieces, ok : BOOLEAN]
      BY <2>0 DEF Commands, CommandTypes, CommandSet
    <3>3. /\ half \in Halves /\ pool \in Seq(Frames) /\ pinned \in Frames \cup {None}
          /\ mem \in [Frames -> {"unmapped", "mapped", "leaked"}] /\ size \in [Frames -> Nat]
          /\ call.bufs \in Seq(Frames)
      BY <2>0 DEF Memory, Fields
    <3>4. /\ content \in [Frames -> [Pieces -> Data]] /\ dram \in [Pieces -> Data]
          /\ call.dst \in [Pieces -> Data]
      BY <2>0 DEF DataTypes
    <3>5. QED
      BY <3>1, <3>2, <3>3, <3>4 DEF TypeOK
  <2>2. ASSUME call.stage = "restore", call.error = "none", NEW i \in 0 .. call.total - 1
        PROVE  /\ call.dir = "h2d" => dram[i] = <<call.x, i>>
               /\ call.dir = "fill" => dram[i] = <<call.x, 0>>
               /\ call.dir = "d2h" => call.dst[i] = <<call.x, i>>
    <3>1. Moving
      BY <2>2 DEF Moving
    <3>2. PICK t \in Nat, p \in Nat, o \in Nat :
            t = call.total /\ p = Pushed /\ o = Offset(call.done) /\ t <= MaxTotal
      <4>1. call.total \in Nat /\ Pushed \in Nat /\ call.done \in Nat /\ call.total <= MaxTotal
        BY <2>0, <3>1, RunningTyped
      <4>2. Offset(call.done) \in Nat
        BY <2>0, <3>1, <4>1, RunningTyped
      <4>3. QED
        BY <4>1, <4>2
    <3>3. i \in Pieces /\ i < t /\ i \in Nat
      <4>1. i \in 0 .. MaxTotal - 1 /\ i < t /\ i \in Nat
        BY <2>2, <3>2, Typed
      <4>2. QED
        BY <4>1 DEF Pieces
    <3>4. p >= t /\ (call.dir = "d2h" => o >= t)
      BY <2>0, <2>2, <3>1, <3>2 DEF MovedData
    <3>5. ~OnItsWay(i)
      <4>1. call.awaiting = <<>> /\ call.pending = <<>>
        BY <2>0, <2>2 DEF Pushing
      <4>2. Outstanding = {}
        BY <4>1 DEF Outstanding, ToSet
      <4>3. \A k \in Waited : FALSE
        BY <2>0, <4>2, WaitedFacts
      <4>4. QED
        BY <4>2, <4>3 DEF OnItsWay, Refused
    <3>6. i < p /\ (call.dir = "d2h" => i < o)
      BY <3>2, <3>3, <3>4
    <3>7. call.dir # "d2h" => dram[i] = Payload(i)
      BY <2>0, <2>2, <3>1, <3>2, <3>3, <3>5, <3>6 DEF MovedData
    <3>8. call.dir = "d2h" => call.dst[i] = <<call.x, i>>
      BY <2>0, <2>2, <3>1, <3>2, <3>3, <3>6 DEF MovedData
    <3>9. QED
      BY <3>7, <3>8 DEF Payload
  <2>3. call.dir \in {"h2d", "fill", "d2h"}
    BY <2>0 DEF Fields
  <2>4. QED
    BY <2>1, <2>2, <2>3 DEF DataIntact
<1>2. Spec => []IInv
  BY InitData, DataInductive, PTL DEF Spec
<1>3. QED
  BY <1>1, <1>2, PTL
=============================================================================
