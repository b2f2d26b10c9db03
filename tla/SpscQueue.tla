----------------------------- MODULE SpscQueue ------------------------------
(***************************************************************************)
(* The lock-free single-producer single-consumer queue of                  *)
(* et-k-rs/src/bin/spsc.rs.  It uses no atomics, so the model gives the    *)
(* memory no more order than `fence rw, rw` buys where memory is coherent: *)
(* the stores of a hart between two fences reach memory in any order, and  *)
(* a load may take its value at any time after the last fence.  The kernel *)
(* is a probe: on the ET-SoC-1 fences alone pass nothing on, not even      *)
(* between the two threads of one minion.  So that stores ever reach the   *)
(* memory of both harts is no part of the specification; the property that *)
(* needs it has it as a premise.                                           *)
(***************************************************************************)
EXTENDS Integers, Sequences, SequencesExt

CONSTANTS
  N,            \* items to pass
  Cap,          \* slots of the ring
  IndexWidth,   \* head and tail count modulo this: 2^32 in the code
  MaxLaunches,  \* bound on how often the kernel is launched
  Reloads,      \* does the host load the image again before a launch?
  Unwritten     \* what the image holds in every shared word

ASSUME SpscAssumption ==
  /\ N \in Nat /\ Cap \in Nat \ {0} /\ MaxLaunches \in Nat \ {0}
  /\ IndexWidth \in Nat /\ IndexWidth > Cap /\ IndexWidth % Cap = 0
  /\ Reloads \in BOOLEAN

VARIABLES
  mem,     \* the shared words
  store,   \* stores of each hart that have not reached memory
  early,   \* a value of the slot the consumer may have loaded early, if any
  pc,      \* where each hart is
  tail,    \* the producer's index
  sent,    \* i in `produce`
  head,    \* the consumer's index
  got,     \* the values the consumer has read
  launches

vars == <<mem, store, early, pc, tail, sent, head, got, launches>>

Slots == 0 .. Cap - 1
\* The control words, each on a line of its own.
TailWord == -1
HeadWord == -2
GoWord == -3
Words == {TailWord, HeadWord, GoWord} \cup Slots
Indices == 0 .. IndexWidth - 1
Next1(index) == (index + 1) % IndexWidth
\* wrapping_sub
Distance(a, b) == (a - b) % IndexWidth

Harts == {"producer", "consumer"}
Payload(i) == i + 1

Init ==
  /\ mem = [w \in Words |-> Unwritten]
  /\ store = [h \in Harts |-> <<>>]
  /\ early = <<>>
  /\ pc = [producer |-> "init", consumer |-> "go"]
  /\ tail = 0
  /\ sent = 0
  /\ head = 0
  /\ got = <<>>
  /\ launches = 1

Goto(h, l) == pc' = [pc EXCEPT ![h] = l]
Store(h, writes) == store' = [store EXCEPT ![h] = @ \o writes]

\* What a hart reads: its own last store, else what has reached memory.
Read(h, w) ==
  LET own == {i \in DOMAIN store[h] : store[h][i].at = w}
  IN IF own = {} THEN mem[w] ELSE store[h][Max(own)].val
-----------------------------------------------------------------------------
(***************************************************************************)
(* Memory.                                                                 *)
(***************************************************************************)

\* Any store reaches memory, except past an earlier one to the same word.
Drain(h) ==
  \E i \in DOMAIN store[h] :
    /\ \A j \in 1 .. i - 1 : store[h][j].at # store[h][i].at
    /\ mem' = [mem EXCEPT ![store[h][i].at] = store[h][i].val]
    /\ store' = [store EXCEPT ![h] = RemoveAt(@, i)]
    /\ UNCHANGED <<early, pc, tail, sent, head, got, launches>>

\* `fence()`: everything before it is done before anything after it.
Fenced(h) == store[h] = <<>>

\* The load of the next slot takes its value before the code gets to it.
LoadEarly ==
  /\ pc.consumer = "wait"
  /\ early' = <<mem[head % Cap]>>
  /\ UNCHANGED <<mem, store, pc, tail, sent, head, got, launches>>
-----------------------------------------------------------------------------
(***************************************************************************)
(* `produce`.                                                              *)
(***************************************************************************)

ProducerInit ==
  /\ pc.producer = "init"
  /\ Store("producer", <<[at |-> TailWord, val |-> 0], [at |-> HeadWord, val |-> 0]>>)
  /\ Goto("producer", "release")
  /\ UNCHANGED <<mem, early, tail, sent, head, got, launches>>

\* Fence, then the sentinel.
ProducerGo ==
  /\ pc.producer = "release"
  /\ Fenced("producer")
  /\ Store("producer", <<[at |-> GoWord, val |-> 1]>>)
  /\ Goto("producer", "wait")
  /\ UNCHANGED <<mem, early, tail, sent, head, got, launches>>

\* Variant: one slot more than the ring has is filled.
HasRoomOffByOne(h) == Distance(tail, h) <= Cap
HasRoom(h) == Distance(tail, h) < Cap

\* There is room: fence, then the slot.
ProducerFill ==
  /\ pc.producer = "wait"
  /\ sent < N
  /\ HasRoom(Read("producer", HeadWord))
  /\ Fenced("producer")
  /\ Store("producer", <<[at |-> tail % Cap, val |-> Payload(sent)]>>)
  /\ Goto("producer", "publish")
  /\ UNCHANGED <<mem, early, tail, sent, head, got, launches>>

\* Variant: the index is advanced without a fence after the slot.
SlotVisibleNever == TRUE
SlotVisible == Fenced("producer")

\* Fence, then the new tail.
ProducerPublish ==
  /\ pc.producer = "publish"
  /\ SlotVisible
  /\ tail' = Next1(tail)
  /\ sent' = sent + 1
  /\ Store("producer", <<[at |-> TailWord, val |-> tail']>>)
  /\ Goto("producer", "wait")
  /\ UNCHANGED <<mem, early, head, got, launches>>

\* The loop ends with the last item, ...
ProducerEnd ==
  /\ pc.producer = "wait"
  /\ sent = N
  /\ Goto("producer", "done")
  /\ UNCHANGED <<mem, store, early, tail, sent, head, got, launches>>

\* ... or when a wait for room spins too long.
ProducerTimesOut ==
  /\ pc.producer = "wait"
  /\ sent < N
  /\ ~HasRoom(Read("producer", HeadWord))
  /\ Goto("producer", "done")
  /\ UNCHANGED <<mem, store, early, tail, sent, head, got, launches>>
-----------------------------------------------------------------------------
(***************************************************************************)
(* `consume`.  The reads of `go` and `tail` are spin loops, left when the  *)
(* value is there; the fence after each of them forgets the early load.    *)
(***************************************************************************)

ConsumerStart ==
  /\ pc.consumer = "go"
  /\ Read("consumer", GoWord) = 1
  /\ Goto("consumer", "wait")
  /\ UNCHANGED <<mem, store, early, tail, sent, head, got, launches>>

\* Variant: the slot is loaded without a fence after `tail`.
ForgetEarlyNever == UNCHANGED early
ForgetEarly == early' = <<>>

ConsumerObserve ==
  /\ pc.consumer = "wait"
  /\ Len(got) < N
  /\ Read("consumer", TailWord) # head
  /\ ForgetEarly
  /\ Goto("consumer", "fetch")
  /\ UNCHANGED <<mem, store, tail, sent, head, got, launches>>

ConsumerFetch ==
  /\ pc.consumer = "fetch"
  /\ \E v \in {Read("consumer", head % Cap)} \cup ToSet(early) : got' = Append(got, v)
  /\ early' = <<>>
  /\ Goto("consumer", "free")
  /\ UNCHANGED <<mem, store, tail, sent, head, launches>>

\* Variant: the producer is not told that the slot is free.
FreeSlotNever == UNCHANGED store
FreeSlot == Store("consumer", <<[at |-> HeadWord, val |-> Next1(head)]>>)

\* Fence, then the new head.
ConsumerFree ==
  /\ pc.consumer = "free"
  /\ Fenced("consumer")
  /\ head' = Next1(head)
  /\ FreeSlot
  /\ Goto("consumer", "wait")
  /\ UNCHANGED <<mem, early, tail, sent, got, launches>>

ConsumerEnd ==
  /\ pc.consumer = "wait"
  /\ Len(got) = N
  /\ Goto("consumer", "done")
  /\ UNCHANGED <<mem, store, early, tail, sent, head, got, launches>>

\* The wait for the sentinel or for an item spins too long.
ConsumerTimesOut ==
  /\ \/ pc.consumer = "go" /\ Read("consumer", GoWord) # 1
     \/ pc.consumer = "wait" /\ Len(got) < N /\ Read("consumer", TailWord) = head
  /\ Goto("consumer", "done")
  /\ UNCHANGED <<mem, store, early, tail, sent, head, got, launches>>
-----------------------------------------------------------------------------
\* The kernel is launched again: the shared words are data of the image and keep
\* what the last launch left there, unless the image is loaded again.
Relaunch ==
  /\ launches < MaxLaunches
  /\ \A h \in Harts : pc[h] = "done" /\ Fenced(h)
  /\ launches' = launches + 1
  /\ mem' = IF Reloads THEN [w \in Words |-> Unwritten] ELSE mem
  /\ pc' = [producer |-> "init", consumer |-> "go"]
  /\ tail' = 0 /\ sent' = 0 /\ head' = 0 /\ got' = <<>> /\ early' = <<>>
  /\ UNCHANGED store

Producer == ProducerInit \/ ProducerGo \/ ProducerFill \/ ProducerPublish \/ ProducerEnd
Consumer == ConsumerStart \/ ConsumerObserve \/ ConsumerFetch \/ ConsumerFree \/ ConsumerEnd

Next ==
  \/ Producer \/ ProducerTimesOut
  \/ Consumer \/ ConsumerTimesOut \/ LoadEarly
  \/ \E h \in Harts : Drain(h)
  \/ Relaunch

Spec == Init /\ [][Next]_vars

\* Both harts run, and no wait need time out.  Nothing is asked of the memory.
FairSpec == Spec /\ WF_vars(Producer) /\ WF_vars(Consumer)

\* What coherent memory does and the ET-SoC-1 does not: in the end every store
\* reaches memory both harts see.
CoherentMemory == \A h \in Harts : WF_vars(Drain(h))
-----------------------------------------------------------------------------
(***************************************************************************)
(* Properties.                                                             *)
(***************************************************************************)

Values == {Unwritten} \cup (0 .. N) \cup Indices

\* Memory and the stores on their way to it hold indices and items only, and
\* neither hart handles more items than the run has.
TypeOK ==
  /\ mem \in [Words -> Values]
  /\ \A h \in Harts : \A s \in ToSet(store[h]) : s.at \in Words /\ s.val \in Values
  /\ ToSet(early) \cup ToSet(got) \subseteq Values
  /\ tail \in Indices /\ head \in Indices
  /\ sent \in 0 .. N /\ Len(got) \in 0 .. N
  /\ launches \in 1 .. MaxLaunches

\* The consumer reads what the producer wrote, in order, each item once: no slot
\* is read before it is written or after it is filled again, also when the
\* indices wrap; and indices keep to their width.
InOrder == TypeOK /\ \A i \in 1 .. Len(got) : got[i] = Payload(i - 1)

CutShort ==
  \/ pc.producer = "done" /\ sent < N
  \/ pc.consumer = "done" /\ Len(got) < N

\* Where memory is coherent, every launch comes to its end though no wait is cut
\* short: neither loop is left waiting for an index the other has published.
\* Where it is not, the waits of `produce` and `consume` may run into SPIN_MAX.
Finishes == CoherentMemory => []<>(CutShort \/ \A h \in Harts : pc[h] = "done")

\* The queue as a bounded FIFO: what memory's `tail` has published and the
\* consumer has not read.
InFlight ==
  LET next == IF pc.consumer = "free" THEN Next1(head) ELSE head
  IN IF mem[TailWord] = Unwritten THEN <<>>
     ELSE [i \in 1 .. Distance(mem[TailWord], next) |-> Payload(Len(got) + i - 1)]

Fifo == INSTANCE BoundedFifo WITH queue <- InFlight, received <- got

\* Stores, fences and wrapping indices together make a bounded FIFO.
ImplementsFifo == Fifo!Spec
=============================================================================
