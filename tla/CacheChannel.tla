--------------------------- MODULE CacheChannel ---------------------------
(***************************************************************************)
(* The channel of two Minions over caches that software keeps coherent:    *)
(* the ping-pong kernel `channel_bench` with the cache operations of       *)
(* `cache.rs` it is written with.                                          *)
(*                                                                         *)
(* Each Minion has an L1, each shire an L2; the L3 and DDR are shared.  A  *)
(* store stays in the L1 of the Minion that made it until the line is      *)
(* flushed or replaced; a load is served by the first cache on the way to  *)
(* DDR that holds the line, however old its copy is.  Whole lines move,    *)
(* with every word of them.  Host DMA sees DDR only.                       *)
(*                                                                         *)
(* The kernel is launched up to MaxEpochs times over one buffer, with the  *)
(* cache levels of its arguments taken from Levels.  Each cache operation  *)
(* of the kernel is one step, as it ends in a TensorWait.                  *)
(***************************************************************************)
EXTENDS Integers, FiniteSets, FiniteSetsExt

CONSTANTS
  PayloadWords,     \* words of a message in each direction
  LineWords,        \* words of a cache line
  Iterations,       \* round trips of a launch
  MaxEpochs,        \* bound: launches
  MaxReplacements,  \* bound: lines the caches replace of their own accord
  Levels,           \* arguments: pairs of a write-back and an invalidation level
  None              \* a line that is not in a cache

ASSUME ChannelAssumption ==
  /\ PayloadWords \in Nat /\ Iterations \in Nat /\ MaxEpochs \in Nat
  /\ MaxReplacements \in Nat
  /\ LineWords \in Nat \ {0}
  /\ Levels \subseteq Nat \X Nat

VARIABLES
  copy,          \* what each cache holds of each line
  ddr,           \* the words of the buffer in DDR
  replaced,      \* how many lines were replaced so far
  sameShire,     \* whether the two Minions share an L2
  epoch,         \* the launch, and its arguments:
  writebackLevel, invalidateLevel,
  pc,            \* where each Minion is
  iteration, word,
  register,      \* the payload word the pong Minion is about to echo
  sent,          \* the last flag value a Minion stored in this launch
  errors, completed, status

memoryVars == <<copy, ddr, replaced>>
argVars == <<sameShire, epoch, writebackLevel, invalidateLevel>>
minionVars == <<pc, iteration, word, register, sent, errors, completed, status>>
vars == <<memoryVars, argVars, minionVars>>
-----------------------------------------------------------------------------
(***************************************************************************)
(* The buffer, in words.                                                   *)
(***************************************************************************)
NextLine(words) == ((words + LineWords - 1) \div LineWords) * LineWords

ForwardFlag == 0
ReplyFlag == LineWords
ForwardData == 2 * LineWords
\* Variant: the reply payload follows the forward payload at once.
ReplyDataPacked == ForwardData + PayloadWords
ReplyData == ForwardData + NextLine(PayloadWords)

Minions == {"ping", "pong"}
SendFlag(m) == IF m = "ping" THEN ForwardFlag ELSE ReplyFlag
SendData(m) == IF m = "ping" THEN ForwardData ELSE ReplyData
Peer(m) == IF m = "ping" THEN "pong" ELSE "ping"

Area(addr, len) == addr .. addr + len - 1
Flags == {ForwardFlag, ReplyFlag}
Payload(m) == Area(SendData(m), PayloadWords)
Words == Flags \cup Payload("ping") \cup Payload("pong")

LineOf(w) == w \div LineWords
\* `line_count`: the lines that cover an area, a partial first one included.
LinesOf(addr, len) == {LineOf(w) : w \in Area(addr, len)}
Lines == {LineOf(w) : w \in Words}
WordsOf(l) == {w \in Words : LineOf(w) = l}

ASSUME NoneAssumption ==
  \A l \in Lines : None \notin [data : [WordsOf(l) -> Int], dirty : BOOLEAN]

FlagValueEpochless(i) == i
\* (epoch << 32) | i
FlagValue(i) == epoch * (Iterations + 1) + i
\* Different for every launch, iteration and word, and never zero.
PayloadWord(i, w) == FlagValue(i) * (PayloadWords + 1) + w + 1
\* Bitwise complement.
Not(v) == -v - 1
-----------------------------------------------------------------------------
(***************************************************************************)
(* The caches.  The levels of a Minion are 0 (its L1), 1 and 2; DDR is     *)
(* level 3.                                                                *)
(***************************************************************************)
Cache(m, level) ==
  CASE level = 0 -> <<"L1", m>>
    [] level = 1 -> <<"L2", IF sameShire THEN "ping" ELSE m>>
    [] level = 2 -> <<"L3", "ping">>
Mem == 3
Caches == ({"L1", "L2"} \X Minions) \cup {<<"L3", "ping">>}

Holding(m, l, below) == {k \in 0 .. below - 1 : copy[Cache(m, k)][l] # None}
Dirty(m, l, below) == {k \in Holding(m, l, below) : copy[Cache(m, k)][l].dirty}

Line(data, dirty) == [data |-> data, dirty |-> dirty]
InDdr(l) == [w \in WordsOf(l) |-> ddr[w]]

\* What Minion m reads of line l.
Seen(m, l) ==
  IF Holding(m, l, Mem) = {} THEN InDdr(l)
  ELSE copy[Cache(m, Min(Holding(m, l, Mem)))][l].data

\* The line is brought into the caches it missed.
Filled(m, l) ==
  LET missed == IF Holding(m, l, Mem) = {} THEN 0 .. Mem - 1
                ELSE 0 .. Min(Holding(m, l, Mem)) - 1
  IN [c \in Caches |->
        IF \E k \in missed : c = Cache(m, k)
        THEN [copy[c] EXCEPT ![l] = Line(Seen(m, l), FALSE)] ELSE copy[c]]

Load(m, w) == copy' = Filled(m, LineOf(w)) /\ UNCHANGED <<ddr, replaced>>

Store(m, w, v) ==
  /\ copy' = [Filled(m, LineOf(w)) EXCEPT ![Cache(m, 0)][LineOf(w)] =
                Line([Seen(m, LineOf(w)) EXCEPT ![w] = v], TRUE)]
  /\ UNCHANGED <<ddr, replaced>>

\* The data `flush_va` or `evict_va` of Minion m writes to level dst: that of
\* the dirty copy nearest to the Minion.
Written(m, l, dst) == copy[Cache(m, Min(Dirty(m, l, dst)))][l].data

\* Cache c after the lines of ls are written back to level dst.
Flushed(m, ls, dst, c) ==
  [l \in Lines |->
     IF l \in ls /\ Dirty(m, l, dst) # {}
     THEN IF \E k \in Min(Dirty(m, l, dst)) .. dst - 1 : c = Cache(m, k)
          THEN Line(Written(m, l, dst), FALSE)
          ELSE IF dst < Mem /\ c = Cache(m, dst)
               THEN Line(Written(m, l, dst), TRUE) ELSE copy[c][l]
     ELSE copy[c][l]]

FlushedDdr(m, ls, dst) ==
  [w \in Words |->
     IF dst = Mem /\ LineOf(w) \in ls /\ Dirty(m, LineOf(w), dst) # {}
     THEN Written(m, LineOf(w), dst)[w] ELSE ddr[w]]

\* `cache_writeback_to`: the lines stay cached, clean.
WritebackTo(m, dst, ls) ==
  /\ copy' = [c \in Caches |-> Flushed(m, ls, dst, c)]
  /\ ddr' = FlushedDdr(m, ls, dst)
  /\ UNCHANGED replaced

\* `cache_invalidate_to`: the lines are written back and leave every cache of
\* the Minion below dst.
InvalidateTo(m, dst, ls) ==
  /\ copy' = [c \in Caches |->
                IF \E k \in 0 .. dst - 1 : c = Cache(m, k)
                THEN [l \in Lines |-> IF l \in ls THEN None ELSE copy[c][l]]
                ELSE Flushed(m, ls, dst, c)]
  /\ ddr' = FlushedDdr(m, ls, dst)
  /\ UNCHANGED replaced

\* A cache replaces a line of its own accord; a dirty one goes one level on.
Replace(m, k, l) ==
  /\ replaced < MaxReplacements
  /\ k \in Holding(m, l, Mem)
  /\ replaced' = replaced + 1
  /\ LET line == copy[Cache(m, k)][l]
         out == [copy EXCEPT ![Cache(m, k)][l] = None]
     IN /\ copy' = IF line.dirty /\ k + 1 < Mem
                   THEN [out EXCEPT ![Cache(m, k + 1)][l] = line] ELSE out
        /\ ddr' = [w \in Words |->
                     IF line.dirty /\ k + 1 = Mem /\ LineOf(w) = l
                     THEN line.data[w] ELSE ddr[w]]
  /\ UNCHANGED <<argVars, minionVars>>
-----------------------------------------------------------------------------
(***************************************************************************)
(* The kernel.                                                             *)
(***************************************************************************)
Init ==
  /\ copy = [c \in Caches |-> [l \in Lines |-> None]]
  /\ ddr = [w \in Words |-> 0]
  /\ replaced = 0
  /\ sameShire \in BOOLEAN
  /\ epoch = 0 /\ writebackLevel = Mem /\ invalidateLevel = Mem
  /\ pc = [m \in Minions |-> "returned"]
  /\ iteration = [m \in Minions |-> 0]
  /\ word = [m \in Minions |-> 0]
  /\ register = 0
  /\ sent = [m \in Minions |-> 0]
  /\ errors = [m \in Minions |-> 0]
  /\ completed = [m \in Minions |-> 0]
  /\ status = [m \in Minions |-> "none"]

\* The host uploads a zeroed buffer and launches the kernel; the caches may
\* still hold lines of an earlier launch.
Launch ==
  /\ \A m \in Minions : pc[m] = "returned"
  /\ epoch < MaxEpochs
  /\ epoch' = epoch + 1
  /\ \E level \in Levels : writebackLevel' = level[1] /\ invalidateLevel' = level[2]
  /\ ddr' = [w \in Words |-> 0]
  /\ pc' = [m \in Minions |-> "enter"]
  /\ iteration' = [m \in Minions |-> 0]
  /\ word' = [m \in Minions |-> 0]
  /\ register' = 0
  /\ sent' = [m \in Minions |-> 0]
  /\ errors' = [m \in Minions |-> 0]
  /\ completed' = [m \in Minions |-> 0]
  /\ status' = [m \in Minions |-> "none"]
  /\ UNCHANGED <<copy, replaced, sameShire>>

Goto(m, l) == pc' = [pc EXCEPT ![m] = l]

DestinationAny(level) == level \in 1 .. 3
\* `destination`: L2 is rejected for Minions that share none.
Destination(level) == level \in 1 .. 3 /\ (level = 1 => sameShire)

\* Variant: the loop runs up to and including the iteration after the last.
FollowingPastEnd(m, i) ==
  /\ iteration' = [iteration EXCEPT ![m] = i + 1]
  /\ word' = [word EXCEPT ![m] = 0]
  /\ Goto(m, IF i > Iterations THEN "retire"
             ELSE IF m = "pong" THEN "poll"
             ELSE IF PayloadWords > 0 THEN "fill" ELSE "flag")
\* What a Minion does after iteration i: the next one, or it retires.
Following(m, i) ==
  /\ iteration' = [iteration EXCEPT ![m] = i + 1]
  /\ word' = [word EXCEPT ![m] = 0]
  /\ Goto(m, IF i = Iterations THEN "retire"
             ELSE IF m = "pong" THEN "poll"
             ELSE IF PayloadWords > 0 THEN "fill" ELSE "flag")

\* `entry_point`: wrong arguments are reported in the header.
Enter(m) ==
  /\ pc[m] = "enter"
  /\ IF Destination(writebackLevel) /\ Destination(invalidateLevel)
     THEN /\ Following(m, 0)
          /\ status' = [status EXCEPT ![m] = "ok"]
     ELSE /\ Goto(m, "returned")
          /\ status' = [status EXCEPT ![m] = "bad arguments"]
          /\ UNCHANGED <<iteration, word>>
  /\ UNCHANGED <<memoryVars, argVars, sent, errors, completed, register>>

\* The ping Minion writes its payload, word by word.
Fill ==
  /\ pc["ping"] = "fill"
  /\ Store("ping", ForwardData + word["ping"], PayloadWord(iteration["ping"], word["ping"]))
  /\ word' = [word EXCEPT !["ping"] = (@ + 1) % PayloadWords]
  /\ Goto("ping", IF word["ping"] + 1 = PayloadWords THEN "publish" ELSE "fill")
  /\ UNCHANGED <<argVars, iteration, sent, errors, completed, status, register>>

PublishPayload(m) == WritebackTo(m, writebackLevel, LinesOf(SendData(m), PayloadWords))

\* `publish`: the payload is written back, ...
Publish(m) ==
  /\ pc[m] = "publish"
  /\ PublishPayload(m)
  /\ Goto(m, "flag")
  /\ UNCHANGED <<argVars, iteration, word, sent, errors, completed, status, register>>

\* ... then the flag is stored ...
RaiseFlag(m) ==
  /\ pc[m] = "flag"
  /\ Store(m, SendFlag(m), FlagValue(iteration[m]))
  /\ sent' = [sent EXCEPT ![m] = FlagValue(iteration[m])]
  /\ Goto(m, "publishflag")
  /\ UNCHANGED <<argVars, iteration, word, errors, completed, status, register>>

\* ... and written back.  The pong Minion has completed the iteration then.
PublishFlag(m) ==
  /\ pc[m] = "publishflag"
  /\ WritebackTo(m, writebackLevel, {LineOf(SendFlag(m))})
  /\ IF m = "ping"
     THEN Goto(m, "poll") /\ UNCHANGED <<iteration, word, completed>>
     ELSE /\ completed' = [completed EXCEPT ![m] = iteration[m]]
          /\ Following(m, iteration[m])
  /\ UNCHANGED <<argVars, sent, errors, status, register>>

\* Variant: the flag is read again without its line being invalidated.
RefreshFlagNever(m) == UNCHANGED memoryVars
RefreshFlag(m) == InvalidateTo(m, invalidateLevel, {LineOf(SendFlag(Peer(m)))})

\* `wait_for`: the flag's line is invalidated, ...
Poll(m) ==
  /\ pc[m] = "poll"
  /\ RefreshFlag(m)
  /\ Goto(m, "look")
  /\ UNCHANGED <<argVars, iteration, word, sent, errors, completed, status, register>>

Announced(m) ==
  LET flag == SendFlag(Peer(m)) IN Seen(m, LineOf(flag))[flag] = FlagValue(iteration[m])

\* ... and the flag is read; another value than the awaited one means another
\* try ...
Look(m) ==
  /\ pc[m] = "look"
  /\ Load(m, SendFlag(Peer(m)))
  /\ Goto(m, IF ~Announced(m) THEN "poll"
             ELSE IF PayloadWords > 0 THEN "refresh"
             ELSE IF m = "ping" THEN "complete" ELSE "flag")
  /\ UNCHANGED <<argVars, iteration, word, sent, errors, completed, status, register>>

\* ... or, when the time is up, the end of the exchange.
TimesOut(m) ==
  /\ pc[m] = "look"
  /\ Load(m, SendFlag(Peer(m)))
  /\ ~Announced(m)
  /\ Goto(m, "retire")
  /\ status' = [status EXCEPT ![m] = "timeout"]
  /\ UNCHANGED <<argVars, iteration, word, sent, errors, completed, register>>

\* Variant: the payload is read from whatever cache holds it.
RefreshPayloadNever(m) == UNCHANGED memoryVars
RefreshPayload(m) ==
  InvalidateTo(m, invalidateLevel, LinesOf(SendData(Peer(m)), PayloadWords))

\* `invalidate_received`
Refresh(m) ==
  /\ pc[m] = "refresh"
  /\ RefreshPayload(m)
  /\ Goto(m, "read")
  /\ UNCHANGED <<argVars, iteration, word, sent, errors, completed, status, register>>

Expected(m) ==
  LET v == PayloadWord(iteration[m], word[m]) IN IF m = "ping" THEN Not(v) ELSE v

\* A word of the payload is read and verified; the pong Minion stores its
\* complement next.
Read(m) ==
  LET w == SendData(Peer(m)) + word[m]
      value == Seen(m, LineOf(w))[w] IN
  /\ pc[m] = "read"
  /\ Load(m, w)
  /\ errors' = [errors EXCEPT ![m] = IF value = Expected(m) THEN @ ELSE @ + 1]
  /\ IF m = "ping"
     THEN /\ word' = [word EXCEPT ![m] = (@ + 1) % PayloadWords]
          /\ Goto(m, IF word[m] + 1 = PayloadWords THEN "complete" ELSE "read")
          /\ UNCHANGED register
     ELSE Goto(m, "echo") /\ register' = value /\ UNCHANGED word
  /\ UNCHANGED <<argVars, iteration, sent, completed, status>>

Echo ==
  /\ pc["pong"] = "echo"
  /\ Store("pong", ReplyData + word["pong"], Not(register))
  /\ register' = 0
  /\ word' = [word EXCEPT !["pong"] = (@ + 1) % PayloadWords]
  /\ Goto("pong", IF word["pong"] + 1 = PayloadWords THEN "publish" ELSE "read")
  /\ UNCHANGED <<argVars, iteration, sent, errors, completed, status>>

\* The ping Minion has its reply.
Complete ==
  /\ pc["ping"] = "complete"
  /\ completed' = [completed EXCEPT !["ping"] = iteration["ping"]]
  /\ Following("ping", iteration["ping"])
  /\ UNCHANGED <<memoryVars, argVars, sent, errors, status, register>>

RetirePayload(m) == WritebackTo(m, Mem, LinesOf(SendData(m), PayloadWords))

\* `retire`: the payload and then the flag are written back to DDR.
Retire(m) ==
  /\ pc[m] = "retire"
  /\ RetirePayload(m)
  /\ Goto(m, "retireflag")
  /\ UNCHANGED <<argVars, iteration, word, sent, errors, completed, status, register>>

\* The header, a line of its own in another buffer, is left to the host; the
\* Minion returns.
RetireFlag(m) ==
  /\ pc[m] = "retireflag"
  /\ WritebackTo(m, Mem, {LineOf(SendFlag(m))})
  /\ Goto(m, "returned")
  /\ UNCHANGED <<argVars, iteration, word, sent, errors, completed, status, register>>
-----------------------------------------------------------------------------
Step(m) ==
  \/ Enter(m) \/ Publish(m) \/ RaiseFlag(m) \/ PublishFlag(m)
  \/ Poll(m) \/ Look(m) \/ Refresh(m) \/ Read(m)
  \/ Retire(m) \/ RetireFlag(m)

Next ==
  \/ Launch
  \/ \E m \in Minions : Step(m) \/ TimesOut(m)
  \/ Fill \/ Complete \/ Echo
  \/ \E m \in Minions, k \in 0 .. Mem - 1, l \in Lines : Replace(m, k, l)

Spec == Init /\ [][Next]_vars

\* Both Minions execute; no wait need time out, and the host launches when it
\* likes.
Fairness ==
  /\ WF_vars(Step("ping") \/ Fill \/ Complete)
  /\ WF_vars(Step("pong") \/ Echo)

FairSpec == Spec /\ Fairness
-----------------------------------------------------------------------------
(***************************************************************************)
(* Properties.                                                             *)
(***************************************************************************)
CopyOf(l) == {None} \cup [data : [WordsOf(l) -> Int], dirty : BOOLEAN]

\* The caches hold whole lines of the buffer, and the Minions keep to the words
\* and iterations of their launch.
TypeOK ==
  /\ \A c \in Caches, l \in Lines : copy[c][l] \in CopyOf(l)
  /\ ddr \in [Words -> Int]
  /\ replaced \in 0 .. MaxReplacements
  /\ sameShire \in BOOLEAN
  /\ epoch \in 0 .. MaxEpochs
  /\ <<writebackLevel, invalidateLevel>> \in Levels \cup {<<Mem, Mem>>}
  /\ pc \in [Minions ->
       {"enter", "fill", "publish", "flag", "publishflag", "poll", "look", "refresh",
        "read", "echo", "complete", "retire", "retireflag", "returned"}]
  /\ iteration \in [Minions -> 0 .. Iterations + 1]
  /\ word \in [Minions -> 0 .. PayloadWords]
  /\ register \in Int
  /\ sent \in [Minions -> Nat]
  /\ errors \in [Minions -> Nat]
  /\ completed \in [Minions -> 0 .. Iterations]
  /\ status \in [Minions -> {"none", "ok", "timeout", "bad arguments"}]

\* Whoever sees a flag reads the payload it announces: no word of an earlier
\* message or launch is served from a cache or from DDR, at any pair of levels
\* the kernel accepts, after timeouts and over a buffer used before.
PayloadFresh == \A m \in Minions : errors[m] = 0

\* The Minions stay in step: a reply answers a message of this launch, and the
\* ping Minion has counted no iteration that was not answered.  A flag that a
\* cache kept from an earlier launch never satisfies a wait.
InStep ==
  /\ TypeOK
  /\ sent["pong"] <= sent["ping"]
  /\ completed["ping"] > 0 => FlagValue(completed["ping"]) <= sent["pong"]
  /\ completed["pong"] > 0 => FlagValue(completed["pong"]) <= sent["ping"]

Clean(l) == \A c \in Caches : copy[c][l] # None => ~copy[c][l].dirty

\* When a Minion has returned, DDR holds its last flag and payload, and no cache
\* has a dirty copy of its lines that could reach DDR later, over the data the
\* host puts there next.
RetiredToDdr ==
  \A m \in Minions :
    pc[m] = "returned" =>
      /\ \A w \in Payload(m) \cup {SendFlag(m)} : Clean(LineOf(w))
      /\ ddr[SendFlag(m)] = sent[m]
      /\ \A i \in 1 .. Iterations, k \in 0 .. PayloadWords - 1 :
           sent[m] = FlagValue(i) =>
             ddr[SendData(m) + k] =
               IF m = "ping" THEN PayloadWord(i, k) ELSE Not(PayloadWord(i, k))

\* An exchange that no wait times out of comes to its end: no Minion polls a
\* stale copy of a flag for ever.
Finishes ==
  \A m \in Minions :
    pc[m] = "enter" ~> pc[m] = "returned" \/ \E p \in Minions : status[p] = "timeout"
=============================================================================
