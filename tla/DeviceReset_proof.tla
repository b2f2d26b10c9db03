------------------------- MODULE DeviceReset_proof -------------------------
(***************************************************************************)
(* Proofs about DeviceReset, for every number of commands, queues, entries *)
(* and workers: types, the reasons for which calls fail, what reset_device *)
(* returns, and the command channel across handles.                        *)
(***************************************************************************)
EXTENDS DeviceReset, TLAPS

Started(c) == status[c] # "unused"

\* The host thread is in a call only with a handle, and the command of that call
\* is its own: being pushed, or submitted and not parked.
CallConsistent ==
  /\ call.op = "none" => call = NoCall
  /\ ~HasHandle => call.op = "none"
  /\ call.op = "push" => status[call.cmd] = "pushing"
  /\ call.op = "wait" => status[call.cmd] = "submitted" /\ call.cmd \notin parked
  /\ call.op # "none" => call.cmd \in Commands \ gone
  /\ call.late => call.cmd \in excused
  /\ \A c \in Commands : status[c] = "pushing" => call.op = "push" /\ call.cmd = c

\* Whatever was begun with a handle that is closed is gone, and the tags of a
\* handle are distinct.
TagsDistinct ==
  /\ \A c \in gone : Started(c)
  /\ ~HasHandle => \A c \in Commands : Started(c) => c \in gone
  /\ \A c \in Commands \ gone : Started(c) => tagOf[c] < issued
  /\ \A c, d \in Commands \ gone : Started(c) /\ Started(d) /\ tagOf[c] = tagOf[d] => c = d

\* A command stands in one place of one submission queue, or the firmware works
\* on it, until it is answered; what is in a completion queue or parked has been.
QueuesConsistent ==
  /\ \A q, r \in Sqs : \A m \in 1 .. Len(sq[q]), n \in 1 .. Len(sq[r]) :
       sq[q][m] = sq[r][n] => q = r /\ m = n
  /\ \A q \in Sqs : \A m \in 1 .. Len(sq[q]) :
       sq[q][m] \notin working \cup answered /\ status[sq[q][m]] \in {"submitted", "givenUp"}
  /\ \A c \in working : c \notin answered /\ status[c] \in {"submitted", "givenUp"}
  /\ \A i \in Cqs : \A m \in 1 .. Len(cq[i]) : cq[i][m] \in answered
  /\ parked \subseteq answered
  /\ \A c \in answered : status[c] \in {"submitted", "collected", "givenUp"}

\* With a handle, the queues hold nothing of an earlier one.
QueuesCurrent ==
  HasHandle =>
    /\ \A q \in Sqs : \A m \in 1 .. Len(sq[q]) : sq[q][m] \notin gone
    /\ working \cap gone = {}
    /\ \A i \in Cqs : \A m \in 1 .. Len(cq[i]) : cq[i][m] \notin gone

\* How far the restart is while reset_device sends, sleeps and queries.
ResetConsistent ==
  /\ "host" \in opsFds => reset \in {"none", "query"}
  /\ HasHandle \/ reset = "send" => firmware = "up"
  /\ reset = "query" => firmware \in {"starting", "up"}
  /\ reset \in {"sleep", "query"} /\ firmware = "up" => booted /\ Quiet
  /\ firmware \in {"down", "starting"} => Quiet

IInv ==
  /\ FailsForAReason
  /\ CallConsistent
  /\ TagsDistinct
  /\ QueuesConsistent
  /\ QueuesCurrent
  /\ ResetConsistent
-----------------------------------------------------------------------------
(***************************************************************************)
(* Sequences.                                                              *)
(***************************************************************************)

\* An append keeps the entries and adds one at the end.
LEMMA Appended ==
  ASSUME NEW S, NEW s \in Seq(S), NEW e \in S
  PROVE  /\ Append(s, e) \in Seq(S)
         /\ Len(Append(s, e)) = Len(s) + 1
         /\ \A m \in 1 .. Len(s) : Append(s, e)[m] = s[m]
         /\ Append(s, e)[Len(s) + 1] = e
  OBVIOUS

\* What is left after the head is taken are the other entries, one place ahead.
LEMMA Popped ==
  ASSUME NEW S, NEW s \in Seq(S), s # <<>>
  PROVE  /\ Tail(s) \in Seq(S)
         /\ Head(s) = s[1] /\ Head(s) \in S
         /\ Len(s) \in Nat /\ Len(s) >= 1
         /\ Len(Tail(s)) = Len(s) - 1
         /\ \A m \in 1 .. Len(Tail(s)) : Tail(s)[m] = s[m + 1]
  OBVIOUS

\* There is a first queue, and the sizes are numbers.
LEMMA Sizes ==
  /\ 0 \in Sqs /\ SqCap \in Nat /\ CqCap \in Nat
  /\ NoCall \in [op : Ops, cmd : Commands \cup {None}, queue : Sqs,
                  timed : BOOLEAN, late : BOOLEAN]
<1>1. 0 \in Sqs /\ SqCap \in Nat /\ CqCap \in Nat
  BY DriverQueuesAssumption DEF Sqs
<1>2. QED
  BY <1>1 DEF NoCall, Ops
-----------------------------------------------------------------------------
(***************************************************************************)
(* The host's steps change nothing of the node, and have a handle.         *)
(***************************************************************************)

\* With a handle the firmware is up and no reset runs, whatever the queues hold.
LEMMA HostKeepsNode ==
  ASSUME IInv, HasHandle, UNCHANGED nodeVars
  PROVE  ResetConsistent' /\ HasHandle'
  BY DEF IInv, ResetConsistent, HasHandle, nodeVars

\* StartPush takes the next tag, which no command of this handle has.
LEMMA StartPushStep ==
  ASSUME IInv, HasHandle, UNCHANGED nodeVars,
         NEW c \in Commands, NEW q \in Sqs, StartPush(c, q)
  PROVE  IInv'
<1> USE DEF StartPush, Numbered, rings, nodeVars
<1>1. TypeOK'
  BY DEF IInv, FailsForAReason, TypeOK, Ops, Statuses, TagsDistinct, Started
<1>2. FailsForAReason'
  BY <1>1 DEF IInv, FailsForAReason, TypeOK
<1>3. CallConsistent'
  BY HostKeepsNode DEF IInv, FailsForAReason, TypeOK, CallConsistent, NoCall, TagsDistinct, Started
<1>4. TagsDistinct'
  BY HostKeepsNode DEF IInv, FailsForAReason, TypeOK, TagsDistinct, Started
<1>5. QueuesConsistent'
  BY DEF IInv, FailsForAReason, TypeOK, QueuesConsistent
<1>6. QueuesCurrent'
  BY HostKeepsNode DEF IInv, QueuesCurrent
<1>7. QED
  BY <1>2, <1>3, <1>4, <1>5, <1>6, HostKeepsNode DEF IInv
\* push_sq queues the command.
LEMMA PushSqStep ==
  ASSUME IInv, HasHandle, UNCHANGED nodeVars, PushSq
  PROVE  IInv'
<1> USE DEF PushSq, Return, HasSpace, nodeVars
<1>1. TypeOK'
  <2>1. sq[call.queue] \in Seq(Commands) /\ call.cmd \in Commands /\ call.queue \in Sqs
    BY DEF IInv, FailsForAReason, TypeOK, CallConsistent
  <2>2. sq' \in [Sqs -> Seq(Commands)] /\ \A q \in Sqs : Len(sq'[q]) <= SqCap
    BY <2>1, Appended, Sizes DEF IInv, FailsForAReason, TypeOK
  <2>3. QED
    BY <2>1, <2>2, Sizes DEF IInv, FailsForAReason, TypeOK, Statuses, CallConsistent
<1>2. FailsForAReason'
  BY <1>1 DEF IInv, FailsForAReason, TypeOK, CallConsistent
<1>3. CallConsistent'
  BY HostKeepsNode DEF IInv, FailsForAReason, TypeOK, CallConsistent, NoCall
<1>4. TagsDistinct'
  BY HostKeepsNode DEF IInv, FailsForAReason, TypeOK, CallConsistent, TagsDistinct, Started
<1>5. QueuesConsistent'
  <2>1. sq[call.queue] \in Seq(Commands) /\ call.cmd \in Commands /\ call.queue \in Sqs
    BY DEF IInv, FailsForAReason, TypeOK, CallConsistent
  <2>2. call.cmd \notin answered \cup working /\ status[call.cmd] = "pushing"
    BY DEF IInv, FailsForAReason, TypeOK, CallConsistent, QueuesConsistent
  <2>3. \A q \in Sqs : \A m \in 1 .. Len(sq[q]) : sq[q][m] # call.cmd
    BY <2>2 DEF QueuesConsistent, IInv
  <2> DEFINE p == call.queue
             k == Len(sq[p]) + 1
  <2>4. /\ \A q \in Sqs : q # p => sq'[q] = sq[q]
        /\ Len(sq'[p]) = k /\ k \in Nat /\ sq'[p][k] = call.cmd
        /\ \A m \in 1 .. k - 1 : sq'[p][m] = sq[p][m]
    BY <2>1, Appended DEF IInv, FailsForAReason, TypeOK
  <2>5. ASSUME NEW q \in Sqs, NEW r \in Sqs, NEW m \in 1 .. Len(sq'[q]), NEW n \in 1 .. Len(sq'[r]),
               sq'[q][m] = sq'[r][n]
        PROVE  q = r /\ m = n
    <3> HIDE DEF p, k
    <3>1. CASE q = p /\ m = k
      BY <2>3, <2>4, <2>5, <3>1
    <3>2. CASE r = p /\ n = k
      BY <2>3, <2>4, <2>5, <3>2
    <3>3. CASE ~(q = p /\ m = k) /\ ~(r = p /\ n = k)
      <4>1. m \in 1 .. Len(sq[q]) /\ n \in 1 .. Len(sq[r]) /\ sq[q][m] = sq[r][n]
        BY <2>4, <2>5, <3>3 DEF k, p
      <4>2. QED
        BY <4>1 DEF IInv, QueuesConsistent
    <3>4. QED
      BY <3>1, <3>2, <3>3
  <2>6. ASSUME NEW q \in Sqs, NEW m \in 1 .. Len(sq'[q])
        PROVE  /\ sq'[q][m] \notin working' \cup answered'
               /\ status'[sq'[q][m]] \in {"submitted", "givenUp"}
    <3>1. CASE q = p /\ m = k
      BY <2>1, <2>2, <2>4, <3>1 DEF IInv, FailsForAReason, TypeOK
    <3>2. CASE ~(q = p /\ m = k)
      BY <2>1, <2>2, <2>4, <3>2 DEF IInv, FailsForAReason, TypeOK, QueuesConsistent
    <3>3. QED
      BY <3>1, <3>2
  <2>7. /\ \A c \in working : c \notin answered /\ status'[c] \in {"submitted", "givenUp"}
        /\ \A c \in answered : status'[c] \in {"submitted", "collected", "givenUp"}
    BY <2>1, <2>2 DEF IInv, FailsForAReason, TypeOK, QueuesConsistent
  <2>8. QED
    BY <2>5, <2>6, <2>7 DEF IInv, QueuesConsistent
<1>6. QueuesCurrent'
  <2>1. sq[call.queue] \in Seq(Commands) /\ call.cmd \in Commands \ gone /\ call.queue \in Sqs
    BY DEF IInv, FailsForAReason, TypeOK, CallConsistent
  <2>2. QED
    BY <2>1, Appended, HostKeepsNode DEF IInv, FailsForAReason, TypeOK, QueuesCurrent
<1>7. QED
  BY <1>2, <1>3, <1>4, <1>5, <1>6, HostKeepsNode DEF IInv
\* A round of a loop that ends the call in failure or leaves it as it is.
LEMMA GiveUpStep ==
  ASSUME IInv, HasHandle, UNCHANGED nodeVars, call.op # "none",
         UNCHANGED <<backend, rings, issued, tagOf, parked, delivered, gone>>,
         excused \subseteq excused', excused' \subseteq excused \cup {call.cmd},
         \/ Return(Failed) /\ call.cmd \in excused'
         \/ Stay
  PROVE  IInv'
<1> USE DEF rings, nodeVars
<1>1. CASE Stay
  <2>1. FailsForAReason'
    BY <1>1 DEF Stay, IInv, FailsForAReason, TypeOK, CallConsistent
  <2>2. CallConsistent' /\ TagsDistinct'
    BY <1>1, HostKeepsNode DEF Stay, IInv, CallConsistent, TagsDistinct, Started
  <2>3. QueuesConsistent' /\ QueuesCurrent'
    BY <1>1, HostKeepsNode DEF Stay, IInv, QueuesConsistent, QueuesCurrent
  <2>4. QED
    BY <2>1, <2>2, <2>3, HostKeepsNode DEF IInv
<1>2. CASE Return(Failed) /\ call.cmd \in excused'
  <2>1. /\ call.cmd \in Commands \ gone
        /\ \/ status[call.cmd] = "pushing" /\ Failed = "refused"
           \/ status[call.cmd] = "submitted" /\ call.cmd \notin parked /\ Failed = "givenUp"
    BY DEF IInv, FailsForAReason, TypeOK, CallConsistent, Failed, Ops
  <2>2. call' = NoCall /\ status' = [status EXCEPT ![call.cmd] = Failed]
    BY <1>2 DEF Return
  <2>3. TypeOK'
    BY <2>1, <2>2, Sizes DEF IInv, FailsForAReason, TypeOK, Statuses
  <2>4. FailsForAReason'
    BY <1>2, <2>1, <2>2, <2>3 DEF IInv, FailsForAReason, TypeOK
  <2>5. CallConsistent'
    BY <2>1, <2>2, HostKeepsNode DEF IInv, FailsForAReason, TypeOK, CallConsistent, NoCall
  <2>6. TagsDistinct'
    BY <2>1, <2>2, HostKeepsNode DEF IInv, FailsForAReason, TypeOK, TagsDistinct, Started
  <2>7. QueuesConsistent'
    BY <2>1, <2>2 DEF IInv, FailsForAReason, TypeOK, QueuesConsistent
  <2>8. QueuesCurrent'
    BY HostKeepsNode DEF IInv, QueuesCurrent
  <2>9. QED
    BY <2>4, <2>5, <2>6, <2>7, <2>8, HostKeepsNode DEF IInv
<1>3. QED
  BY <1>1, <1>2

\* A full queue, empty ones, a signal and an error end the call or change nothing.
LEMMA RoundInVainStep ==
  ASSUME IInv, HasHandle, UNCHANGED nodeVars,
         SqFull \/ CqsEmpty \/ \E outcome \in {"failed", "interrupted"} : SystemCall(outcome)
  PROVE  IInv'
<1>1. CASE SqFull \/ CqsEmpty
  BY <1>1, GiveUpStep DEF SqFull, CqsEmpty, GiveUpWhenLate, IInv, CallConsistent
<1>2. CASE \E outcome \in {"failed", "interrupted"} : SystemCall(outcome)
  BY <1>2, GiveUpStep DEF SystemCall, Fatal
<1>3. QED
  BY <1>1, <1>2

\* The time of a call runs out.
LEMMA DeadlineStep ==
  ASSUME IInv, HasHandle, UNCHANGED nodeVars, Deadline
  PROVE  IInv'
<1> USE DEF Deadline, rings, nodeVars
<1>1. TypeOK'
  <2>1. call.op # "none"
    BY DEF IInv, CallConsistent, NoCall
  <2>2. QED
    BY <2>1 DEF IInv, FailsForAReason, TypeOK, CallConsistent
<1>2. FailsForAReason'
  BY <1>1 DEF IInv, FailsForAReason, TypeOK
<1>3. CallConsistent'
  <2>1. call.op # "none"
    BY DEF IInv, CallConsistent, NoCall
  <2>2. QED
    BY <2>1, HostKeepsNode DEF IInv, FailsForAReason, TypeOK, CallConsistent
<1>4. TagsDistinct'
  BY HostKeepsNode DEF IInv, TagsDistinct, Started
<1>5. QueuesConsistent'
  BY DEF IInv, QueuesConsistent
<1>6. QueuesCurrent'
  BY HostKeepsNode DEF IInv, QueuesCurrent
<1>7. QED
  BY <1>2, <1>3, <1>4, <1>5, <1>6, HostKeepsNode DEF IInv

\* A wait begins: no response parked is its own.
LEMMA StartWaitStep ==
  ASSUME IInv, HasHandle, UNCHANGED nodeVars, 
         NEW c \in Commands, NEW timed \in BOOLEAN, StartWait(c, timed)
  PROVE  IInv'
<1> USE DEF StartWait, rings, handle, nodeVars
<1>1. TypeOK'
  BY Sizes DEF IInv, FailsForAReason, TypeOK, Ops
<1>2. FailsForAReason'
  BY <1>1 DEF IInv, FailsForAReason, TypeOK
<1>3. CallConsistent'
  BY HostKeepsNode DEF IInv, FailsForAReason, TypeOK, CallConsistent, NoCall, Claims
<1>4. TagsDistinct'
  BY HostKeepsNode DEF IInv, TagsDistinct, Started
<1>5. QueuesConsistent'
  BY DEF IInv, QueuesConsistent
<1>6. QueuesCurrent'
  BY HostKeepsNode DEF IInv, QueuesCurrent
<1>7. QED
  BY <1>2, <1>3, <1>4, <1>5, <1>6, HostKeepsNode DEF IInv

\* A response found parked is that of the command itself.
LEMMA CollectParkedStep ==
  ASSUME IInv, HasHandle, UNCHANGED nodeVars, NEW c \in Commands, CollectParked(c)
  PROVE  IInv'
<1> USE DEF CollectParked, Deliver, rings, nodeVars
<1>1. TypeOK'
  <2>1. c \in parked /\ parked' = parked \ {c}
    BY DEF IInv, FailsForAReason, TypeOK, TagsDistinct, Started, Claims
  <2>2. delivered' \in [Commands -> Commands \cup {None}]
    BY DEF IInv, FailsForAReason, TypeOK
  <2>3. QED
    BY <2>1, <2>2 DEF IInv, FailsForAReason, TypeOK, Statuses
<1>2. FailsForAReason'
  BY <1>1 DEF IInv, FailsForAReason, TypeOK
<1>3. CallConsistent'
  BY HostKeepsNode DEF IInv, FailsForAReason, TypeOK, CallConsistent, NoCall
<1>4. TagsDistinct'
  BY HostKeepsNode DEF IInv, FailsForAReason, TypeOK, TagsDistinct, Started
<1>5. QueuesConsistent'
  <2>1. c \in parked
    BY DEF IInv, FailsForAReason, TypeOK, TagsDistinct, Started, Claims
  <2>2. QED
    BY <2>1 DEF IInv, FailsForAReason, TypeOK, QueuesConsistent
<1>6. QueuesCurrent'
  BY HostKeepsNode DEF IInv, QueuesCurrent
<1>7. QED
  BY <1>2, <1>3, <1>4, <1>5, <1>6, HostKeepsNode DEF IInv
\* A response is popped and is the wait's own, or lost and ends it, or another's.
LEMMA PopCqStep ==
  ASSUME IInv, HasHandle, UNCHANGED nodeVars, PopCq
  PROVE  IInv'
<1> USE DEF nodeVars
<1>1. PICK i \in Readable :
        /\ cq' = [cq EXCEPT ![i] = Tail(@)]
        /\ LET d == Head(cq[i])
           IN \/ /\ Lost(d) /\ Return("givenUp")
                 /\ excused' = excused \cup {call.cmd}
                 /\ UNCHANGED <<parked, delivered>>
              \/ /\ Claims(call.cmd, d) /\ Return("collected")
                 /\ Deliver(call.cmd, d)
                 /\ UNCHANGED <<parked, excused>>
              \/ /\ ~Claims(call.cmd, d) /\ Park(d)
                 /\ UNCHANGED <<call, status, delivered, excused>>
  BY DEF PopCq
<1> DEFINE d == Head(cq[i])
<1>2. /\ i \in Cqs /\ cq[i] \in Seq(Commands) /\ cq[i] # <<>>
      /\ d \in Commands \ gone /\ d \in answered
  <2>1. i \in Cqs /\ cq[i] \in Seq(Commands) /\ cq[i] # <<>>
    BY DEF Readable, IInv, FailsForAReason, TypeOK
  <2>2. d = cq[i][1] /\ d \in Commands /\ 1 \in 1 .. Len(cq[i])
    BY <2>1, Popped
  <2>3. QED
    BY <2>1, <2>2 DEF IInv, QueuesConsistent, QueuesCurrent
<1>3. /\ call.op = "wait" /\ call.cmd \in Commands \ gone
      /\ status[call.cmd] = "submitted" /\ call.cmd \notin parked
      /\ UNCHANGED <<backend, sq, working, answered, issued, tagOf, gone>>
  BY DEF PopCq, IInv, CallConsistent
<1>4. /\ cq' \in [Cqs -> Seq(Commands)]
      /\ \A j \in Cqs : Len(cq'[j]) <= CqCap
      /\ \A j \in Cqs : \A m \in 1 .. Len(cq'[j]) :
           cq'[j][m] \in answered /\ cq'[j][m] \notin gone
  <2>1. ASSUME NEW j \in Cqs
        PROVE  /\ cq'[j] \in Seq(Commands) /\ Len(cq'[j]) <= CqCap
               /\ \A m \in 1 .. Len(cq'[j]) : cq'[j][m] \in answered /\ cq'[j][m] \notin gone
    <3> HIDE DEF d
    <3>1. cq[j] \in Seq(Commands) /\ Len(cq[j]) <= CqCap
      BY DEF IInv, FailsForAReason, TypeOK
    <3>2. \A m \in 1 .. Len(cq[j]) : cq[j][m] \in answered /\ cq[j][m] \notin gone
      BY DEF IInv, QueuesConsistent, QueuesCurrent
    <3>3. cq'[j] = IF j = i THEN Tail(cq[i]) ELSE cq[j]
      BY <1>1 DEF IInv, FailsForAReason, TypeOK
    <3>4. CASE j = i
      <4>1. /\ Tail(cq[i]) \in Seq(Commands) /\ Len(Tail(cq[i])) <= CqCap
            /\ \A m \in 1 .. Len(Tail(cq[i])) :
                 m + 1 \in 1 .. Len(cq[i]) /\ Tail(cq[i])[m] = cq[i][m + 1]
        BY <1>2, <3>1, <3>4, Popped, Sizes
      <4>2. QED
        BY <3>2, <3>3, <3>4, <4>1
    <3>5. CASE j # i
      BY <3>1, <3>2, <3>3, <3>5
    <3>6. QED
      BY <3>4, <3>5
  <2>2. QED
    BY <1>1, <2>1 DEF IInv, FailsForAReason, TypeOK
<1>5. TagsDistinct => (Claims(call.cmd, d) <=> d = call.cmd)
  BY <1>2, <1>3 DEF TagsDistinct, Started, Claims, IInv, QueuesConsistent
<1> HIDE DEF d
<1>6. CASE Return("givenUp") /\ excused' = excused \cup {call.cmd} /\ UNCHANGED <<parked, delivered>>
  <2>1. call' = NoCall /\ status' = [status EXCEPT ![call.cmd] = "givenUp"]
    BY <1>6 DEF Return
  <2>2. TypeOK'
    BY <1>3, <1>4, <1>6, <2>1, Sizes DEF IInv, FailsForAReason, TypeOK, Statuses
  <2>3. FailsForAReason'
    BY <1>3, <1>6, <2>1, <2>2 DEF IInv, FailsForAReason, TypeOK
  <2>4. CallConsistent' /\ TagsDistinct'
    BY <1>3, <1>6, <2>1, HostKeepsNode DEF IInv, FailsForAReason, TypeOK, CallConsistent, NoCall, TagsDistinct, Started
  <2>5. QueuesConsistent'
    BY <1>3, <1>4, <1>6, <2>1 DEF IInv, FailsForAReason, TypeOK, QueuesConsistent
  <2>6. QED
    BY <1>3, <1>4, <2>3, <2>4, <2>5, HostKeepsNode DEF IInv, QueuesCurrent
<1>7. CASE Claims(call.cmd, d) /\ Return("collected") /\ Deliver(call.cmd, d) /\ UNCHANGED <<parked, excused>>
  <2>1. call' = NoCall /\ status' = [status EXCEPT ![call.cmd] = "collected"] /\ d = call.cmd
    BY <1>5, <1>7 DEF Return, IInv
  <2>2. TypeOK'
    BY <1>2, <1>3, <1>4, <1>7, <2>1, Sizes DEF IInv, FailsForAReason, TypeOK, Statuses, Deliver
  <2>3. FailsForAReason'
    BY <1>3, <1>7, <2>1, <2>2 DEF IInv, FailsForAReason, TypeOK
  <2>4. CallConsistent' /\ TagsDistinct'
    BY <1>3, <1>7, <2>1, HostKeepsNode DEF IInv, FailsForAReason, TypeOK, CallConsistent, NoCall, TagsDistinct, Started
  <2>5. QueuesConsistent'
    BY <1>2, <1>3, <1>4, <1>7, <2>1 DEF IInv, FailsForAReason, TypeOK, QueuesConsistent
  <2>6. QED
    BY <1>3, <1>4, <2>3, <2>4, <2>5, HostKeepsNode DEF IInv, QueuesCurrent
<1>8. CASE ~Claims(call.cmd, d) /\ Park(d) /\ UNCHANGED <<call, status, delivered, excused>>
  <2>1. parked' = parked \/ parked' = parked \cup {d}
    BY <1>8 DEF Park
  <2>2. d \in parked' => d # call.cmd /\ status[d] = "submitted"
    <3>1. d \in parked => d # call.cmd /\ status[d] = "submitted"
      BY <1>3 DEF IInv, FailsForAReason, TypeOK
    <3>2. d # call.cmd
      BY <1>5, <1>8 DEF IInv
    <3>3. \A c \in Commands \ gone : status[c] = "submitted" /\ Claims(c, d) => c = d
      BY <1>2 DEF IInv, TagsDistinct, Started, Claims, QueuesConsistent
    <3>4. QED
      BY <1>8, <3>1, <3>2, <3>3 DEF Park
  <2>3. TypeOK'
    BY <1>2, <1>3, <1>4, <1>8, <2>1, <2>2 DEF IInv, FailsForAReason, TypeOK
  <2>4. FailsForAReason'
    BY <1>8, <2>3 DEF IInv, FailsForAReason, TypeOK
  <2>5. CallConsistent' /\ TagsDistinct'
    BY <1>3, <1>8, <2>1, <2>2, HostKeepsNode DEF IInv, FailsForAReason, TypeOK, CallConsistent, TagsDistinct, Started
  <2>6. QueuesConsistent'
    <3>1. parked' \subseteq answered
      BY <1>2, <2>1 DEF IInv, QueuesConsistent
    <3>2. QED
      BY <1>3, <1>4, <1>8, <3>1 DEF IInv, QueuesConsistent
  <2>7. QED
    BY <1>3, <1>4, <2>4, <2>5, <2>6, HostKeepsNode DEF IInv, QueuesCurrent
<1>9. QED
  BY <1>1, <1>6, <1>7, <1>8 DEF d

-----------------------------------------------------------------------------
(***************************************************************************)
(* The firmware's steps, with or without a handle.                         *)
(***************************************************************************)

\* The firmware works only while it serves, and then a reset has not found it
\* restarted with empty queues.
LEMMA FirmwareKeepsNode ==
  ASSUME IInv, firmware \in Serving, ~Quiet, UNCHANGED nodeVars
  PROVE  ResetConsistent' /\ HasHandle' = HasHandle
  BY DEF IInv, ResetConsistent, HasHandle, nodeVars, Serving, Quiet

\* The firmware takes the first command of a queue.
LEMMA TakeStep ==
  ASSUME IInv, firmware \in Serving, UNCHANGED nodeVars, NEW q \in Sqs, Take(q)
  PROVE  IInv'
<1> USE DEF Take, handle, nodeVars
<1> DEFINE c == Head(sq[q])
<1>1. /\ sq[q] \in Seq(Commands) /\ sq[q] # <<>>
      /\ c = sq[q][1] /\ 1 \in 1 .. Len(sq[q]) /\ c \in Commands
      /\ Tail(sq[q]) \in Seq(Commands)
      /\ Len(sq[q]) \in Nat /\ Len(Tail(sq[q])) = Len(sq[q]) - 1
      /\ \A m \in 1 .. Len(Tail(sq[q])) : Tail(sq[q])[m] = sq[q][m + 1]
  BY Popped DEF IInv, FailsForAReason, TypeOK
<1>2. /\ sq' \in [Sqs -> Seq(Commands)]
      /\ sq'[q] = Tail(sq[q])
      /\ \A r \in Sqs : r # q => sq'[r] = sq[r]
      /\ working' = working \cup {c}
  BY <1>1 DEF IInv, FailsForAReason, TypeOK
<1> HIDE DEF c, Take
<1> DEFINE old(r, m) == IF r = q THEN m + 1 ELSE m
<1>3. ASSUME NEW r \in Sqs, NEW m \in 1 .. Len(sq'[r])
      PROVE  old(r, m) \in 1 .. Len(sq[r]) /\ sq'[r][m] = sq[r][old(r, m)] /\ (r = q => old(r, m) # 1)
  <2>1. CASE r = q
    <3>1. m \in 1 .. Len(Tail(sq[q])) /\ sq'[r][m] = Tail(sq[q])[m] /\ old(r, m) = m + 1
      BY <1>2, <2>1
    <3>2. m + 1 \in 1 .. Len(sq[q]) /\ m + 1 # 1
      BY <1>1, <3>1
    <3>3. QED
      BY <1>1, <2>1, <3>1, <3>2
  <2>2. CASE r # q
    BY <1>1, <1>2, <2>2
  <2>3. QED
    BY <2>1, <2>2
<1>4. c \notin answered /\ status[c] \in {"submitted", "givenUp"} /\ (HasHandle => c \notin gone)
  BY <1>1 DEF IInv, QueuesConsistent, QueuesCurrent
<1>5. ~Quiet
  BY <1>1 DEF Quiet
<1>6. ASSUME NEW r \in Sqs, NEW m \in 1 .. Len(sq'[r])
      PROVE  sq'[r][m] # c
  BY <1>1, <1>3, <1>6 DEF IInv, QueuesConsistent, c
<1>7. UNCHANGED <<backend, cq, answered, issued, tagOf, status, parked, delivered, excused, call, gone>>
  BY DEF Take
<1>8. TypeOK'
  <2>1. ASSUME NEW r \in Sqs PROVE Len(sq'[r]) <= SqCap
    <3>1. Len(sq[r]) <= SqCap
      BY DEF IInv, FailsForAReason, TypeOK
    <3>2. CASE r = q
      BY <1>1, <1>2, <3>1, <3>2, Sizes
    <3>3. CASE r # q
      BY <1>2, <3>1, <3>3
    <3>4. QED
      BY <3>2, <3>3
  <2>2. QED
    BY <1>1, <1>2, <1>7, <2>1 DEF IInv, FailsForAReason, TypeOK
<1>9. FailsForAReason'
  BY <1>7, <1>8 DEF IInv, FailsForAReason
<1>10. CallConsistent' /\ TagsDistinct'
  BY <1>5, <1>7, FirmwareKeepsNode DEF IInv, CallConsistent, TagsDistinct, Started
<1>11. QueuesConsistent'
  <2>1. ASSUME NEW r \in Sqs, NEW t \in Sqs, NEW m \in 1 .. Len(sq'[r]), NEW n \in 1 .. Len(sq'[t]),
               sq'[r][m] = sq'[t][n]
        PROVE  r = t /\ m = n
    <3>1. r = t /\ old(r, m) = old(t, n)
      <4> HIDE DEF old
      <4>1. /\ old(r, m) \in 1 .. Len(sq[r]) /\ old(t, n) \in 1 .. Len(sq[t])
            /\ sq[r][old(r, m)] = sq[t][old(t, n)]
        BY <1>3, <2>1
      <4>2. QED
        BY <4>1 DEF IInv, QueuesConsistent
    <3>2. QED
      BY <3>1
  <2>2. ASSUME NEW r \in Sqs, NEW m \in 1 .. Len(sq'[r])
        PROVE  sq'[r][m] \notin working' \cup answered' /\ status'[sq'[r][m]] \in {"submitted", "givenUp"}
    <3> HIDE DEF old
    <3>1. old(r, m) \in 1 .. Len(sq[r]) /\ sq'[r][m] = sq[r][old(r, m)] /\ sq'[r][m] # c
      BY <1>3, <1>6
    <3>2. sq'[r][m] \notin working \cup answered /\ status[sq'[r][m]] \in {"submitted", "givenUp"}
      BY <3>1 DEF IInv, QueuesConsistent
    <3>3. QED
      BY <1>2, <1>7, <3>1, <3>2
  <2>3. QED
    BY <1>2, <1>4, <1>7, <2>1, <2>2 DEF IInv, QueuesConsistent
<1>12. QueuesCurrent'
  <2> HIDE DEF old
  <2>1. HasHandle' = HasHandle
    BY <1>5, FirmwareKeepsNode
  <2>2. ASSUME HasHandle, NEW r \in Sqs, NEW m \in 1 .. Len(sq'[r])
        PROVE  sq'[r][m] \notin gone
    BY <1>3, <2>2 DEF IInv, QueuesCurrent
  <2>3. QED
    BY <1>2, <1>4, <1>7, <2>1, <2>2 DEF IInv, QueuesCurrent
<1>13. QED
  BY <1>5, <1>9, <1>10, <1>11, <1>12, FirmwareKeepsNode DEF IInv

\* The firmware answers a command it works on.
LEMMA CompleteStep ==
  ASSUME IInv, firmware \in Serving, UNCHANGED nodeVars,
         NEW c \in Commands, NEW i \in Cqs, Complete(c, i)
  PROVE  IInv'
<1> USE DEF handle
<1>1. /\ c \in working /\ cq[i] \in Seq(Commands) /\ Len(cq[i]) < CqCap
      /\ cq' = [cq EXCEPT ![i] = Append(@, c)]
      /\ working' = working \ {c} /\ answered' = answered \cup {c}
      /\ UNCHANGED <<backend, sq, issued, tagOf, status, parked, delivered, excused, call, gone>>
  BY DEF Complete, IInv, FailsForAReason, TypeOK
<1>2. /\ cq' \in [Cqs -> Seq(Commands)]
      /\ \A j \in Cqs : Len(cq'[j]) <= CqCap
      /\ \A j \in Cqs : \A m \in 1 .. Len(cq'[j]) :
           cq'[j][m] = c \/ (m \in 1 .. Len(cq[j]) /\ cq'[j][m] = cq[j][m])
  <2>1. ASSUME NEW j \in Cqs
        PROVE  /\ cq'[j] \in Seq(Commands) /\ Len(cq'[j]) <= CqCap
               /\ \A m \in 1 .. Len(cq'[j]) :
                    cq'[j][m] = c \/ (m \in 1 .. Len(cq[j]) /\ cq'[j][m] = cq[j][m])
    <3>1. CASE j = i
      BY <1>1, <3>1, Appended, Sizes DEF IInv, FailsForAReason, TypeOK
    <3>2. CASE j # i
      BY <1>1, <3>2 DEF IInv, FailsForAReason, TypeOK
    <3>3. QED
      BY <3>1, <3>2
  <2>2. QED
    BY <1>1, <2>1 DEF IInv, FailsForAReason, TypeOK
<1>3. ~Quiet
  BY <1>1 DEF Quiet
<1>4. TypeOK'
  BY <1>1, <1>2 DEF IInv, FailsForAReason, TypeOK, nodeVars
<1>5. FailsForAReason'
  BY <1>1, <1>4 DEF IInv, FailsForAReason
<1>6. CallConsistent' /\ TagsDistinct'
  BY <1>1, <1>3, FirmwareKeepsNode DEF IInv, CallConsistent, TagsDistinct, Started
<1>7. QueuesConsistent'
  BY <1>1, <1>2 DEF IInv, QueuesConsistent
<1>8. QueuesCurrent'
  <2>1. HasHandle' = HasHandle
    BY <1>3, FirmwareKeepsNode
  <2>2. ASSUME HasHandle
        PROVE  c \notin gone /\ working' \cap gone = {}
    BY <1>1, <2>2 DEF IInv, QueuesCurrent
  <2>3. ASSUME HasHandle, NEW j \in Cqs, NEW m \in 1 .. Len(cq'[j])
        PROVE  cq'[j][m] \notin gone
    BY <1>2, <2>2, <2>3 DEF IInv, QueuesCurrent
  <2>4. QED
    BY <1>1, <2>1, <2>2, <2>3 DEF IInv, QueuesCurrent
<1>9. QED
  BY <1>3, <1>5, <1>6, <1>7, <1>8, FirmwareKeepsNode DEF IInv

-----------------------------------------------------------------------------
(***************************************************************************)
(* The steps of reset_device, of opening and of the node.                  *)
(***************************************************************************)

\* reset_device closes the handle: all that was begun with it is gone.
LEMMA StartResetStep ==
  ASSUME IInv, StartReset
  PROVE  IInv'
<1> USE DEF StartReset, rings, HasHandle, Dropped, Issued
<1>1. TypeOK'
  <2>1. resets' \in 0 .. MaxResets
    BY DeviceResetAssumption DEF IInv, FailsForAReason, TypeOK
  <2>2. gone' \subseteq Commands /\ parked' = {} /\ opsFds' \subseteq Holders
    BY DEF IInv, FailsForAReason, TypeOK
  <2>3. QED
    BY <2>1, <2>2 DEF IInv, FailsForAReason, TypeOK
<1>2. FailsForAReason'
  BY <1>1 DEF IInv, FailsForAReason, TypeOK
<1>3. CallConsistent'
  BY DEF IInv, CallConsistent, NoCall
<1>4. TagsDistinct'
  BY DEF IInv, FailsForAReason, TypeOK, TagsDistinct, Started
<1>5. QueuesConsistent'
  BY DEF IInv, QueuesConsistent
<1>6. QueuesCurrent'
  BY DEF QueuesCurrent
<1>7. ResetConsistent'
  BY DEF IInv, ResetConsistent, Quiet
<1>8. QED
  BY <1>2, <1>3, <1>4, <1>5, <1>6, <1>7 DEF IInv

\* A step of the node alone that neither opens nor closes a handle.
LEMMA NodeStep ==
  ASSUME IInv, UNCHANGED queueVars, TypeOK', HasHandle' = HasHandle, ResetConsistent'
  PROVE  IInv'
<1> USE DEF queueVars
<1>1. FailsForAReason'
  BY DEF IInv, FailsForAReason
<1>2. CallConsistent' /\ TagsDistinct'
  BY DEF IInv, CallConsistent, TagsDistinct, Started
<1>3. QueuesConsistent' /\ QueuesCurrent'
  BY DEF IInv, QueuesConsistent, QueuesCurrent
<1>4. QED
  BY <1>1, <1>2, <1>3 DEF IInv

\* A handle whose tags begin at 0, with nothing parked and all before it gone.
LEMMA FreshHandleStep ==
  ASSUME IInv, FreshHandle, ~HasHandle, TypeOK', Quiet, ResetConsistent'
  PROVE  IInv'
<1> USE DEF FreshHandle, rings
<1>1. FailsForAReason'
  BY DEF IInv, FailsForAReason
<1>2. CallConsistent'
  BY DEF IInv, CallConsistent, NoCall
<1>3. TagsDistinct'
  BY DEF IInv, TagsDistinct, Started
<1>4. QueuesConsistent'
  BY DEF IInv, QueuesConsistent
<1>5. QueuesCurrent'
  BY DEF QueuesCurrent, Quiet
<1>6. QED
  BY <1>1, <1>2, <1>3, <1>4, <1>5 DEF IInv

\* Sending, sleeping, opening and querying, as long as no handle results.
LEMMA ResetCallStep ==
  ASSUME IInv, OpensWhileAsked = FALSE,
         SendReset \/ SendFails \/ OpenAgain \/ OpenFails \/ QueryFails \/ ResetDeadline
  PROVE  IInv'
<1> USE DEF queueVars, HasHandle, IInv, ResetConsistent, Quiet
<1>1. TypeOK'
  BY DEF FailsForAReason, TypeOK, Holders, SendReset, SendFails, OpenAgain, OpenFails, QueryFails,
         ResetDeadline, TryAgain, ClosedOnError
<1>2. CASE SendReset \/ SendFails
  BY <1>1, <1>2, NodeStep DEF SendReset, SendFails, FailsForAReason, TypeOK
<1>3. CASE OpenAgain
  BY <1>1, <1>3, NodeStep DEF OpenAgain, Openable
<1>4. CASE OpenFails
  BY <1>1, <1>4, NodeStep DEF OpenFails, TryAgain
<1>5. CASE QueryFails
  BY <1>1, <1>5, NodeStep DEF QueryFails, TryAgain, ClosedOnError
<1>6. CASE ResetDeadline
  BY <1>1, <1>6, NodeStep DEF ResetDeadline
<1>7. QED
  BY <1>2, <1>3, <1>4, <1>5, <1>6

\* The query is answered by a firmware that has restarted since the reset was sent.
LEMMA QuerySucceedsStep ==
  ASSUME IInv, QuerySucceeds
  PROVE  IInv' /\ booted' /\ Quiet'
<1> USE DEF QuerySucceeds
<1>1. ~HasHandle /\ firmware = "up" /\ booted /\ Quiet
  BY DEF IInv, ResetConsistent, HasHandle, Serving
<1>2. TypeOK'
  BY DEF IInv, FailsForAReason, TypeOK, FreshHandle, rings
<1>3. Quiet' /\ booted'
  BY <1>1 DEF Quiet, FreshHandle, rings
<1>4. ResetConsistent'
  BY <1>1, <1>3 DEF IInv, ResetConsistent, HasHandle
<1>5. QED
  BY <1>1, <1>2, <1>3, <1>4, FreshHandleStep

\* Device::open once more, when the queues have run empty.
LEMMA ReopenStep ==
  ASSUME IInv, Reopen
  PROVE  IInv'
<1> USE DEF Reopen
<1>1. ~HasHandle
  BY DEF HasHandle
<1>2. TypeOK'
  BY DEF IInv, FailsForAReason, TypeOK, FreshHandle, rings, Holders
<1>3. ResetConsistent'
  BY DEF IInv, ResetConsistent, HasHandle
<1>4. QED
  BY <1>1, <1>2, <1>3, FreshHandleStep

\* Another process closes the node; the firmware restarts, which empties the queues.
LEMMA NodeAloneStep ==
  ASSUME IInv, OtherCloses \/ Boot \/ Serve
  PROVE  IInv'
<1> USE DEF queueVars, HasHandle, IInv, ResetConsistent, Quiet
<1>1. TypeOK'
  BY DEF FailsForAReason, TypeOK, OtherCloses, Boot, Serve
<1>2. CASE OtherCloses
  BY <1>1, <1>2, NodeStep DEF OtherCloses
<1>3. CASE Boot
  BY <1>1, <1>3, NodeStep DEF Boot
<1>4. CASE Serve
  BY <1>1, <1>4, NodeStep DEF Serve
<1>5. QED
  BY <1>2, <1>3, <1>4

\* The firmware goes down, and with it what was queued and under way.
LEMMA GoDownStep ==
  ASSUME IInv, GoDown
  PROVE  IInv'
<1> USE DEF GoDown, handle
<1>1. TypeOK'
  BY Sizes DEF IInv, FailsForAReason, TypeOK
<1>2. FailsForAReason'
  BY <1>1 DEF IInv, FailsForAReason
<1>3. CallConsistent' /\ TagsDistinct'
  BY DEF IInv, CallConsistent, TagsDistinct, Started, HasHandle
<1>4. QueuesConsistent' /\ QueuesCurrent'
  BY DEF IInv, QueuesConsistent, QueuesCurrent
<1>5. ResetConsistent'
  BY DEF IInv, ResetConsistent, HasHandle, Quiet
<1>6. QED
  BY <1>2, <1>3, <1>4, <1>5 DEF IInv
-----------------------------------------------------------------------------
(***************************************************************************)
(* The inductive invariant.                                                *)
(***************************************************************************)

\* A device that has just been opened: no command, no reset.
LEMMA InitIInv == Init => IInv
<1> SUFFICES ASSUME Init PROVE IInv
  OBVIOUS
<1> USE DEF Init, QueuesInit
<1>1. TypeOK
  BY Sizes, DeviceResetAssumption DEF TypeOK, Holders, Statuses
<1>2. FailsForAReason
  BY <1>1 DEF FailsForAReason
<1>3. CallConsistent /\ TagsDistinct
  BY DEF CallConsistent, TagsDistinct, Started, NoCall, HasHandle, Holders
<1>4. QueuesConsistent /\ QueuesCurrent
  BY DEF QueuesConsistent, QueuesCurrent
<1>5. ResetConsistent
  BY DEF ResetConsistent, HasHandle
<1>6. QED
  BY <1>2, <1>3, <1>4, <1>5 DEF IInv

\* Every step keeps the invariant, if the node does not open with a reset pending.
LEMMA NextIInv ==
  ASSUME OpensWhileAsked = FALSE, IInv, [Next]_vars
  PROVE  IInv'
<1>1. CASE Driving
  <2> USE <1>1 DEF Driving
  <2>1. ASSUME NEW c \in Commands, NEW q \in Sqs, StartPush(c, q) PROVE IInv'
    BY <2>1, StartPushStep
  <2>2. ASSUME NEW c \in Commands, CollectParked(c) PROVE IInv'
    BY <2>2, CollectParkedStep
  <2>3. ASSUME NEW c \in Commands, NEW timed \in BOOLEAN, StartWait(c, timed) PROVE IInv'
    BY <2>3, StartWaitStep
  <2>4. CASE PushSq
    BY <2>4, PushSqStep
  <2>5. CASE PopCq
    BY <2>5, PopCqStep
  <2>6. CASE SqFull \/ CqsEmpty \/ \E outcome \in {"failed", "interrupted"} : SystemCall(outcome)
    BY <2>6, RoundInVainStep
  <2>7. CASE Deadline
    BY <2>7, DeadlineStep
  <2>8. QED
    BY <2>1, <2>2, <2>3, <2>4, <2>5, <2>6, <2>7 DEF Host, LoopStep
<1>2. CASE Working
  BY <1>2, TakeStep, CompleteStep DEF Working, Firmware
<1>3. CASE StartReset
  BY <1>3, StartResetStep
<1>4. CASE ResetCall
  BY <1>4, ResetCallStep, QuerySucceedsStep DEF ResetCall
<1>5. CASE Reopen
  BY <1>5, ReopenStep
<1>6. CASE OtherCloses \/ Boot \/ Serve
  BY <1>6, NodeAloneStep
<1>7. CASE GoDown
  BY <1>7, GoDownStep
<1>8. CASE UNCHANGED vars
  <2>1. ResetConsistent' /\ HasHandle' = HasHandle /\ TypeOK'
    BY <1>8 DEF vars, queueVars, nodeVars, ResetConsistent, HasHandle, Quiet, IInv, FailsForAReason, TypeOK
  <2>2. QED
    BY <1>8, <2>1, NodeStep DEF vars
<1>9. QED
  BY <1>1, <1>2, <1>3, <1>4, <1>5, <1>6, <1>7, <1>8 DEF Next

-----------------------------------------------------------------------------
(***************************************************************************)
(* Theorems.  The driver is assumed not to open the node while a reset is  *)
(* pending; otherwise reset_device may return the device before it         *)
(* restarts.                                                               *)
(***************************************************************************)

\* The inductive invariant of the handle, the queues and the restart.
THEOREM Inductive == ASSUME OpensWhileAsked = FALSE PROVE Spec => []IInv
<1>1. Init => IInv
  BY InitIInv
<1>2. IInv /\ [Next]_vars => IInv'
  BY NextIInv
<1>3. QED
  BY <1>1, <1>2, PTL DEF Spec

\* push_cmd and collect_response fail only at their deadline or with an error of
\* the transport, and the stash holds only responses somebody waits for.
THEOREM FailuresExcused == ASSUME OpensWhileAsked = FALSE PROVE Spec => []FailsForAReason
<1>1. IInv => FailsForAReason
  BY DEF IInv
<1>2. QED
  BY Inductive, <1>1, PTL

\* reset_device returns a device only after the firmware has restarted, and with
\* nothing of the old handle in its queues.
THEOREM RestartedWhenReturned == ASSUME OpensWhileAsked = FALSE PROVE Spec => ReturnsRestarted
<1>1. IInv /\ [Next]_vars => [reset # "none" /\ HasHandle' => booted /\ Quiet]_vars
  <2> SUFFICES ASSUME IInv, [Next]_vars, reset # "none", HasHandle'
               PROVE  (booted /\ Quiet) \/ UNCHANGED vars
    OBVIOUS
  <2> USE DEF HasHandle
  <2>1. ~HasHandle
    OBVIOUS
  <2>2. CASE ResetCall
    <3>1. CASE QuerySucceeds
      BY <3>1 DEF QuerySucceeds, IInv, ResetConsistent, Serving
    <3>2. CASE SendReset \/ SendFails \/ OpenAgain \/ OpenFails \/ QueryFails \/ ResetDeadline
      BY <3>2 DEF SendReset, SendFails, OpenAgain, OpenFails, QueryFails, ResetDeadline,
                  TryAgain, ClosedOnError, IInv, ResetConsistent
    <3>3. QED
      BY <2>2, <3>1, <3>2 DEF ResetCall
  <2>3. CASE Working \/ Boot \/ Serve \/ GoDown \/ OtherCloses
    BY <2>3 DEF Working, Boot, Serve, GoDown, OtherCloses, nodeVars
  <2>4. CASE Driving \/ StartReset \/ Reopen
    BY <2>4 DEF Driving, StartReset, Reopen
  <2>5. QED
    BY <2>2, <2>3, <2>4 DEF Next
<1>2. QED
  BY Inductive, <1>1, PTL DEF Spec, ReturnsRestarted

-----------------------------------------------------------------------------
(***************************************************************************)
(* The command channel.                                                    *)
(***************************************************************************)

\* What one entry of `status` does to the channel's state.
LEMMA ChannelStateUpdate ==
  ASSUME status \in [Commands -> Statuses], NEW c \in Commands, NEW s \in Statuses,
         status' = [status EXCEPT ![c] = s]
  PROVE  ChannelState' = [ChannelState EXCEPT ![c] =
                            IF s \in {"pushing", "refused"} THEN "unused" ELSE s]
  BY DEF ChannelState

\* A round in vain gives the command of a wait up, or is not seen by the channel.
LEMMA GiveUpRefines ==
  ASSUME IInv, UNCHANGED <<answered, delivered>>, call.op # "none", Return(Failed) \/ Stay
  PROVE  [Channel!Next]_(Channel!vars)
<1>1. CASE Stay
  BY <1>1 DEF Stay, Channel!vars, ChannelState
<1>2. CASE Return(Failed)
  <2>1. /\ call.cmd \in Commands /\ status \in [Commands -> Statuses]
        /\ \/ status[call.cmd] = "pushing" /\ Failed = "refused"
           \/ status[call.cmd] = "submitted" /\ Failed = "givenUp"
    BY DEF IInv, FailsForAReason, TypeOK, CallConsistent, Failed, Ops
  <2>2. status' = [status EXCEPT ![call.cmd] = Failed]
    BY <1>2 DEF Return
  <2>3. CASE Failed = "refused"
    <3>1. ChannelState' = ChannelState
      BY <2>1, <2>2, <2>3 DEF ChannelState
    <3>2. QED
      BY <3>1 DEF Channel!vars
  <2>4. CASE Failed = "givenUp"
    <3>1. ChannelState' = [ChannelState EXCEPT ![call.cmd] = "givenUp"]
      BY <2>1, <2>2, <2>4, ChannelStateUpdate DEF Statuses
    <3>2. ChannelState[call.cmd] = "submitted"
      BY <2>1, <2>4 DEF ChannelState
    <3>3. QED
      BY <2>1, <3>1, <3>2 DEF Channel!Next, Channel!GiveUp
  <2>5. QED
    BY <2>1, <2>3, <2>4
<1>3. QED
  BY <1>1, <1>2

\* push_sq is what submits a command to the channel.
LEMMA PushSqRefines ==
  ASSUME IInv, PushSq
  PROVE  [Channel!Next]_(Channel!vars)
<1>1. /\ call.cmd \in Commands /\ status \in [Commands -> Statuses]
      /\ status[call.cmd] = "pushing"
      /\ status' = [status EXCEPT ![call.cmd] = "submitted"]
      /\ UNCHANGED <<answered, delivered>>
  BY DEF IInv, FailsForAReason, TypeOK, CallConsistent, PushSq, Return
<1>2. ChannelState' = [ChannelState EXCEPT ![call.cmd] = "submitted"]
  BY <1>1, ChannelStateUpdate DEF Statuses
<1>3. ChannelState[call.cmd] = "unused"
  BY <1>1 DEF ChannelState
<1>4. QED
  BY <1>1, <1>2, <1>3 DEF Channel!Next, Channel!Submit

\* Collecting a response is collecting one's own.
LEMMA CollectRefines ==
  ASSUME IInv, NEW c \in Commands, c \in answered, status[c] = "submitted",
         status' = [status EXCEPT ![c] = "collected"], Deliver(c, c), UNCHANGED answered
  PROVE  [Channel!Next]_(Channel!vars)
<1>1. ChannelState' = [ChannelState EXCEPT ![c] = "collected"]
  BY ChannelStateUpdate DEF IInv, FailsForAReason, TypeOK, Statuses
<1>2. ChannelState[c] = "submitted"
  BY DEF ChannelState
<1>3. QED
  BY <1>1, <1>2 DEF Channel!Next, Channel!Collect, Deliver

\* A response that was parked.
LEMMA CollectParkedRefines ==
  ASSUME IInv, NEW c \in Commands, CollectParked(c)
  PROVE  [Channel!Next]_(Channel!vars)
<1>1. PICK d \in parked : Claims(c, d) /\ Deliver(c, d)
  BY DEF CollectParked
<1>2. d = c /\ c \in answered
  <2>1. /\ c \notin gone /\ Started(c)
        /\ d \in Commands \ gone /\ Started(d)
        /\ tagOf[c] = tagOf[d]
    BY <1>1 DEF CollectParked, IInv, FailsForAReason, TypeOK, Started, Claims
  <2>2. QED
    BY <2>1 DEF IInv, TagsDistinct, QueuesConsistent
<1>3. QED
  BY <1>1, <1>2, CollectRefines DEF CollectParked, rings

\* A response that is popped.
LEMMA PopCqRefines ==
  ASSUME IInv, HasHandle, PopCq
  PROVE  [Channel!Next]_(Channel!vars)
<1>1. PICK i \in Readable :
        \/ Return("givenUp") /\ UNCHANGED delivered
        \/ /\ Claims(call.cmd, Head(cq[i])) /\ Return("collected")
           /\ Deliver(call.cmd, Head(cq[i]))
        \/ UNCHANGED <<status, delivered>>
  BY DEF PopCq
<1> DEFINE d == Head(cq[i])
<1>2. d \in Commands \ gone /\ d \in answered
  <2>1. i \in Cqs /\ cq[i] \in Seq(Commands) /\ cq[i] # <<>>
    BY DEF Readable, IInv, FailsForAReason, TypeOK
  <2>2. d = cq[i][1] /\ d \in Commands /\ 1 \in 1 .. Len(cq[i])
    BY <2>1, Popped
  <2>3. QED
    BY <2>1, <2>2 DEF IInv, QueuesConsistent, QueuesCurrent
<1>3. /\ call.op = "wait" /\ call.cmd \in Commands \ gone
      /\ status[call.cmd] = "submitted" /\ UNCHANGED answered
  BY DEF PopCq, IInv, CallConsistent
<1>4. Claims(call.cmd, d) => d = call.cmd
  BY <1>2, <1>3 DEF TagsDistinct, Started, Claims, IInv, QueuesConsistent
<1> HIDE DEF d
<1>5. CASE Return("givenUp") /\ UNCHANGED delivered
  BY <1>3, <1>5, GiveUpRefines DEF Failed
<1>6. CASE Claims(call.cmd, d) /\ Return("collected") /\ Deliver(call.cmd, d)
  BY <1>2, <1>3, <1>4, <1>6, CollectRefines DEF Return
<1>7. CASE UNCHANGED <<status, delivered>>
  BY <1>3, <1>7 DEF ChannelState, Channel!vars
<1>8. QED
  BY <1>1, <1>5, <1>6, <1>7 DEF d

\* The firmware's answer.
LEMMA CompleteRefines ==
  ASSUME IInv, NEW c \in Commands, NEW i \in Cqs, Complete(c, i)
  PROVE  [Channel!Next]_(Channel!vars)
<1>1. /\ c \notin answered /\ answered' = answered \cup {c}
      /\ UNCHANGED <<status, delivered>>
      /\ status[c] \in {"submitted", "givenUp"}
  BY DEF Complete, handle, IInv, QueuesConsistent
<1>2. ChannelState' = ChannelState /\ ChannelState[c] \in {"submitted", "givenUp"}
  BY <1>1 DEF ChannelState
<1>3. QED
  BY <1>1, <1>2 DEF Channel!Next, Channel!Answer

\* The polling loops over bounded queues, with tags that every handle counts from
\* 0, implement the command channel, resets included.
THEOREM ChannelImplemented == ASSUME OpensWhileAsked = FALSE PROVE Spec => ImplementsChannel
<1>1. Init => Channel!Init
  BY DEF Init, QueuesInit, Channel!Init, ChannelState
<1>2. IInv /\ [Next]_vars => [Channel!Next]_(Channel!vars)
  <2> SUFFICES ASSUME IInv, [Next]_vars PROVE [Channel!Next]_(Channel!vars)
    OBVIOUS
  <2>1. CASE UNCHANGED <<status, answered, delivered>>
    BY <2>1 DEF Channel!vars, ChannelState
  <2>2. CASE Driving
    <3> USE <2>2 DEF Driving
    <3>1. ASSUME NEW c \in Commands, NEW q \in Sqs, StartPush(c, q)
          PROVE  [Channel!Next]_(Channel!vars)
      <4>1. ChannelState' = ChannelState
        BY <3>1 DEF StartPush, Numbered, ChannelState, IInv, FailsForAReason, TypeOK
      <4>2. QED
        BY <3>1, <4>1 DEF StartPush, rings, Channel!vars
    <3>2. ASSUME NEW c \in Commands, CollectParked(c)
          PROVE  [Channel!Next]_(Channel!vars)
      BY <3>2, CollectParkedRefines
    <3>3. ASSUME NEW c \in Commands, NEW timed \in BOOLEAN, StartWait(c, timed)
          PROVE  UNCHANGED <<status, answered, delivered>>
      BY <3>3 DEF StartWait, rings, handle
    <3>4. CASE PushSq
      BY <3>4, PushSqRefines
    <3>5. CASE PopCq
      BY <3>5, PopCqRefines
    <3>6. CASE SqFull \/ CqsEmpty
      BY <3>6, GiveUpRefines DEF SqFull, CqsEmpty, GiveUpWhenLate, rings
    <3>7. CASE \E outcome \in {"failed", "interrupted"} : SystemCall(outcome)
      BY <3>7, GiveUpRefines DEF SystemCall, Fatal, rings
    <3>8. CASE Deadline
      BY <2>1, <3>8 DEF Deadline, rings
    <3>9. QED
      BY <2>1, <3>1, <3>2, <3>3, <3>4, <3>5, <3>6, <3>7, <3>8 DEF Host, LoopStep
  <2>3. CASE Working
    <3>1. ASSUME NEW q \in Sqs, Take(q) PROVE UNCHANGED <<status, answered, delivered>>
      BY <3>1 DEF Take, handle
    <3>2. QED
      BY <2>1, <2>3, <3>1, CompleteRefines DEF Working, Firmware
  <2>4. CASE StartReset \/ ResetCall \/ Reopen \/ OtherCloses \/ GoDown \/ Boot \/ Serve
    <3>1. UNCHANGED <<status, answered, delivered>>
      BY <2>4 DEF StartReset, ResetCall, SendReset, SendFails, OpenAgain, OpenFails, QuerySucceeds,
                  QueryFails, ResetDeadline, Reopen, FreshHandle, OtherCloses, GoDown, Boot, Serve,
                  queueVars, rings, handle
    <3>2. QED
      BY <2>1, <3>1
  <2>5. CASE UNCHANGED vars
    BY <2>1, <2>5 DEF vars, queueVars
  <2>6. QED
    BY <2>2, <2>3, <2>4, <2>5 DEF Next
<1>3. QED
  BY Inductive, <1>1, <1>2, PTL DEF Spec, ImplementsChannel, Channel!Spec
=============================================================================
