---------------------------- MODULE DriverQueues ----------------------------
(***************************************************************************)
(* The polling loops of `Device` (push_cmd, collect_response) over the two *)
(* transports: IoctlTransport on the driver's bounded submission and       *)
(* completion queues, and FfiTransport on the emulator's device layer.     *)
(*                                                                         *)
(* One host thread is in at most one call and takes one system call at a   *)
(* time; the firmware runs between any two of them.  DeviceCommands, where *)
(* tags wrap and waiters time out, takes a push and a pop as one step; here*)
(* they are loops that can find a queue full or empty, be interrupted by a *)
(* signal, fail or run into their deadline.  A round of a loop is one      *)
(* step.  The poll and the pause that end a round in vain, and the flag    *)
(* `woken`, change nothing: whatever `wait_sq` and `wait_cq` report, the   *)
(* queue is tried again.                                                   *)
(* DeviceReset composes this module with the device node.                  *)
(***************************************************************************)
EXTENDS Integers, Sequences, SequencesExt, FiniteSets

CONSTANTS
  Commands,   \* every command the host ever builds, by number (bounds the runs)
  NumSqs,     \* submission queues are 0 .. NumSqs - 1
  NumCqs,     \* completion queues likewise
  SqCap,      \* commands that fit into a submission queue
  CqCap,      \* responses that fit into a completion queue
  CqsOf,      \* CqsOf[c]: the completion queues the firmware may answer c on
  Workers,    \* commands the firmware works on at a time
  Oversize,   \* commands whose response exceeds the largest message
  None

ASSUME DriverQueuesAssumption ==
  /\ {NumSqs, NumCqs, SqCap, CqCap, Workers} \subseteq Nat \ {0}
  /\ Commands \subseteq Nat
  /\ CqsOf \in [Commands -> (SUBSET (0 .. NumCqs - 1)) \ {{}}]
  /\ Oversize \subseteq Commands
  /\ None \notin Commands

VARIABLES
  backend,    \* the transport: "ioctl" or "emulator"
  sq,         \* sq[q]: commands submitted and not yet taken, in order
  working,    \* commands the firmware has taken
  cq,         \* cq[i]: responses not yet popped, in order
  answered,   \* history: the commands the firmware has answered
  issued,     \* tags this handle has issued
  tagOf,      \* the tag of each command and of its response
  status,     \* what the host has done about each command
  parked,     \* Device::stash: responses popped during other waits
  delivered,  \* the command whose response each wait returned
  call,       \* the call the host thread is in
  excused,    \* history: commands whose call met its deadline or an error
  gone        \* commands of a handle that has been dropped

rings == <<sq, working, cq, answered>>
handle == <<issued, tagOf, status, parked, delivered, excused>>
queueVars == <<backend, sq, working, cq, answered, issued, tagOf, status,
               parked, delivered, call, excused, gone>>

Sqs == 0 .. NumSqs - 1
Cqs == 0 .. NumCqs - 1

NoCall == [op |-> "none", cmd |-> None, queue |-> 0, timed |-> FALSE, late |-> FALSE]

QueuesInit ==
  /\ backend \in {"ioctl", "emulator"}
  /\ sq = [q \in Sqs |-> <<>>]
  /\ working = {}
  /\ cq = [i \in Cqs |-> <<>>]
  /\ answered = {}
  /\ issued = 0
  /\ tagOf = [c \in Commands |-> 0]
  /\ status = [c \in Commands |-> "unused"]
  /\ parked = {}
  /\ delivered = [c \in Commands |-> None]
  /\ call = NoCall
  /\ excused = {}
  /\ gone = {}

Return(s) ==
  /\ call' = NoCall
  /\ status' = [status EXCEPT ![call.cmd] = s]

Stay == UNCHANGED <<call, status>>

\* How a failing call leaves its command: never queued, or no longer awaited.
Failed == IF call.op = "push" THEN "refused" ELSE "givenUp"

\* Variant: the loop of push_cmd has no deadline.
GiveUpOnWaitOnly == IF call.late /\ call.op = "wait" THEN Return(Failed) ELSE Stay
\* Nothing could be done in this round: give up, or go on.
GiveUpWhenLate == IF call.late THEN Return(Failed) ELSE Stay
-----------------------------------------------------------------------------
(***************************************************************************)
(* push_cmd.                                                               *)
(***************************************************************************)

\* Commands are numbered in the order they are built in.
Numbered(c) == status[c] = "unused" /\ \A b \in Commands : b < c => status[b] # "unused"

\* A command is built under the next tag.  Waiting for room in the queue ends
\* at the default timeout.
StartPush(c, q) ==
  /\ call = NoCall
  /\ Numbered(c)
  /\ issued' = issued + 1
  /\ tagOf' = [tagOf EXCEPT ![c] = issued]
  /\ status' = [status EXCEPT ![c] = "pushing"]
  /\ call' = [op |-> "push", cmd |-> c, queue |-> q, timed |-> TRUE, late |-> FALSE]
  /\ UNCHANGED <<backend, rings, parked, delivered, excused, gone>>

HasSpace(q) == Len(sq[q]) < SqCap

\* `push_sq` queues the command ...
PushSq ==
  /\ call.op = "push"
  /\ HasSpace(call.queue)
  /\ sq' = [sq EXCEPT ![call.queue] = Append(@, call.cmd)]
  /\ Return("submitted")
  /\ UNCHANGED <<backend, working, cq, answered, issued, tagOf, parked, delivered, excused, gone>>

\* ... or finds the queue full: EAGAIN, ENOSPC, ENOBUFS, or 0 from the emulator.
SqFull ==
  /\ call.op = "push"
  /\ ~HasSpace(call.queue)
  /\ GiveUpWhenLate
  /\ UNCHANGED <<backend, rings, issued, tagOf, parked, delivered, excused, gone>>
-----------------------------------------------------------------------------
(***************************************************************************)
(* collect_response.                                                       *)
(***************************************************************************)

Deliver(c, d) == delivered' = [delivered EXCEPT ![c] = d]

\* Variant: a wait takes whatever response comes first.
ClaimsAny(c, d) == TRUE
\* Responses are matched by their tag.
Claims(c, d) == tagOf[c] = tagOf[d]

\* A response parked by an earlier wait is returned at once ...
CollectParked(c) ==
  /\ call = NoCall
  /\ status[c] = "submitted" /\ c \notin gone
  /\ \E d \in parked :
       /\ Claims(c, d)
       /\ parked' = parked \ {d}
       /\ Deliver(c, d)
  /\ status' = [status EXCEPT ![c] = "collected"]
  /\ UNCHANGED <<backend, rings, issued, tagOf, call, excused, gone>>

\* ... otherwise the wait begins, with a deadline or, for a DMA, without.
StartWait(c, timed) ==
  /\ call = NoCall
  /\ status[c] = "submitted" /\ c \notin gone
  /\ \A d \in parked : ~Claims(c, d)
  /\ call' = [op |-> "wait", cmd |-> c, queue |-> 0, timed |-> timed, late |-> FALSE]
  /\ UNCHANGED <<backend, rings, handle, gone>>

Readable == {i \in Cqs : cq[i] # <<>>}

\* Variant: only the first completion queue is looked at.
ChosenFirst(i) == i = 0
\* The driver is asked which completion queues have data, and the lowest of
\* them is read; the device layer of the emulator picks any.
Chosen(i) == backend = "ioctl" => \A j \in Readable : i <= j

CqsEmpty ==
  /\ call.op = "wait"
  /\ ~\E i \in Readable : Chosen(i)
  /\ GiveUpWhenLate
  /\ UNCHANGED <<backend, rings, issued, tagOf, parked, delivered, excused, gone>>

\* Variant: every response that is not expected is kept.
ParkAny(d) == parked' = parked \cup {d}
\* `park`: kept for the command of this handle that waits for the tag, unless
\* that command was given up.
Park(d) ==
  parked' = IF \E c \in Commands \ gone : status[c] = "submitted" /\ Claims(c, d)
            THEN parked \cup {d} ELSE parked

\* The emulator's buffer is too small for the response, which is lost; the
\* driver's is too, but the driver copies what fits, header and status included.
Lost(d) == backend = "emulator" /\ d \in Oversize

\* `pop_cq` and what the loop does with the response.
PopCq ==
  /\ call.op = "wait"
  /\ \E i \in Readable :
       /\ Chosen(i)
       /\ cq' = [cq EXCEPT ![i] = Tail(@)]
       /\ LET d == Head(cq[i])
          IN IF Lost(d) THEN /\ Return("givenUp")
                             /\ excused' = excused \cup {call.cmd}
                             /\ UNCHANGED <<parked, delivered>>
             ELSE IF Claims(call.cmd, d) THEN /\ Return("collected")
                                              /\ Deliver(call.cmd, d)
                                              /\ UNCHANGED <<parked, excused>>
             ELSE /\ Park(d)
                  /\ UNCHANGED <<call, status, delivered, excused>>
  /\ UNCHANGED <<backend, sq, working, answered, issued, tagOf, gone>>
-----------------------------------------------------------------------------
(***************************************************************************)
(* What both loops have in common.                                         *)
(***************************************************************************)

\* Variant: a signal that interrupts a system call fails the call.
FatalOnSignal(outcome) == outcome \in {"failed", "interrupted"}
\* EINTR is no error: a request is reissued, a poll reports "not ready".
Fatal(outcome) == outcome = "failed"

\* A system call of the round does nothing: a signal interrupts it before the
\* driver acts, or it fails.
SystemCall(outcome) ==
  /\ call.op # "none"
  /\ outcome = "interrupted" => backend = "ioctl"
  /\ IF Fatal(outcome) THEN Return(Failed) ELSE Stay
  /\ excused' = IF outcome = "failed" THEN excused \cup {call.cmd} ELSE excused
  /\ UNCHANGED <<backend, rings, issued, tagOf, parked, delivered, gone>>

Deadline ==
  /\ call.timed /\ ~call.late
  /\ call' = [call EXCEPT !.late = TRUE]
  /\ excused' = excused \cup {call.cmd}
  /\ UNCHANGED <<backend, rings, issued, tagOf, status, parked, delivered, gone>>
-----------------------------------------------------------------------------
(***************************************************************************)
(* The firmware takes the commands of a queue in order, works on a limited *)
(* number of them, completes them in any order and puts each response on   *)
(* a completion queue meant for it, once that has room.                    *)
(***************************************************************************)

Take(q) ==
  /\ sq[q] # <<>>
  /\ Cardinality(working) < Workers
  /\ working' = working \cup {Head(sq[q])}
  /\ sq' = [sq EXCEPT ![q] = Tail(@)]
  /\ UNCHANGED <<backend, cq, answered, handle, call, gone>>

Complete(c, i) ==
  /\ c \in working /\ i \in CqsOf[c]
  /\ Len(cq[i]) < CqCap
  /\ working' = working \ {c}
  /\ cq' = [cq EXCEPT ![i] = Append(@, c)]
  /\ answered' = answered \cup {c}
  /\ UNCHANGED <<backend, sq, handle, call, gone>>
-----------------------------------------------------------------------------
LoopStep == PushSq \/ SqFull \/ CqsEmpty \/ PopCq

Host ==
  \/ \E c \in Commands :
       \/ \E q \in Sqs : StartPush(c, q)
       \/ CollectParked(c)
       \/ \E timed \in BOOLEAN : StartWait(c, timed)
  \/ LoopStep
  \/ \E outcome \in {"failed", "interrupted"} : SystemCall(outcome)
  \/ Deadline

Firmware ==
  \/ \E q \in Sqs : Take(q)
  \/ \E c \in Commands, i \in Cqs : Complete(c, i)
=============================================================================
