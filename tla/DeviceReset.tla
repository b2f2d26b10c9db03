---------------------------- MODULE DeviceReset ----------------------------
(***************************************************************************)
(* The host's handle, the driver's operations node and the firmware behind *)
(* it: DriverQueues composed with `Device::reset_device` and with opening  *)
(* the device anew.                                                        *)
(*                                                                         *)
(* reset_device consumes the handle, so the node is closed; it sends the   *)
(* reset command through the management node, which no response answers;   *)
(* then it opens the operations node and queries it every 250 ms until     *)
(* both succeed or 30 s have passed.  The firmware restarts only when no   *)
(* descriptor of the operations node is open, and the node opens again     *)
(* before the firmware answers queries.                                    *)
(***************************************************************************)
EXTENDS DriverQueues

CONSTANTS
  MaxResets,        \* calls of reset_device (bounds the runs)
  OpensWhileAsked   \* the driver opens the node with a reset pending

ASSUME DeviceResetAssumption ==
  /\ MaxResets \in Nat
  /\ OpensWhileAsked \in BOOLEAN

VARIABLES
  firmware,   \* "up"; "asked" to reset; "down"; "starting", serving no query
  opsFds,     \* who has the operations node open
  reset,      \* where reset_device is: "none", "send", "sleep" or "query"
  resetLate,  \* its 30 s have passed
  resets,     \* resets begun
  booted      \* history: the firmware has restarted since the command was sent

nodeVars == <<firmware, opsFds, reset, resetLate, resets, booted>>
vars == <<queueVars, nodeVars>>

Holders == {"host", "other"}
Serving == {"up", "asked"}

\* The program holds a `Device`.
HasHandle == "host" \in opsFds /\ reset = "none"

Init ==
  /\ QueuesInit
  /\ firmware = "up"
  /\ opsFds \in {{"host"}, Holders}
  /\ reset = "none"
  /\ resetLate = FALSE
  /\ resets = 0
  /\ booted = FALSE

\* Nothing of a dropped handle is queued or under way.
Quiet == sq = [q \in Sqs |-> <<>>] /\ working = {} /\ cq = [i \in Cqs |-> <<>>]

Issued == {c \in Commands : status[c] # "unused"}
-----------------------------------------------------------------------------
(***************************************************************************)
(* reset_device, and Device::open after it has failed.                     *)
(***************************************************************************)

\* Variant: the handle lives until the call returns.
DroppedKept == {}
\* What `drop(self)` closes.
Dropped == {"host"}

\* The tag of the reset command is taken from the old handle; then its
\* descriptor, with the stash and everything else it kept, is gone.
StartReset ==
  /\ HasHandle
  /\ call = NoCall
  /\ backend = "ioctl"
  /\ resets < MaxResets
  /\ resets' = resets + 1
  /\ reset' = "send"
  /\ opsFds' = opsFds \ Dropped
  /\ gone' = Issued
  /\ parked' = {}
  /\ booted' = FALSE
  /\ UNCHANGED <<backend, rings, issued, tagOf, status, delivered, call, excused,
                 firmware, resetLate>>

\* push_one_cmd queues the command; the firmware is asked to reset.  The 30 s
\* begin.
SendReset ==
  /\ reset = "send"
  /\ firmware' = IF firmware = "up" THEN "asked" ELSE firmware
  /\ reset' = "sleep"
  /\ UNCHANGED <<queueVars, opsFds, resetLate, resets, booted>>

\* Variant: the error of push_one_cmd is ignored.
SendFailsUnnoticed ==
  /\ reset = "send"
  /\ reset' = "sleep"
  /\ UNCHANGED <<queueVars, firmware, opsFds, resetLate, resets, booted>>

\* The management node is single-open and may be busy, its queue full, or the
\* system call fails: the program is left without a handle.
SendFails ==
  /\ reset = "send"
  /\ reset' = "none"
  /\ UNCHANGED <<queueVars, firmware, opsFds, resetLate, resets, booted>>

\* The driver opens the node.
Openable == firmware \in {"up", "starting"} \/ (OpensWhileAsked /\ firmware = "asked")

OpenAgain ==
  /\ reset = "sleep"
  /\ Openable
  /\ opsFds' = opsFds \cup {"host"}
  /\ reset' = "query"
  /\ UNCHANGED <<queueVars, firmware, resetLate, resets, booted>>

\* with_transport: GET_USER_DRAM_INFO is answered.  Tags start from 0 again and
\* nothing is parked.
FreshHandle ==
  /\ issued' = 0
  /\ parked' = {}
  /\ UNCHANGED <<backend, rings, tagOf, status, delivered, call, excused, gone>>

QuerySucceeds ==
  /\ reset = "query"
  /\ firmware \in Serving
  /\ FreshHandle
  /\ reset' = "none"
  /\ resetLate' = FALSE
  /\ UNCHANGED <<firmware, opsFds, resets, booted>>

\* Variant: the reset loop has no deadline.
ResetExpiredNever == FALSE
ResetExpired == resetLate

\* After an attempt that failed: another one, or Error::Timeout.
TryAgain ==
  /\ reset' = IF ResetExpired THEN "none" ELSE "sleep"
  /\ resetLate' = IF ResetExpired THEN FALSE ELSE resetLate

\* Variant: the transport of a failed handshake is not closed.
ClosedOnErrorNever == {}
\* with_transport owns the transport and drops it with its error.
ClosedOnError == {"host"}

\* A query fails before the firmware serves it, and it may fail later.
QueryFails ==
  /\ reset = "query"
  /\ opsFds' = opsFds \ ClosedOnError
  /\ TryAgain
  /\ UNCHANGED <<queueVars, firmware, resets, booted>>

OpenFails ==
  /\ reset = "sleep"
  /\ TryAgain
  /\ UNCHANGED <<queueVars, firmware, opsFds, resets, booted>>

ResetDeadline ==
  /\ reset \in {"sleep", "query"}
  /\ ~resetLate
  /\ resetLate' = TRUE
  /\ UNCHANGED <<queueVars, firmware, opsFds, reset, resets, booted>>

\* Device::open, once more.  A handle opened without a reset in between would
\* pop what is left of the old one, whose tags it uses again; what the driver
\* does with that is not part of this program, so the queues are taken to have
\* run empty.
Reopen ==
  /\ reset = "none" /\ "host" \notin opsFds
  /\ firmware = "up"
  /\ Quiet
  /\ opsFds' = opsFds \cup {"host"}
  /\ FreshHandle
  /\ UNCHANGED <<firmware, reset, resetLate, resets, booted>>
-----------------------------------------------------------------------------
(***************************************************************************)
(* Other processes and the firmware.                                       *)
(***************************************************************************)

OtherCloses ==
  /\ "other" \in opsFds
  /\ opsFds' = opsFds \ {"other"}
  /\ UNCHANGED <<queueVars, firmware, reset, resetLate, resets, booted>>

\* "The driver will not complete the reset while any ops fd remains open."
GoDown ==
  /\ firmware = "asked"
  /\ opsFds = {}
  /\ firmware' = "down"
  /\ sq' = [q \in Sqs |-> <<>>]
  /\ working' = {}
  /\ cq' = [i \in Cqs |-> <<>>]
  /\ UNCHANGED <<backend, answered, handle, call, gone, opsFds, reset, resetLate,
                 resets, booted>>

\* The node is there again ...
Boot ==
  /\ firmware = "down"
  /\ firmware' = "starting"
  /\ UNCHANGED <<queueVars, opsFds, reset, resetLate, resets, booted>>

\* ... before queries are answered.
Serve ==
  /\ firmware = "starting"
  /\ firmware' = "up"
  /\ booted' = TRUE
  /\ UNCHANGED <<queueVars, opsFds, reset, resetLate, resets>>
-----------------------------------------------------------------------------
Driving == HasHandle /\ Host /\ UNCHANGED nodeVars
Looping == HasHandle /\ LoopStep /\ UNCHANGED nodeVars
PushDeadline == HasHandle /\ call.op = "push" /\ Deadline /\ UNCHANGED nodeVars
Working == firmware \in Serving /\ Firmware /\ UNCHANGED nodeVars

ResetCall ==
  \/ SendReset \/ SendFails \/ OpenAgain \/ OpenFails
  \/ QuerySucceeds \/ QueryFails \/ ResetDeadline

Next ==
  \/ Driving
  \/ Working
  \/ StartReset
  \/ ResetCall
  \/ Reopen
  \/ OtherCloses
  \/ GoDown \/ Boot \/ Serve

Spec == Init /\ [][Next]_vars

\* The host thread runs; the clocks of a push and of a reset run; a descriptor
\* held by another process is closed in the end; the firmware works and, when
\* it may restart, does.
Fairness ==
  /\ WF_vars(Looping)
  /\ WF_vars(PushDeadline)
  /\ WF_vars(ResetCall)
  /\ WF_vars(ResetDeadline)
  /\ WF_vars(Working)
  /\ WF_vars(OtherCloses)
  /\ WF_vars(GoDown) /\ WF_vars(Boot) /\ WF_vars(Serve)

FairSpec == Spec /\ Fairness
-----------------------------------------------------------------------------
(***************************************************************************)
(* Properties.                                                             *)
(***************************************************************************)

Ops == {"none", "push", "wait"}
Statuses == {"unused", "pushing", "submitted", "refused", "collected", "givenUp"}

\* Types; and the queues keep to their sizes, and `park` keeps only responses
\* that a command of this handle still waits for, so that the stash does not
\* grow with commands given up or dropped.
TypeOK ==
  /\ backend \in {"ioctl", "emulator"}
  /\ sq \in [Sqs -> Seq(Commands)] /\ \A q \in Sqs : Len(sq[q]) <= SqCap
  /\ cq \in [Cqs -> Seq(Commands)] /\ \A i \in Cqs : Len(cq[i]) <= CqCap
  /\ working \subseteq Commands /\ answered \subseteq Commands
  /\ issued \in Nat /\ tagOf \in [Commands -> Nat]
  /\ status \in [Commands -> Statuses]
  /\ parked \subseteq {c \in Commands \ gone : status[c] = "submitted"}
  /\ delivered \in [Commands -> Commands \cup {None}]
  /\ call \in [op : Ops, cmd : Commands \cup {None}, queue : Sqs,
               timed : BOOLEAN, late : BOOLEAN]
  /\ excused \subseteq Commands /\ gone \subseteq Commands
  /\ firmware \in {"up", "asked", "down", "starting"}
  /\ opsFds \subseteq Holders
  /\ reset \in {"none", "send", "sleep", "query"}
  /\ resetLate \in BOOLEAN /\ booted \in BOOLEAN
  /\ resets \in 0 .. MaxResets

\* A push or a wait fails only because its time ran out or the transport
\* reported an error: not on a full queue, an empty one, a signal, or a poll
\* that reported readiness in vain (push_cmd_inner, collect_response_inner,
\* `interrupted`).
FailsForAReason ==
  TypeOK /\ \A c \in Commands : status[c] \in {"refused", "givenUp"} => c \in excused

\* The loops implement the command channel, also across handles, each of which
\* counts its tags from 0: a command is queued once, and whoever collects a
\* response collects that of its own command.  A command that could not be
\* pushed was never submitted.
ChannelState ==
  [c \in Commands |-> IF status[c] \in {"pushing", "refused"} THEN "unused" ELSE status[c]]
Channel == INSTANCE CommandChannel WITH state <- ChannelState
ImplementsChannel == Channel!Spec

\* A device that reset_device returns has restarted since the call, and nothing
\* of the old handle is left in it.
ReturnsRestarted == [][reset # "none" /\ HasHandle' => booted /\ Quiet]_vars

\* push_cmd returns although nobody reads the completion queues meanwhile, so
\* that the firmware may be unable to go on; a wait ends even without a
\* timeout (collect_response), whichever completion queue the response comes on
\* and however many others come first, unless the emulator has lost the response,
\* to this wait or to another one; and reset_device returns, whatever the firmware
\* and the node do, and once sent brings the firmware back.
CallsReturn ==
  /\ call.op = "push" ~> call.op # "push"
  /\ call.op = "wait" /\ ~Lost(call.cmd) ~> call.op # "wait"
  /\ reset # "none" ~> reset = "none"
  /\ firmware = "asked" ~> firmware = "up"
=============================================================================
