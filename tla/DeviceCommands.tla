--------------------------- MODULE DeviceCommands ---------------------------
(***************************************************************************)
(* The command bookkeeping of `Device` (et-rs/src/device.rs): 16-bit tags, *)
(* the `outstanding` and `abandoned` sets, the `stash` of responses popped *)
(* while another tag was awaited, and the completion queue they come from. *)
(*                                                                         *)
(* `Device` is not Sync, so one host thread makes all calls; it interleaves*)
(* with the firmware, which answers commands in any order (two submission  *)
(* queues, launches without BARRIER) and at any time, also long after the  *)
(* waiter timed out.  A command object is written c \in Commands: the      *)
(* message in the queues, the handle the host holds for it and the         *)
(* response are all named by it, so that a mixed-up response shows.        *)
(***************************************************************************)
EXTENDS Integers

CONSTANTS
  Commands,  \* every command the host ever builds (bounds the runs)
  NumTags,   \* size of the tag space: 65536 in the code
  None       \* no command

ASSUME NumTagsAssumption == NumTags \in Nat \ {0}
ASSUME NoneAssumption == None \notin Commands

VARIABLES
  tag,          \* Device::tag, the next candidate
  outstanding,  \* Device::outstanding
  abandoned,    \* Device::abandoned
  stash,        \* Device::stash: the parked response of each tag, or None
  tagOf,        \* the tag in the header of each command and of its response
  status,       \* what the host is doing about each command
  inflight,     \* commands the device has taken and not answered
  cq,           \* responses in the completion queues (drained in any order)
  malformed,    \* responses too short to hold a header (cq and popped ones)
  delivered     \* the command whose response was returned for each command

hostVars == <<tag, outstanding, abandoned, stash, tagOf, status, delivered>>
deviceVars == <<inflight, cq, malformed>>
vars == <<tag, outstanding, abandoned, stash, tagOf, status, delivered,
          inflight, cq, malformed>>

Tags == 0 .. NumTags - 1

(***************************************************************************)
(* "pushing" and "awaited" are the two states in which a call blocks the   *)
(* host thread; "pending" is an uncollected tag in a PendingLaunch or in a *)
(* `pending` vector; "dropped" one whose holder forgot it.                 *)
(***************************************************************************)
Status == {"unused", "pushing", "refused", "pending", "awaited",
           "collected", "abandoned", "dropped"}

\* Each field of the bookkeeping keeps its type; `next_tag` wraps at the number
\* of tags, so the counter never leaves the range of a header's tag.
TypeOK ==
  /\ tag \in Tags
  /\ outstanding \subseteq Tags
  /\ abandoned \subseteq Tags
  /\ stash \in [Tags -> Commands \cup {None}]
  /\ tagOf \in [Commands -> Tags]
  /\ status \in [Commands -> Status]
  /\ inflight \subseteq Commands
  /\ cq \subseteq Commands
  /\ malformed \subseteq Commands
  /\ delivered \in [Commands -> Commands \cup {None}]

Init ==
  /\ tag = 0
  /\ outstanding = {}
  /\ abandoned = {}
  /\ stash = [t \in Tags |-> None]
  /\ tagOf = [c \in Commands |-> 0]
  /\ status = [c \in Commands |-> "unused"]
  /\ inflight = {}
  /\ cq = {}
  /\ malformed = {}
  /\ delivered = [c \in Commands |-> None]

Idle == \A c \in Commands : status[c] \notin {"pushing", "awaited"}

SetStatus(c, s) == status' = [status EXCEPT ![c] = s]
-----------------------------------------------------------------------------
(***************************************************************************)
(* Submitting.                                                             *)
(***************************************************************************)

\* Variant: the cursor runs past the last tag.
SaturatedSucc(t) == t + 1
\* wrapping_add(1) on the tag width.
WrappingSucc(t) == IF t = NumTags - 1 THEN 0 ELSE t + 1

\* How many candidates next_tag tries before t.
Ahead(t) == IF t >= tag THEN t - tag ELSE t - tag + NumTags

\* Variant: a tag is free again as soon as its waiter has given up.
FreeTagsForgetful == Tags \ (outstanding \ abandoned)
FreeTags == Tags \ outstanding

\* `next_tag`: the first free tag from the cursor on, wrapping.  With every tag
\* reserved the call fails with Error::Limit and changes nothing.
NextTag(c) ==
  /\ Idle
  /\ status[c] = "unused"
  /\ \E t \in FreeTags :
       /\ \A u \in FreeTags : Ahead(t) <= Ahead(u)
       /\ outstanding' = outstanding \cup {t}
       /\ tag' = WrappingSucc(t)
       /\ tagOf' = [tagOf EXCEPT ![c] = t]
  /\ SetStatus(c, "pushing")
  /\ UNCHANGED <<abandoned, stash, delivered, deviceVars>>

\* `push_cmd` once the submission queue has room; the host waits until then.
Push(c) ==
  /\ status[c] = "pushing"
  /\ inflight' = inflight \cup {c}
  /\ SetStatus(c, "pending")
  /\ UNCHANGED <<tag, outstanding, abandoned, stash, tagOf, delivered, cq, malformed>>

\* Variant: the tag of a command that was never queued stays reserved.
ReleaseRefusedNever(c) == UNCHANGED outstanding
ReleaseRefused(c) == outstanding' = outstanding \ {tagOf[c]}

\* `push_cmd` when the transport fails or the queue stays full until the
\* deadline: the command was never queued and its tag is released.
PushFails(c) ==
  /\ status[c] = "pushing"
  /\ ReleaseRefused(c)
  /\ SetStatus(c, "refused")
  /\ UNCHANGED <<tag, abandoned, stash, tagOf, delivered, deviceVars>>
-----------------------------------------------------------------------------
(***************************************************************************)
(* The device.                                                             *)
(***************************************************************************)

Respond(c) ==
  /\ c \in inflight
  /\ inflight' = inflight \ {c}
  /\ cq' = cq \cup {c}
  /\ malformed' \in {malformed, malformed \cup {c}}
  /\ UNCHANGED hostVars
-----------------------------------------------------------------------------
(***************************************************************************)
(* Collecting.                                                             *)
(***************************************************************************)

\* The waiter of c returns with the response of d; the tag is released.
Deliver(c, d) ==
  /\ delivered' = [delivered EXCEPT ![c] = d]
  /\ outstanding' = outstanding \ {tagOf[c]}
  /\ SetStatus(c, "collected")

\* The waiter of c returns with an error; the tag stays reserved.
GiveUp(c) ==
  /\ abandoned' = abandoned \cup {tagOf[c]}
  /\ SetStatus(c, "abandoned")

\* Variant: the completion queue is polled without a look at the stash first.
StashedNever(t) == FALSE
Stashed(t) == stash[t] # None

\* `collect_response` for a tag whose response was parked earlier.
CollectStashed(c) ==
  /\ Idle
  /\ status[c] = "pending"
  /\ Stashed(tagOf[c])
  /\ Deliver(c, stash[tagOf[c]])
  /\ stash' = [stash EXCEPT ![tagOf[c]] = None]
  /\ UNCHANGED <<tag, abandoned, tagOf, deviceVars>>

\* `collect_response` begins to poll the completion queue.
Await(c) ==
  /\ Idle
  /\ status[c] = "pending"
  /\ ~Stashed(tagOf[c])
  /\ SetStatus(c, "awaited")
  /\ UNCHANGED <<tag, outstanding, abandoned, stash, tagOf, delivered, deviceVars>>

\* The polling loop pops the response it waits for.
PopOwn(c) ==
  /\ status[c] = "awaited"
  /\ \E d \in cq \ malformed :
       /\ tagOf[d] = tagOf[c]
       /\ cq' = cq \ {d}
       /\ Deliver(c, d)
  /\ UNCHANGED <<tag, abandoned, stash, tagOf, inflight, malformed>>

\* Variant: a response for another tag is thrown away.
ParkDiscarding(d) ==
  /\ abandoned' = abandoned \ {tagOf[d]}
  /\ outstanding' = IF tagOf[d] \in abandoned THEN outstanding \ {tagOf[d]} ELSE outstanding
  /\ UNCHANGED stash

\* `park`: a late response of an abandoned tag releases it, a response of an
\* outstanding tag is stashed for its own waiter, any other is discarded (the
\* device answers only what this handle submitted, so there is none).
Park(d) ==
  IF tagOf[d] \in abandoned
  THEN /\ abandoned' = abandoned \ {tagOf[d]}
       /\ outstanding' = outstanding \ {tagOf[d]}
       /\ UNCHANGED stash
  ELSE /\ stash' = IF tagOf[d] \in outstanding
                   THEN [stash EXCEPT ![tagOf[d]] = d] ELSE stash
       /\ UNCHANGED <<abandoned, outstanding>>

\* The polling loop pops the response of another command.
PopOther(c) ==
  /\ status[c] = "awaited"
  /\ \E d \in cq \ malformed :
       /\ tagOf[d] # tagOf[c]
       /\ cq' = cq \ {d}
       /\ Park(d)
  /\ UNCHANGED <<tag, tagOf, status, delivered, inflight, malformed>>

\* The polling loop pops a response without a header: the wait fails with
\* Error::Protocol, whichever command the response was for.
PopMalformed(c) ==
  /\ status[c] = "awaited"
  /\ \E d \in cq \cap malformed : cq' = cq \ {d}
  /\ GiveUp(c)
  /\ UNCHANGED <<tag, outstanding, stash, tagOf, delivered, inflight, malformed>>

\* The wait reaches its deadline, or the transport fails.
WaitFails(c) ==
  /\ status[c] = "awaited"
  /\ GiveUp(c)
  /\ UNCHANGED <<tag, outstanding, stash, tagOf, delivered, deviceVars>>

\* `abandon`: the holder of an uncollected tag gives it up without waiting.
Abandon(c) ==
  /\ Idle
  /\ status[c] = "pending"
  /\ IF Stashed(tagOf[c])
     THEN /\ stash' = [stash EXCEPT ![tagOf[c]] = None]
          /\ outstanding' = outstanding \ {tagOf[c]}
          /\ SetStatus(c, "abandoned")
          /\ UNCHANGED abandoned
     ELSE /\ GiveUp(c)
          /\ UNCHANGED <<stash, outstanding>>
  /\ UNCHANGED <<tag, tagOf, delivered, deviceVars>>

\* The holder forgets the tag: a PendingLaunch dropped without wait_launch.
DropHandle(c) ==
  /\ Idle
  /\ status[c] = "pending"
  /\ SetStatus(c, "dropped")
  /\ UNCHANGED <<tag, outstanding, abandoned, stash, tagOf, delivered, deviceVars>>
-----------------------------------------------------------------------------
Pop(c) == PopOwn(c) \/ PopOther(c) \/ PopMalformed(c)

Next ==
  \E c \in Commands :
    \/ NextTag(c) \/ Push(c) \/ PushFails(c)
    \/ Respond(c)
    \/ CollectStashed(c) \/ Await(c) \/ Pop(c) \/ WaitFails(c)
    \/ Abandon(c) \/ DropHandle(c)

Spec == Init /\ [][Next]_vars

(***************************************************************************)
(* The firmware answers every command it took, and a blocked call keeps    *)
(* polling.  No wait is assumed to time out: a DMA wait has no deadline by *)
(* default.                                                                *)
(***************************************************************************)
Fairness ==
  \A c \in Commands :
    /\ WF_vars(Respond(c))
    /\ WF_vars(Push(c) \/ PushFails(c))
    /\ WF_vars(Pop(c))

FairSpec == Spec /\ Fairness
-----------------------------------------------------------------------------
(***************************************************************************)
(* Properties.                                                             *)
(***************************************************************************)

\* A call never returns the response of another command, however late that
\* response is and however often the tags have wrapped.
OwnResponse == \A c \in Commands : delivered[c] \in {None, c}

\* The command still holds its tag: somebody may claim its response, or its
\* response may still arrive, or it was unreadable and will never be known to
\* have arrived.
HoldsTag(c) ==
  \/ status[c] \in {"pushing", "pending", "awaited", "dropped"}
  \/ status[c] = "abandoned" /\ c \in inflight \cup cq \cup malformed

\* The reserved tags are those of the commands that hold one, and the abandoned
\* ones those that wait for a late response.
TagsReserved ==
  \A t \in Tags :
    /\ t \in outstanding <=> \E c \in Commands : HoldsTag(c) /\ tagOf[c] = t
    /\ t \in abandoned <=>
         \E c \in Commands : HoldsTag(c) /\ status[c] = "abandoned" /\ tagOf[c] = t

\* No tag leaks and none is freed early, by whichever path a command ends
\* (`next_tag`, `push_cmd`, `collect_response`, `park`); types are kept, so the
\* counter wraps.
TagsAccounted == TypeOK /\ TagsReserved

\* A response somebody may still ask for is under way, queued or stashed
\* under its own tag, unless the device mangled it: none is discarded or
\* overwritten while another call drains the queue.
NoResponseLost ==
  \A c \in Commands :
    status[c] \in {"pending", "awaited", "dropped"} =>
      c \in inflight \cup cq \cup malformed \/ stash[tagOf[c]] = c

\* No two commands that still hold a tag share it, so a tag in a response names
\* one command: the reason why matching by tag is matching by command.
TagNamesOneCommand ==
  \A c, d \in Commands :
    HoldsTag(c) /\ HoldsTag(d) /\ tagOf[c] = tagOf[d] => c = d

\* Where each response is: in one place, and for a command still waiting for it.
ResponsesInPlace ==
  /\ inflight \cap (cq \cup malformed) = {}
  /\ \A c \in inflight \cup cq \cup malformed :
       status[c] \in {"pending", "awaited", "dropped", "abandoned"}
  /\ \A t \in Tags : Stashed(t) =>
       /\ tagOf[stash[t]] = t
       /\ status[stash[t]] \in {"pending", "dropped"}
       /\ stash[t] \notin inflight \cup cq \cup malformed
  /\ \A c \in Commands : status[c] = "collected" => delivered[c] = c
  /\ \A c \in Commands : status[c] # "collected" => delivered[c] = None

\* The host thread is in one call at a time.
OneCallAtATime ==
  \A c, d \in Commands :
    {status[c], status[d]} \subseteq {"pushing", "awaited"} => c = d

\* The inductive invariant.
IInv ==
  /\ TypeOK
  /\ OwnResponse
  /\ TagsReserved
  /\ NoResponseLost
  /\ TagNamesOneCommand
  /\ ResponsesInPlace
  /\ OneCallAtATime

\* A wait returns, although it has no deadline, if the response of the command
\* was not mangled: it is not stuck behind the stash or other responses.
WaitsEnd ==
  \A c \in Commands :
    status[c] = "awaited" /\ c \notin malformed \ cq ~> status[c] # "awaited"

(***************************************************************************)
(* The channel the callers of `Device` rely on.  A command the queue       *)
(* refused was never submitted; a dropped one stays submitted for ever.    *)
(***************************************************************************)
StateOf(s) ==
  IF s \in {"unused", "pushing", "refused"} THEN "unused"
  ELSE IF s = "collected" THEN "collected"
  ELSE IF s = "abandoned" THEN "givenUp" ELSE "submitted"

ChannelState == [c \in Commands |-> StateOf(status[c])]

Answered == {c \in Commands : ChannelState[c] # "unused"} \ inflight

Channel == INSTANCE CommandChannel WITH state <- ChannelState, answered <- Answered

\* Tags, stash and late responses together implement the command channel.
ImplementsChannel == Channel!Spec
=============================================================================
