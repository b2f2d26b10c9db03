--------------------------- MODULE Commands_proof ---------------------------
(***************************************************************************)
(* Proofs about commands: first about their tags and completions           *)
(* (DeviceCommands), for every set of commands and every number of tags,   *)
(* then about what they say (Messages), for every device, call and         *)
(* response.  The two components share no variable and no name.            *)
(***************************************************************************)
EXTENDS DeviceCommands, Messages, TLAPS
-----------------------------------------------------------------------------
(***************************************************************************)
(* Tags and completions.                                                   *)
(***************************************************************************)

\* Every variable keeps its type: the type invariant of the bookkeeping.
LEMMA TypeStep == TypeOK /\ [Next]_vars => TypeOK'
<1> SUFFICES ASSUME TypeOK, [Next]_vars PROVE TypeOK'
  OBVIOUS
<1> USE DEF TypeOK, SetStatus, Status, hostVars, deviceVars
<1>1. ASSUME NEW c \in Commands, NextTag(c) PROVE TypeOK'
  BY <1>1, NumTagsAssumption DEF NextTag, FreeTags, WrappingSucc, Tags
<1>2. ASSUME NEW c \in Commands, Push(c) PROVE TypeOK'
  BY <1>2 DEF Push
<1>3. ASSUME NEW c \in Commands, PushFails(c) PROVE TypeOK'
  BY <1>3 DEF PushFails, ReleaseRefused
<1>4. ASSUME NEW c \in Commands, Respond(c) PROVE TypeOK'
  BY <1>4 DEF Respond
<1>5. ASSUME NEW c \in Commands, CollectStashed(c) PROVE TypeOK'
  BY <1>5 DEF CollectStashed, Stashed, Deliver
<1>6. ASSUME NEW c \in Commands, Await(c) PROVE TypeOK'
  BY <1>6 DEF Await
<1>7. ASSUME NEW c \in Commands, PopOwn(c) PROVE TypeOK'
  BY <1>7 DEF PopOwn, Deliver
<1>8. ASSUME NEW c \in Commands, PopOther(c) PROVE TypeOK'
  BY <1>8 DEF PopOther, Park
<1>9. ASSUME NEW c \in Commands, PopMalformed(c) PROVE TypeOK'
  BY <1>9 DEF PopMalformed, GiveUp
<1>10. ASSUME NEW c \in Commands, WaitFails(c) PROVE TypeOK'
  BY <1>10 DEF WaitFails, GiveUp
<1>11. ASSUME NEW c \in Commands, Abandon(c) PROVE TypeOK'
  BY <1>11 DEF Abandon, GiveUp
<1>12. ASSUME NEW c \in Commands, DropHandle(c) PROVE TypeOK'
  BY <1>12 DEF DropHandle
<1>13. CASE UNCHANGED vars
  BY <1>13 DEF vars
<1>14. QED
  BY <1>1, <1>2, <1>3, <1>4, <1>5, <1>6, <1>7, <1>8, <1>9, <1>10, <1>11, <1>12, <1>13
  DEF Next, Pop

\* Before the first command no tag is reserved and no response exists.
LEMMA InitIInv == Init => IInv
  BY NumTagsAssumption, NoneAssumption
  DEF Init, IInv, TypeOK, OwnResponse, TagsReserved, NoResponseLost, TagNamesOneCommand,
      ResponsesInPlace, OneCallAtATime, HoldsTag, Stashed, Tags, Status

\* A call reserves a free tag: no holder and no response has it.
LEMMA NextTagStep ==
  ASSUME IInv, NEW c \in Commands, NextTag(c), TypeOK'
  PROVE  IInv'
<1> USE NoneAssumption DEF IInv, NextTag, SetStatus, deviceVars, TypeOK, HoldsTag, FreeTags
<1>1. OwnResponse' BY DEF OwnResponse
<1>2. NoResponseLost' BY DEF NoResponseLost
<1>3. TagNamesOneCommand' BY DEF TagNamesOneCommand, TagsReserved
<1>4. ResponsesInPlace' BY DEF ResponsesInPlace, Stashed
<1>5. TagsReserved' BY DEF TagsReserved
<1>6. OneCallAtATime' BY DEF OneCallAtATime, Idle
<1>7. QED BY <1>1, <1>2, <1>3, <1>4, <1>5, <1>6

\* The command is on the queue and its tag is pending.
LEMMA PushStep ==
  ASSUME IInv, NEW c \in Commands, Push(c), TypeOK'
  PROVE  IInv'
<1> USE NoneAssumption DEF IInv, Push, SetStatus, deviceVars, TypeOK, HoldsTag
<1>1. OwnResponse' BY DEF OwnResponse
<1>2. NoResponseLost' BY DEF NoResponseLost
<1>3. TagNamesOneCommand' BY DEF TagNamesOneCommand
<1>4. ResponsesInPlace' BY DEF ResponsesInPlace, Stashed
<1>5. TagsReserved' BY DEF TagsReserved
<1>6. OneCallAtATime' BY DEF OneCallAtATime
<1>7. QED BY <1>1, <1>2, <1>3, <1>4, <1>5, <1>6

\* The queue refused the command: its tag is free again, and no response can come for it.
LEMMA PushFailsStep ==
  ASSUME IInv, NEW c \in Commands, PushFails(c), TypeOK'
  PROVE  IInv'
<1> USE NoneAssumption DEF IInv, PushFails, SetStatus, deviceVars, TypeOK, HoldsTag, ReleaseRefused
<1>1. OwnResponse' BY DEF OwnResponse
<1>2. NoResponseLost' BY DEF NoResponseLost
<1>3. TagNamesOneCommand' BY DEF TagNamesOneCommand
<1>4. ResponsesInPlace' BY DEF ResponsesInPlace, Stashed
<1>5. TagsReserved' BY DEF TagsReserved, TagNamesOneCommand
<1>6. OneCallAtATime' BY DEF OneCallAtATime
<1>7. QED BY <1>1, <1>2, <1>3, <1>4, <1>5, <1>6

\* The device puts a response on the completion queue; the tag it names is still reserved.
LEMMA RespondStep ==
  ASSUME IInv, NEW c \in Commands, Respond(c), TypeOK'
  PROVE  IInv'
<1> USE NoneAssumption DEF IInv, Respond, SetStatus, deviceVars, TypeOK, HoldsTag, hostVars
<1>1. OwnResponse' BY DEF OwnResponse
<1>2. NoResponseLost' BY DEF NoResponseLost
<1>3. TagNamesOneCommand' BY DEF TagNamesOneCommand
<1>4. ResponsesInPlace' BY DEF ResponsesInPlace, Stashed
<1>5. TagsReserved' BY DEF TagsReserved
<1>6. OneCallAtATime' BY DEF OneCallAtATime
<1>7. QED BY <1>1, <1>2, <1>3, <1>4, <1>5, <1>6

\* A waiter finds its response among the parked ones.
LEMMA CollectStashedStep ==
  ASSUME IInv, NEW c \in Commands, CollectStashed(c), TypeOK'
  PROVE  IInv'
<1> USE NoneAssumption DEF IInv, CollectStashed, SetStatus, deviceVars, TypeOK, HoldsTag, Deliver
<1>1. OwnResponse' BY DEF OwnResponse, TagNamesOneCommand, ResponsesInPlace
<1>2. NoResponseLost' BY DEF NoResponseLost, TagNamesOneCommand
<1>3. TagNamesOneCommand' BY DEF TagNamesOneCommand
<1>4. ResponsesInPlace' BY DEF ResponsesInPlace, Stashed, TagNamesOneCommand
<1>5. TagsReserved' BY DEF TagsReserved, TagNamesOneCommand
<1>6. OneCallAtATime' BY DEF OneCallAtATime
<1>7. QED BY <1>1, <1>2, <1>3, <1>4, <1>5, <1>6

\* A waiter that found nothing parked turns to the completion queue.
LEMMA AwaitStep ==
  ASSUME IInv, NEW c \in Commands, Await(c), TypeOK'
  PROVE  IInv'
<1> USE NoneAssumption DEF IInv, Await, SetStatus, deviceVars, TypeOK, HoldsTag
<1>1. OwnResponse' BY DEF OwnResponse
<1>2. NoResponseLost' BY DEF NoResponseLost
<1>3. TagNamesOneCommand' BY DEF TagNamesOneCommand
<1>4. ResponsesInPlace' BY DEF ResponsesInPlace, Stashed
<1>5. TagsReserved' BY DEF TagsReserved
<1>6. OneCallAtATime' BY DEF OneCallAtATime, Idle
<1>7. QED BY <1>1, <1>2, <1>3, <1>4, <1>5, <1>6

\* The waiter pops its own response.
LEMMA PopOwnStep ==
  ASSUME IInv, NEW c \in Commands, PopOwn(c), TypeOK'
  PROVE  IInv'
<1> USE NoneAssumption DEF IInv, PopOwn, SetStatus, deviceVars, TypeOK, HoldsTag, Deliver
<1>1. OwnResponse' BY DEF OwnResponse, TagNamesOneCommand, ResponsesInPlace
<1>2. NoResponseLost' BY DEF NoResponseLost, TagNamesOneCommand
<1>3. TagNamesOneCommand' BY DEF TagNamesOneCommand
<1>4. ResponsesInPlace' BY DEF ResponsesInPlace, Stashed, TagNamesOneCommand
<1>5. TagsReserved' BY DEF TagsReserved, TagNamesOneCommand
<1>6. OneCallAtATime' BY DEF OneCallAtATime
<1>7. QED BY <1>1, <1>2, <1>3, <1>4, <1>5, <1>6

\* The waiter pops a response of another: parked if its holder may still ask, dropped with the tag if it was abandoned.
LEMMA PopOtherStep ==
  ASSUME IInv, NEW c \in Commands, PopOther(c), TypeOK'
  PROVE  IInv'
<1> USE NoneAssumption DEF IInv, PopOther, SetStatus, deviceVars, TypeOK, HoldsTag, Park
<1>1. OwnResponse' BY DEF OwnResponse
<1>2. NoResponseLost' BY DEF NoResponseLost, TagNamesOneCommand, ResponsesInPlace, TagsReserved
<1>3. TagNamesOneCommand' BY DEF TagNamesOneCommand
<1>4. ResponsesInPlace' BY DEF ResponsesInPlace, Stashed, TagsReserved, OneCallAtATime
<1>5. TagsReserved' BY DEF TagsReserved, TagNamesOneCommand, ResponsesInPlace
<1>6. OneCallAtATime' BY DEF OneCallAtATime
<1>7. QED BY <1>1, <1>2, <1>3, <1>4, <1>5, <1>6

\* The waiter pops a response it cannot read: its own tag stays reserved as abandoned.
LEMMA PopMalformedStep ==
  ASSUME IInv, NEW c \in Commands, PopMalformed(c), TypeOK'
  PROVE  IInv'
<1> USE NoneAssumption DEF IInv, PopMalformed, SetStatus, deviceVars, TypeOK, HoldsTag, GiveUp
<1>1. OwnResponse' BY DEF OwnResponse
<1>2. NoResponseLost' BY DEF NoResponseLost
<1>3. TagNamesOneCommand' BY DEF TagNamesOneCommand
<1>4. ResponsesInPlace' BY DEF ResponsesInPlace, Stashed
<1>5. TagsReserved' BY DEF NoResponseLost, TagsReserved, ResponsesInPlace, Stashed
<1>6. OneCallAtATime' BY DEF OneCallAtATime
<1>7. QED BY <1>1, <1>2, <1>3, <1>4, <1>5, <1>6

\* The wait fails, and the tag is abandoned with its response outstanding.
LEMMA WaitFailsStep ==
  ASSUME IInv, NEW c \in Commands, WaitFails(c), TypeOK'
  PROVE  IInv'
<1> USE NoneAssumption DEF IInv, WaitFails, SetStatus, deviceVars, TypeOK, HoldsTag, GiveUp
<1>1. OwnResponse' BY DEF OwnResponse
<1>2. NoResponseLost' BY DEF NoResponseLost
<1>3. TagNamesOneCommand' BY DEF TagNamesOneCommand
<1>4. ResponsesInPlace' BY DEF ResponsesInPlace, Stashed
<1>5. TagsReserved' BY DEF NoResponseLost, TagsReserved, ResponsesInPlace, Stashed
<1>6. OneCallAtATime' BY DEF OneCallAtATime
<1>7. QED BY <1>1, <1>2, <1>3, <1>4, <1>5, <1>6

\* The caller gives up a pending command: a parked response is discarded with its tag.
LEMMA AbandonStep ==
  ASSUME IInv, NEW c \in Commands, Abandon(c), TypeOK'
  PROVE  IInv'
<1> USE NoneAssumption DEF IInv, Abandon, SetStatus, deviceVars, TypeOK, HoldsTag, GiveUp
<1>1. OwnResponse' BY DEF OwnResponse
<1>2. NoResponseLost' BY DEF NoResponseLost, TagNamesOneCommand
<1>3. TagNamesOneCommand' BY DEF TagNamesOneCommand
<1>4. ResponsesInPlace' BY DEF ResponsesInPlace, Stashed
<1>5. TagsReserved' BY DEF NoResponseLost, TagsReserved, TagNamesOneCommand, ResponsesInPlace, Stashed
<1>6. OneCallAtATime' BY DEF OneCallAtATime
<1>7. QED BY <1>1, <1>2, <1>3, <1>4, <1>5, <1>6

\* A handle is dropped while its command is pending: nothing is freed.
LEMMA DropHandleStep ==
  ASSUME IInv, NEW c \in Commands, DropHandle(c), TypeOK'
  PROVE  IInv'
<1> USE NoneAssumption DEF IInv, DropHandle, SetStatus, deviceVars, TypeOK, HoldsTag
<1>1. OwnResponse' BY DEF OwnResponse
<1>2. NoResponseLost' BY DEF NoResponseLost
<1>3. TagNamesOneCommand' BY DEF TagNamesOneCommand
<1>4. ResponsesInPlace' BY DEF ResponsesInPlace, Stashed
<1>5. TagsReserved' BY DEF TagsReserved
<1>6. OneCallAtATime' BY DEF OneCallAtATime
<1>7. QED BY <1>1, <1>2, <1>3, <1>4, <1>5, <1>6

\* The bookkeeping keeps its inductive invariant: every reserved tag has one
\* holder, and every response is where the holder of its tag will look for it.
THEOREM Inductive == Spec => []IInv
<1>1. IInv /\ [Next]_vars => IInv'
  <2> SUFFICES ASSUME IInv, [Next]_vars PROVE IInv'
    OBVIOUS
  <2>0. TypeOK'
    BY TypeStep DEF IInv
  <2>1. ASSUME NEW c \in Commands, NextTag(c) PROVE IInv'
    BY <2>1, <2>0, NextTagStep
  <2>2. ASSUME NEW c \in Commands, Push(c) PROVE IInv'
    BY <2>2, <2>0, PushStep
  <2>3. ASSUME NEW c \in Commands, PushFails(c) PROVE IInv'
    BY <2>3, <2>0, PushFailsStep
  <2>4. ASSUME NEW c \in Commands, Respond(c) PROVE IInv'
    BY <2>4, <2>0, RespondStep
  <2>5. ASSUME NEW c \in Commands, CollectStashed(c) PROVE IInv'
    BY <2>5, <2>0, CollectStashedStep
  <2>6. ASSUME NEW c \in Commands, Await(c) PROVE IInv'
    BY <2>6, <2>0, AwaitStep
  <2>7. ASSUME NEW c \in Commands, PopOwn(c) PROVE IInv'
    BY <2>7, <2>0, PopOwnStep
  <2>8. ASSUME NEW c \in Commands, PopOther(c) PROVE IInv'
    BY <2>8, <2>0, PopOtherStep
  <2>9. ASSUME NEW c \in Commands, PopMalformed(c) PROVE IInv'
    BY <2>9, <2>0, PopMalformedStep
  <2>10. ASSUME NEW c \in Commands, WaitFails(c) PROVE IInv'
    BY <2>10, <2>0, WaitFailsStep
  <2>11. ASSUME NEW c \in Commands, Abandon(c) PROVE IInv'
    BY <2>11, <2>0, AbandonStep
  <2>12. ASSUME NEW c \in Commands, DropHandle(c) PROVE IInv'
    BY <2>12, <2>0, DropHandleStep
  <2>13. CASE UNCHANGED vars
    BY <2>13 DEF vars, IInv, TypeOK, OwnResponse, TagsReserved, NoResponseLost,
       TagNamesOneCommand, ResponsesInPlace, OneCallAtATime, HoldsTag, Stashed
  <2>14. QED
    BY <2>1, <2>2, <2>3, <2>4, <2>5, <2>6, <2>7, <2>8, <2>9, <2>10, <2>11, <2>12, <2>13 DEF Next, Pop
<1>2. QED
  BY InitIInv, <1>1, PTL DEF Spec

\* No field of `Device` ever leaves its type: in particular no tag outside the
\* tag space is issued when the cursor wraps.
THEOREM TypeCorrect == Spec => []TypeOK
<1>1. IInv => TypeOK
  BY DEF IInv
<1>2. QED
  BY Inductive, <1>1, PTL

\* collect_response returns the response of the command it was called for, or
\* an error; never the late response of an earlier user of the tag.
THEOREM ResponsesAreOwn == Spec => []OwnResponse
<1>1. IInv => OwnResponse
  BY DEF IInv
<1>2. QED
  BY Inductive, <1>1, PTL

\* A tag is reserved exactly as long as a response bearing it may be claimed or
\* may still arrive.
THEOREM TagsAreAccounted == Spec => [](TagsAccounted /\ TagNamesOneCommand)
<1>1. IInv => TagsAccounted /\ TagNamesOneCommand
  BY DEF IInv, TagsAccounted
<1>2. QED
  BY Inductive, <1>1, PTL

\* park and the stash lose no response that a handle still entitles to.
THEOREM ResponsesAreKept == Spec => []NoResponseLost
<1>1. IInv => NoResponseLost
  BY DEF IInv
<1>2. QED
  BY Inductive, <1>1, PTL
-----------------------------------------------------------------------------
(***************************************************************************)
(* Refinement: every step is a step of CommandChannel, or none at all.     *)
(***************************************************************************)

\* What a change of one command's status does to the abstract state.
LEMMA ChannelStateUpdate ==
  ASSUME TypeOK, NEW c \in Commands, NEW s \in Status, SetStatus(c, s)
  PROVE  /\ ChannelState' = [ChannelState EXCEPT ![c] = StateOf(s)]
         /\ ChannelState[c] = StateOf(status[c])
BY DEF TypeOK, SetStatus, ChannelState

\* A status the abstract channel does not tell apart leaves its state alone.
LEMMA ChannelStateSame ==
  ASSUME TypeOK, NEW c \in Commands, NEW s \in Status, SetStatus(c, s),
         StateOf(s) = StateOf(status[c])
  PROVE  UNCHANGED ChannelState
<1>1. \A d \in Commands : StateOf(status'[d]) = StateOf(status[d])
  BY DEF TypeOK, SetStatus
<1>2. QED
  BY <1>1 DEF ChannelState

\* Which statuses count as answered once the device has the command.
LEMMA AnsweredUpdate ==
  ASSUME TypeOK, NEW c \in Commands, NEW s \in Status, SetStatus(c, s),
         StateOf(status[c]) # "unused", StateOf(s) # "unused", UNCHANGED inflight
  PROVE  Answered' = Answered
BY ChannelStateUpdate DEF TypeOK, ChannelState, Answered, SetStatus

\* Reserving a tag is invisible to the channel.
LEMMA NextTagRefines ==
  ASSUME IInv, NEW c \in Commands, NextTag(c), TypeOK'
  PROVE  UNCHANGED Channel!vars
<1> USE DEF IInv
<1>1. UNCHANGED ChannelState
  BY ChannelStateSame DEF NextTag, Status, StateOf
<1>2. UNCHANGED <<Answered, delivered>>
  BY <1>1 DEF NextTag, Answered, deviceVars
<1>3. QED
  BY <1>1, <1>2 DEF Channel!vars

\* push_cmd submits the command to the channel.
LEMMA PushRefines ==
  ASSUME IInv, NEW c \in Commands, Push(c), TypeOK'
  PROVE  Channel!Next
<1> USE DEF IInv
<1>1. /\ ChannelState' = [ChannelState EXCEPT ![c] = "submitted"]
      /\ ChannelState[c] = "unused"
  BY ChannelStateUpdate DEF Push, Status, StateOf
<1>2. Answered' = Answered
  BY <1>1 DEF Answered, Push, TypeOK, ChannelState
<1>3. UNCHANGED delivered
  BY DEF Push
<1>4. QED
  BY <1>1, <1>2, <1>3 DEF Channel!Next, Channel!Submit

\* A refused push leaves the channel as if the command had never been tried.
LEMMA PushFailsRefines ==
  ASSUME IInv, NEW c \in Commands, PushFails(c), TypeOK'
  PROVE  UNCHANGED Channel!vars
<1> USE DEF IInv
<1>1. UNCHANGED ChannelState
  BY ChannelStateSame DEF PushFails, Status, StateOf
<1>2. UNCHANGED <<Answered, delivered>>
  BY <1>1 DEF PushFails, Answered, deviceVars
<1>3. QED
  BY <1>1, <1>2 DEF Channel!vars

\* The device answers a submitted command that has no answer yet.
LEMMA RespondRefines ==
  ASSUME IInv, NEW c \in Commands, Respond(c), TypeOK'
  PROVE  Channel!Next
<1> USE DEF IInv, Respond, hostVars
<1>1. UNCHANGED <<ChannelState, delivered>>
  BY DEF ChannelState
<1>2. ChannelState[c] \in {"submitted", "givenUp"}
  BY DEF ChannelState, StateOf, ResponsesInPlace
<1>3. c \notin Answered /\ Answered' = Answered \cup {c}
  BY <1>1, <1>2 DEF Answered
<1>4. QED
  BY <1>1, <1>2, <1>3 DEF Channel!Next, Channel!Answer

\* A response taken from the stash is the answer to the command that asks.
LEMMA CollectStashedRefines ==
  ASSUME IInv, NEW c \in Commands, CollectStashed(c), TypeOK'
  PROVE  Channel!Next
<1> USE DEF IInv
<1>1. /\ ChannelState' = [ChannelState EXCEPT ![c] = "collected"]
      /\ ChannelState[c] = "submitted"
  BY ChannelStateUpdate DEF CollectStashed, Status, StateOf, Deliver
<1>2. Answered' = Answered
  BY AnsweredUpdate DEF CollectStashed, Status, StateOf, deviceVars, Deliver
<1>3. c \in Answered /\ delivered' = [delivered EXCEPT ![c] = c]
  <2>1. stash[tagOf[c]] = c /\ c \notin inflight
    BY NoneAssumption DEF CollectStashed, TypeOK, ResponsesInPlace, TagNamesOneCommand, HoldsTag, Stashed
  <2>2. QED
    BY <1>1, <2>1 DEF CollectStashed, Answered, Deliver
<1>4. QED
  BY <1>1, <1>2, <1>3 DEF Channel!Next, Channel!Collect

\* Beginning to poll is invisible to the channel.
LEMMA AwaitRefines ==
  ASSUME IInv, NEW c \in Commands, Await(c), TypeOK'
  PROVE  UNCHANGED Channel!vars
<1> USE DEF IInv
<1>1. UNCHANGED ChannelState
  BY ChannelStateSame DEF Await, Status, StateOf
<1>2. UNCHANGED <<Answered, delivered>>
  BY <1>1 DEF Await, Answered, deviceVars
<1>3. QED
  BY <1>1, <1>2 DEF Channel!vars

\* A response popped for the tag waited for is the answer to the command that asks.
LEMMA PopOwnRefines ==
  ASSUME IInv, NEW c \in Commands, PopOwn(c), TypeOK'
  PROVE  Channel!Next
<1> USE DEF IInv
<1>1. /\ ChannelState' = [ChannelState EXCEPT ![c] = "collected"]
      /\ ChannelState[c] = "submitted"
  BY ChannelStateUpdate DEF PopOwn, Status, StateOf, Deliver
<1>2. Answered' = Answered
  BY AnsweredUpdate DEF PopOwn, Status, StateOf, deviceVars, Deliver
<1>3. c \in Answered /\ delivered' = [delivered EXCEPT ![c] = c]
  <2>1. PICK d \in cq \ malformed : tagOf[d] = tagOf[c] /\ Deliver(c, d)
    BY DEF PopOwn
  <2>2. d = c /\ c \notin inflight
    BY <2>1 DEF PopOwn, TypeOK, ResponsesInPlace, TagNamesOneCommand, HoldsTag
  <2>3. QED
    BY <1>1, <2>1, <2>2 DEF Answered, Deliver
<1>4. QED
  BY <1>1, <1>2, <1>3 DEF Channel!Next, Channel!Collect

\* Parking or dropping another's response is invisible to the channel.
LEMMA PopOtherRefines ==
  ASSUME IInv, NEW c \in Commands, PopOther(c), TypeOK'
  PROVE  UNCHANGED Channel!vars
BY DEF PopOther, ChannelState, Answered, Channel!vars

\* A wait that meets an unreadable response gives its command up.
LEMMA PopMalformedRefines ==
  ASSUME IInv, NEW c \in Commands, PopMalformed(c), TypeOK'
  PROVE  Channel!Next
<1> USE DEF IInv
<1>1. /\ ChannelState' = [ChannelState EXCEPT ![c] = "givenUp"]
      /\ ChannelState[c] = "submitted"
  BY ChannelStateUpdate DEF PopMalformed, Status, StateOf, GiveUp
<1>2. Answered' = Answered
  BY AnsweredUpdate DEF PopMalformed, Status, StateOf, deviceVars, GiveUp
<1>3. UNCHANGED delivered
  BY DEF PopMalformed
<1>4. QED
  BY <1>1, <1>2, <1>3 DEF Channel!Next, Channel!GiveUp

\* A wait that fails gives its command up.
LEMMA WaitFailsRefines ==
  ASSUME IInv, NEW c \in Commands, WaitFails(c), TypeOK'
  PROVE  Channel!Next
<1> USE DEF IInv
<1>1. /\ ChannelState' = [ChannelState EXCEPT ![c] = "givenUp"]
      /\ ChannelState[c] = "submitted"
  BY ChannelStateUpdate DEF WaitFails, Status, StateOf, GiveUp
<1>2. Answered' = Answered
  BY AnsweredUpdate DEF WaitFails, Status, StateOf, deviceVars, GiveUp
<1>3. UNCHANGED delivered
  BY DEF WaitFails
<1>4. QED
  BY <1>1, <1>2, <1>3 DEF Channel!Next, Channel!GiveUp

\* abandon gives the command up, whether its response is parked or still to come.
LEMMA AbandonRefines ==
  ASSUME IInv, NEW c \in Commands, Abandon(c), TypeOK'
  PROVE  Channel!Next
<1> USE DEF IInv
<1>1. /\ ChannelState' = [ChannelState EXCEPT ![c] = "givenUp"]
      /\ ChannelState[c] = "submitted"
  BY ChannelStateUpdate DEF Abandon, Status, StateOf, GiveUp, SetStatus
<1>2. Answered' = Answered
  BY AnsweredUpdate DEF Abandon, Status, StateOf, deviceVars, GiveUp
<1>3. UNCHANGED delivered
  BY DEF Abandon
<1>4. QED
  BY <1>1, <1>2, <1>3 DEF Channel!Next, Channel!GiveUp

\* Forgetting a handle is invisible to the channel: the command stays submitted.
LEMMA DropHandleRefines ==
  ASSUME IInv, NEW c \in Commands, DropHandle(c), TypeOK'
  PROVE  UNCHANGED Channel!vars
<1> USE DEF IInv
<1>1. UNCHANGED ChannelState
  BY ChannelStateSame DEF DropHandle, Status, StateOf
<1>2. UNCHANGED <<Answered, delivered>>
  BY <1>1 DEF DropHandle, Answered, deviceVars
<1>3. QED
  BY <1>1, <1>2 DEF Channel!vars

\* The tags, the stash and the late responses implement the channel in which a
\* command is answered once and its waiter gets that answer or nothing.
THEOREM Refinement == Spec => ImplementsChannel
<1>1. Init => Channel!Init
  BY DEF Init, Channel!Init, ChannelState, Answered, StateOf
<1>2. IInv /\ IInv' /\ [Next]_vars => [Channel!Next]_(Channel!vars)
  <2> SUFFICES ASSUME IInv, IInv', [Next]_vars PROVE [Channel!Next]_(Channel!vars)
    OBVIOUS
  <2> USE DEF IInv
  <2>1. ASSUME NEW c \in Commands, NextTag(c) PROVE [Channel!Next]_(Channel!vars)
    BY <2>1, NextTagRefines
  <2>2. ASSUME NEW c \in Commands, Push(c) PROVE [Channel!Next]_(Channel!vars)
    BY <2>2, PushRefines
  <2>3. ASSUME NEW c \in Commands, PushFails(c) PROVE [Channel!Next]_(Channel!vars)
    BY <2>3, PushFailsRefines
  <2>4. ASSUME NEW c \in Commands, Respond(c) PROVE [Channel!Next]_(Channel!vars)
    BY <2>4, RespondRefines
  <2>5. ASSUME NEW c \in Commands, CollectStashed(c) PROVE [Channel!Next]_(Channel!vars)
    BY <2>5, CollectStashedRefines
  <2>6. ASSUME NEW c \in Commands, Await(c) PROVE [Channel!Next]_(Channel!vars)
    BY <2>6, AwaitRefines
  <2>7. ASSUME NEW c \in Commands, PopOwn(c) PROVE [Channel!Next]_(Channel!vars)
    BY <2>7, PopOwnRefines
  <2>8. ASSUME NEW c \in Commands, PopOther(c) PROVE [Channel!Next]_(Channel!vars)
    BY <2>8, PopOtherRefines
  <2>9. ASSUME NEW c \in Commands, PopMalformed(c) PROVE [Channel!Next]_(Channel!vars)
    BY <2>9, PopMalformedRefines
  <2>10. ASSUME NEW c \in Commands, WaitFails(c) PROVE [Channel!Next]_(Channel!vars)
    BY <2>10, WaitFailsRefines
  <2>11. ASSUME NEW c \in Commands, Abandon(c) PROVE [Channel!Next]_(Channel!vars)
    BY <2>11, AbandonRefines
  <2>12. ASSUME NEW c \in Commands, DropHandle(c) PROVE [Channel!Next]_(Channel!vars)
    BY <2>12, DropHandleRefines
  <2>13. CASE UNCHANGED vars
    BY <2>13 DEF vars, ChannelState, Answered, StateOf, Channel!vars
  <2>14. QED
    BY <2>1, <2>2, <2>3, <2>4, <2>5, <2>6, <2>7, <2>8, <2>9, <2>10, <2>11, <2>12, <2>13 DEF Next, Pop
<1>3. QED
  BY Inductive, <1>1, <1>2, PTL DEF Spec, ImplementsChannel, Channel!Spec
-----------------------------------------------------------------------------
(***************************************************************************)
(* Messages.                                                               *)
(***************************************************************************)
\* The fields of a message begin inside it.
IsMessage(m) == m.bytes \in Nat /\ DOMAIN m.fields \subseteq 0 .. m.bytes - 1

LEMMA FieldIs ==
  ASSUME NEW w \in Nat \ {0}, NEW v
  PROVE  /\ IsMessage(F(w, v)) /\ F(w, v).bytes = w
         /\ At(F(w, v), 0, w) = v
BY DEF F, At, IsMessage

LEMMA EmptyIs == IsMessage(Empty) /\ Empty.bytes = 0
BY DEF Empty, IsMessage

\* What is read from a message behind another one.
LEMMA CatIs ==
  ASSUME NEW m, NEW n, IsMessage(m), IsMessage(n)
  PROVE  /\ IsMessage(m ++ n) /\ (m ++ n).bytes = m.bytes + n.bytes
         /\ \A off \in Int : \A w : At(m ++ n, off, w) =
              IF off < m.bytes THEN At(m, off, w) ELSE At(n, off - m.bytes, w)
<1>1. PICK p \in Nat, q \in Nat : p = m.bytes /\ q = n.bytes
  BY DEF IsMessage
<1>2. DOMAIN m.fields \subseteq 0 .. p - 1 /\ DOMAIN n.fields \subseteq 0 .. q - 1
  BY <1>1 DEF IsMessage
<1>3. PICK dom : dom = DOMAIN m.fields \cup {p + o : o \in DOMAIN n.fields}
  OBVIOUS
<1>4. PICK cat : cat = m ++ n
  OBVIOUS
<1>5. /\ cat.bytes = p + q
      /\ cat.fields = [off \in dom |-> IF off < p THEN m.fields[off] ELSE n.fields[off - p]]
  BY <1>1, <1>3, <1>4 DEF ++
<1>6. dom \subseteq 0 .. p + q - 1
  <2>1. ASSUME NEW o \in 0 .. p - 1 PROVE o \in 0 .. p + q - 1
    OBVIOUS
  <2>2. ASSUME NEW o \in 0 .. q - 1 PROVE p + o \in 0 .. p + q - 1
    OBVIOUS
  <2>3. \A o \in DOMAIN m.fields : o \in 0 .. p + q - 1
    BY <1>2, <2>1
  <2>4. \A o \in DOMAIN n.fields : p + o \in 0 .. p + q - 1
    BY <1>2, <2>2
  <2>5. QED
    BY <1>3, <2>3, <2>4
<1>7. IsMessage(cat)
  BY <1>5, <1>6 DEF IsMessage
<1>8. ASSUME NEW off \in Int, NEW w
      PROVE  At(cat, off, w) = IF off < p THEN At(m, off, w) ELSE At(n, off - p, w)
  <2>1. CASE off < p
    <3>1. off \in dom <=> off \in DOMAIN m.fields
      BY <1>2, <1>3, <2>1
    <3>2. QED
      BY <1>5, <2>1, <3>1 DEF At
  <2>2. CASE ~(off < p)
    <3>1. off \in dom <=> off - p \in DOMAIN n.fields
      BY <1>2, <1>3, <2>2
    <3>2. QED
      BY <1>5, <2>2, <3>1 DEF At
  <2>3. QED
    BY <2>1, <2>2
<1>9. QED
  BY <1>1, <1>4, <1>5, <1>7, <1>8

\* The same for one more field at the end.
LEMMA PutIs ==
  ASSUME NEW m, IsMessage(m), NEW w \in Nat \ {0}, NEW v
  PROVE  /\ IsMessage(m ++ F(w, v)) /\ (m ++ F(w, v)).bytes = m.bytes + w
         /\ At(m ++ F(w, v), m.bytes, w) = v
         /\ \A off \in Int : \A u : off < m.bytes => At(m ++ F(w, v), off, u) = At(m, off, u)
<1>1. PICK f : f = F(w, v)
  OBVIOUS
<1>2. IsMessage(f) /\ f.bytes = w /\ At(f, 0, w) = v
  BY <1>1, FieldIs
<1>3. m.bytes \in Nat
  BY DEF IsMessage
<1>4. /\ IsMessage(m ++ f) /\ (m ++ f).bytes = m.bytes + w
      /\ \A off \in Int : \A u : At(m ++ f, off, u) =
           IF off < m.bytes THEN At(m, off, u) ELSE At(f, off - m.bytes, u)
  BY <1>2, CatIs
<1>5. QED
  BY <1>1, <1>2, <1>3, <1>4

LEMMA HeaderIs ==
  ASSUME NEW size, NEW id, NEW flags
  PROVE  /\ IsMessage(Header(size, id, flags)) /\ Header(size, id, flags).bytes = 8
         /\ At(Header(size, id, flags), 0, 2) = size
         /\ At(Header(size, id, flags), 4, 2) = id
         /\ At(Header(size, id, flags), 6, 2) = flags
<1>1. PICK a : a = F(2, size)
  OBVIOUS
<1>2. PICK b : b = a ++ F(2, "tag")
  OBVIOUS
<1>3. PICK c : c = b ++ F(2, id)
  OBVIOUS
<1>4. IsMessage(a) /\ a.bytes = 2 /\ At(a, 0, 2) = size
  BY <1>1, FieldIs
<1>5. IsMessage(b) /\ b.bytes = 4 /\ At(b, 0, 2) = size
  BY <1>2, <1>4, PutIs
<1>6. IsMessage(c) /\ c.bytes = 6 /\ At(c, 0, 2) = size /\ At(c, 4, 2) = id
  BY <1>3, <1>5, PutIs
<1>7. Header(size, id, flags) = c ++ F(2, flags)
  BY <1>1, <1>2, <1>3 DEF Header
<1>8. QED
  BY <1>6, <1>7, PutIs

LEMMA CommandIs ==
  ASSUME NEW id, NEW flags, NEW body, IsMessage(body)
  PROVE  /\ IsMessage(Command(id, flags, body))
         /\ Command(id, flags, body).bytes = 8 + body.bytes
         /\ At(Command(id, flags, body), 0, 2) = 8 + body.bytes
         /\ At(Command(id, flags, body), 4, 2) = id
         /\ At(Command(id, flags, body), 6, 2) = flags
         /\ \A off \in Nat : \A w : At(Command(id, flags, body), 8 + off, w) = At(body, off, w)
<1>1. PICK h : h = Header(8 + body.bytes, id, flags)
  OBVIOUS
<1>2. /\ IsMessage(h) /\ h.bytes = 8 /\ At(h, 0, 2) = 8 + body.bytes
      /\ At(h, 4, 2) = id /\ At(h, 6, 2) = flags
  BY <1>1, HeaderIs
<1>3. Command(id, flags, body) = h ++ body
  BY <1>1 DEF Command, CMN_HEADER_SIZE
<1>4. body.bytes \in Nat
  BY DEF IsMessage
<1>5. /\ IsMessage(h ++ body) /\ (h ++ body).bytes = 8 + body.bytes
      /\ \A off \in Int : \A w : At(h ++ body, off, w) =
              IF off < 8 THEN At(h, off, w) ELSE At(body, off - 8, w)
  BY <1>2, CatIs
<1>6. QED
  BY <1>2, <1>3, <1>4, <1>5

LEMMA TraceFieldsRead ==
  ASSUME NEW t
  PROVE  LET m == TraceFields(t) IN
         /\ IsMessage(m) /\ m.bytes = 40
         /\ At(m, 0, 8) = t.buffer /\ At(m, 8, 4) = t.size /\ At(m, 12, 4) = t.threshold
         /\ At(m, 16, 8) = t.shires /\ At(m, 24, 8) = t.threads
         /\ At(m, 32, 4) = t.events /\ At(m, 36, 4) = t.filters
<1>1. PICK a : a = F(8, t.buffer)
  OBVIOUS
<1>2. PICK b : b = a ++ F(4, t.size)
  OBVIOUS
<1>3. PICK c : c = b ++ F(4, t.threshold)
  OBVIOUS
<1>4. PICK d : d = c ++ F(8, t.shires)
  OBVIOUS
<1>5. PICK e : e = d ++ F(8, t.threads)
  OBVIOUS
<1>6. PICK f : f = e ++ F(4, t.events)
  OBVIOUS
<1>7. IsMessage(a) /\ a.bytes = 8 /\ At(a, 0, 8) = t.buffer
  BY <1>1, FieldIs
<1>8. IsMessage(b) /\ b.bytes = 12 /\ At(b, 0, 8) = t.buffer /\ At(b, 8, 4) = t.size
  <2>1. PICK x : x = t.size
    OBVIOUS
  <2>2. b = a ++ F(4, x)
    BY <1>2, <2>1
  <2>3. /\ IsMessage(b) /\ b.bytes = a.bytes + 4 /\ At(b, a.bytes, 4) = x
        /\ \A off \in Int : \A u : off < a.bytes => At(b, off, u) = At(a, off, u)
    BY <1>7, <2>2, PutIs
  <2>4. At(b, 0, 8) = At(a, 0, 8)
    BY <1>7, <2>3
  <2>5. QED
    BY <1>7, <2>1, <2>3, <2>4
<1>9. /\ IsMessage(c) /\ c.bytes = 16 /\ At(c, 0, 8) = t.buffer /\ At(c, 8, 4) = t.size
      /\ At(c, 12, 4) = t.threshold
  BY <1>3, <1>8, PutIs
<1>10. /\ IsMessage(d) /\ d.bytes = 24 /\ At(d, 0, 8) = t.buffer /\ At(d, 8, 4) = t.size
       /\ At(d, 12, 4) = t.threshold /\ At(d, 16, 8) = t.shires
  BY <1>4, <1>9, PutIs
<1>11. /\ IsMessage(e) /\ e.bytes = 32 /\ At(e, 0, 8) = t.buffer /\ At(e, 8, 4) = t.size
       /\ At(e, 12, 4) = t.threshold /\ At(e, 16, 8) = t.shires /\ At(e, 24, 8) = t.threads
  BY <1>5, <1>10, PutIs
<1>12. /\ IsMessage(f) /\ f.bytes = 36 /\ At(f, 0, 8) = t.buffer /\ At(f, 8, 4) = t.size
       /\ At(f, 12, 4) = t.threshold /\ At(f, 16, 8) = t.shires /\ At(f, 24, 8) = t.threads
       /\ At(f, 32, 4) = t.events
  BY <1>6, <1>11, PutIs
<1>13. TraceFields(t) = f ++ F(4, t.filters)
  BY <1>1, <1>2, <1>3, <1>4, <1>5, <1>6 DEF TraceFields
<1>14. QED
  BY <1>12, <1>13, PutIs

LEMMA StackFieldsRead ==
  ASSUME NEW s
  PROVE  LET m == StackFields(s) IN
         IsMessage(m) /\ m.bytes = 8 /\ At(m, 0, 4) = <<s, "base">> /\ At(m, 4, 4) = <<s, "size">>
<1>1. PICK a : a = F(4, <<s, "base">>)
  OBVIOUS
<1>2. IsMessage(a) /\ a.bytes = 4 /\ At(a, 0, 4) = <<s, "base">>
  BY <1>1, FieldIs
<1>3. StackFields(s) = a ++ F(4, <<s, "size">>)
  BY <1>1 DEF StackFields
<1>4. QED
  BY <1>2, <1>3, PutIs

\* The optional parts: the trace comes first if there is one.
LEMMA PayloadRead ==
  ASSUME NEW opts
  PROVE  LET m == Payload(opts)
             traced == opts.trace # Absent
             stackAt == IF traced THEN 40 ELSE 0
         IN /\ IsMessage(m)
            /\ m.bytes <= 48
            /\ traced => /\ At(m, 0, 8) = "trace" /\ At(m, 8, 4) = FullSize(opts.trace)
                         /\ At(m, 12, 4) = "zero"
                         /\ At(m, 16, 8) = "traced" /\ At(m, 24, 8) = "all"
                         /\ At(m, 32, 4) = "all" /\ At(m, 36, 4) = "all"
            /\ opts.stack # Absent => /\ At(m, stackAt, 4) = <<opts.stack, "base">>
                                      /\ At(m, stackAt + 4, 4) = <<opts.stack, "size">>
<1>1. PICK a : a = IF opts.trace = Absent THEN Empty ELSE TraceFields(Full(opts.trace))
  OBVIOUS
<1>2. PICK b : b = IF opts.stack = Absent THEN Empty ELSE StackFields(opts.stack)
  OBVIOUS
<1>3. Payload(opts) = a ++ b
  BY <1>1, <1>2 DEF Payload
<1>4. IsMessage(a) /\ a.bytes = IF opts.trace = Absent THEN 0 ELSE 40
  BY <1>1, EmptyIs, TraceFieldsRead
<1>5. opts.trace # Absent =>
        /\ At(a, 0, 8) = "trace" /\ At(a, 8, 4) = FullSize(opts.trace) /\ At(a, 12, 4) = "zero"
        /\ At(a, 16, 8) = "traced" /\ At(a, 24, 8) = "all"
        /\ At(a, 32, 4) = "all" /\ At(a, 36, 4) = "all"
  <2>1. PICK t : t = Full(opts.trace)
    OBVIOUS
  <2>2. /\ t.buffer = "trace" /\ t.size = FullSize(opts.trace) /\ t.threshold = "zero"
        /\ t.shires = "traced" /\ t.threads = "all" /\ t.events = "all" /\ t.filters = "all"
    BY <2>1 DEF Full
  <2>3. QED
    BY <1>1, <2>1, <2>2, TraceFieldsRead
<1>6. /\ IsMessage(b) /\ b.bytes <= 8
      /\ opts.stack # Absent => /\ At(b, 0, 4) = <<opts.stack, "base">>
                                /\ At(b, 4, 4) = <<opts.stack, "size">>
  BY <1>2, EmptyIs, StackFieldsRead
<1>7. /\ IsMessage(a ++ b) /\ (a ++ b).bytes = a.bytes + b.bytes
      /\ \A off \in Int : \A w : At(a ++ b, off, w) =
           IF off < a.bytes THEN At(a, off, w) ELSE At(b, off - a.bytes, w)
  BY <1>4, <1>6, CatIs
<1>8. b.bytes \in Nat
  BY <1>6 DEF IsMessage
<1>9. (a ++ b).bytes <= 48
  BY <1>4, <1>6, <1>7, <1>8
<1>10. opts.trace # Absent =>
         \A off \in 0 .. 39 : \A w : At(a ++ b, off, w) = At(a, off, w)
  BY <1>4, <1>7
<1>11. opts.stack # Absent =>
         LET stackAt == IF opts.trace # Absent THEN 40 ELSE 0
         IN /\ At(a ++ b, stackAt, 4) = <<opts.stack, "base">>
            /\ At(a ++ b, stackAt + 4, 4) = <<opts.stack, "size">>
  BY <1>4, <1>6, <1>7
<1>12. QED
  BY <1>3, <1>5, <1>7, <1>9, <1>10, <1>11

\* What the firmware makes of the options of a launch.
Launched(opts) ==
  [entry |-> "entry", args |-> IF opts.args = "none" THEN "null" ELSE opts.args,
   exception |-> opts.exception, mask |-> opts.mask,
   barrier |-> "barrier" \in LaunchFlags(opts), flush |-> "flush_l3" \in LaunchFlags(opts),
   trace |-> IF opts.trace = Absent THEN Absent ELSE Full(opts.trace),
   stack |-> IF opts.stack = Absent THEN Absent
             ELSE <<<<opts.stack, "base">>, <<opts.stack, "size">>>>]

LEMMA LaunchRead ==
  ASSUME NEW opts
  PROVE  LET cmd == BuildKernelLaunch(opts) IN
         /\ IsMessage(cmd) /\ cmd.bytes <= 88
         /\ At(cmd, 0, 2) = cmd.bytes /\ At(cmd, 4, 2) = "kernel_launch"
         /\ ReadLaunch(cmd) = Launched(opts)
<1> DEFINE args == IF opts.args = "none" THEN "null" ELSE opts.args
<1>1. PICK a : a = F(8, "entry")
  OBVIOUS
<1>2. PICK b : b = a ++ F(8, args)
  OBVIOUS
<1>3. PICK c : c = b ++ F(8, opts.exception)
  OBVIOUS
<1>4. PICK d : d = c ++ F(8, opts.mask)
  OBVIOUS
<1>5. PICK p : p = Payload(opts)
  OBVIOUS
<1>6. PICK body : body = d ++ p
  OBVIOUS
<1>7. PICK cmd : cmd = Command("kernel_launch", LaunchFlags(opts), body)
  OBVIOUS
<1>8. cmd = BuildKernelLaunch(opts)
  BY <1>1, <1>2, <1>3, <1>4, <1>5, <1>6, <1>7 DEF BuildKernelLaunch
<1> HIDE DEF args
<1>9. IsMessage(a) /\ a.bytes = 8 /\ At(a, 0, 8) = "entry"
  BY <1>1, FieldIs
<1>10. IsMessage(b) /\ b.bytes = 16 /\ At(b, 0, 8) = "entry" /\ At(b, 8, 8) = args
  BY <1>2, <1>9, PutIs
<1>11. /\ IsMessage(c) /\ c.bytes = 24 /\ At(c, 0, 8) = "entry" /\ At(c, 8, 8) = args
       /\ At(c, 16, 8) = opts.exception
  BY <1>3, <1>10, PutIs
<1>12. /\ IsMessage(d) /\ d.bytes = 32 /\ At(d, 0, 8) = "entry" /\ At(d, 8, 8) = args
       /\ At(d, 16, 8) = opts.exception /\ At(d, 24, 8) = opts.mask
  BY <1>4, <1>11, PutIs
<1>13. IsMessage(p) /\ p.bytes \in Nat /\ p.bytes <= 48
  BY <1>5, PayloadRead DEF IsMessage
<1>14. /\ IsMessage(body) /\ body.bytes = 32 + p.bytes
       /\ \A off \in Int : \A w : At(body, off, w) =
            IF off < 32 THEN At(d, off, w) ELSE At(p, off - 32, w)
  BY <1>6, <1>12, <1>13, CatIs
<1>15. /\ IsMessage(cmd) /\ cmd.bytes = 40 + p.bytes /\ At(cmd, 0, 2) = cmd.bytes
       /\ At(cmd, 4, 2) = "kernel_launch" /\ At(cmd, 6, 2) = LaunchFlags(opts)
       /\ \A off \in Nat : \A w : At(cmd, 8 + off, w) = At(body, off, w)
  BY <1>7, <1>13, <1>14, CommandIs
<1>16. /\ At(cmd, 8, 8) = "entry" /\ At(cmd, 16, 8) = args
       /\ At(cmd, 24, 8) = opts.exception /\ At(cmd, 32, 8) = opts.mask
  <2>1. /\ At(body, 0, 8) = "entry" /\ At(body, 8, 8) = args
        /\ At(body, 16, 8) = opts.exception /\ At(body, 24, 8) = opts.mask
    BY <1>12, <1>14
  <2>2. /\ At(cmd, 8 + 0, 8) = At(body, 0, 8) /\ At(cmd, 8 + 8, 8) = At(body, 8, 8)
        /\ At(cmd, 8 + 16, 8) = At(body, 16, 8) /\ At(cmd, 8 + 24, 8) = At(body, 24, 8)
    BY <1>15
  <2>3. QED
    BY <2>1, <2>2
<1>17. \A off \in Nat : \A w : At(cmd, 40 + off, w) = At(p, off, w)
  <2> TAKE off \in Nat
  <2> TAKE w
  <2>1. At(cmd, 8 + (32 + off), w) = At(body, 32 + off, w)
    BY <1>15
  <2>2. At(body, 32 + off, w) = At(p, (32 + off) - 32, w)
    BY <1>14
  <2>3. 8 + (32 + off) = 40 + off /\ (32 + off) - 32 = off
    OBVIOUS
  <2>4. QED
    BY <2>1, <2>2, <2>3
<1>18. /\ Traced(LaunchFlags(opts)) <=> opts.trace # Absent
       /\ "stack" \in LaunchFlags(opts) <=> opts.stack # Absent
  BY DEF Traced, LaunchFlags
<1>19. opts.trace # Absent =>
         Full(opts.trace) =
           [buffer |-> At(cmd, 40, 8), size |-> At(cmd, 48, 4),
            threshold |-> At(cmd, 52, 4), shires |-> At(cmd, 56, 8),
            threads |-> At(cmd, 64, 8), events |-> At(cmd, 72, 4), filters |-> At(cmd, 76, 4)]
  <2> SUFFICES ASSUME opts.trace # Absent
               PROVE  Full(opts.trace) =
                        [buffer |-> At(cmd, 40, 8), size |-> At(cmd, 48, 4),
                         threshold |-> At(cmd, 52, 4), shires |-> At(cmd, 56, 8),
                         threads |-> At(cmd, 64, 8), events |-> At(cmd, 72, 4),
                         filters |-> At(cmd, 76, 4)]
    OBVIOUS
  <2>1. /\ At(p, 0, 8) = "trace" /\ At(p, 8, 4) = FullSize(opts.trace) /\ At(p, 12, 4) = "zero"
        /\ At(p, 16, 8) = "traced" /\ At(p, 24, 8) = "all"
        /\ At(p, 32, 4) = "all" /\ At(p, 36, 4) = "all"
    BY <1>5, PayloadRead
  <2>2. /\ At(cmd, 40 + 0, 8) = At(p, 0, 8) /\ At(cmd, 40 + 8, 4) = At(p, 8, 4)
        /\ At(cmd, 40 + 12, 4) = At(p, 12, 4) /\ At(cmd, 40 + 16, 8) = At(p, 16, 8)
        /\ At(cmd, 40 + 24, 8) = At(p, 24, 8) /\ At(cmd, 40 + 32, 4) = At(p, 32, 4)
        /\ At(cmd, 40 + 36, 4) = At(p, 36, 4)
    BY <1>17
  <2>3. /\ At(cmd, 40, 8) = "trace" /\ At(cmd, 48, 4) = FullSize(opts.trace)
        /\ At(cmd, 52, 4) = "zero" /\ At(cmd, 56, 8) = "traced" /\ At(cmd, 64, 8) = "all"
        /\ At(cmd, 72, 4) = "all" /\ At(cmd, 76, 4) = "all"
    BY <2>1, <2>2
  <2>4. QED
    BY <2>3 DEF Full
<1>20. opts.stack # Absent =>
         LET stackAt == IF Traced(LaunchFlags(opts)) THEN 80 ELSE 40 IN
         /\ At(cmd, stackAt, 4) = <<opts.stack, "base">>
         /\ At(cmd, stackAt + 4, 4) = <<opts.stack, "size">>
  <2> SUFFICES ASSUME opts.stack # Absent
               PROVE  LET stackAt == IF Traced(LaunchFlags(opts)) THEN 80 ELSE 40 IN
                      /\ At(cmd, stackAt, 4) = <<opts.stack, "base">>
                      /\ At(cmd, stackAt + 4, 4) = <<opts.stack, "size">>
    OBVIOUS
  <2>1. CASE opts.trace # Absent
    <3>1. At(p, 40, 4) = <<opts.stack, "base">> /\ At(p, 44, 4) = <<opts.stack, "size">>
      BY <1>5, <2>1, PayloadRead
    <3>2. At(cmd, 40 + 40, 4) = At(p, 40, 4) /\ At(cmd, 40 + 44, 4) = At(p, 44, 4)
      BY <1>17
    <3>3. At(cmd, 80, 4) = <<opts.stack, "base">> /\ At(cmd, 84, 4) = <<opts.stack, "size">>
      BY <3>1, <3>2
    <3>4. QED
      BY <1>18, <2>1, <3>3
  <2>2. CASE opts.trace = Absent
    <3>1. At(p, 0, 4) = <<opts.stack, "base">> /\ At(p, 4, 4) = <<opts.stack, "size">>
      BY <1>5, <2>2, PayloadRead
    <3>2. At(cmd, 40 + 0, 4) = At(p, 0, 4) /\ At(cmd, 40 + 4, 4) = At(p, 4, 4)
      BY <1>17
    <3>3. At(cmd, 40, 4) = <<opts.stack, "base">> /\ At(cmd, 44, 4) = <<opts.stack, "size">>
      BY <3>1, <3>2
    <3>4. QED
      BY <1>18, <2>2, <3>3
  <2>3. QED
    BY <2>1, <2>2
<1>21. ReadLaunch(cmd) = Launched(opts)
  BY <1>15, <1>16, <1>18, <1>19, <1>20 DEF ReadLaunch, Launched, args
<1>22. QED
  BY <1>8, <1>13, <1>15, <1>21

(***************************************************************************)
(* Lists of nodes.                                                         *)
(***************************************************************************)
IsNode(m) == m.bytes = 32 /\ IsMessage(m)
AreNodes(nodes, n) ==
  /\ DOMAIN nodes = 1 .. n /\ Len(nodes) = n
  /\ \A k \in 1 .. n : IsNode(nodes[k])

LEMMA NodeFieldsInside == ASSUME NEW m, IsNode(m) PROVE DOMAIN m.fields \subseteq 0 .. 31
<1>1. m.bytes = 32 /\ DOMAIN m.fields \subseteq 0 .. m.bytes - 1
  BY DEF IsNode, IsMessage
<1>2. m.bytes - 1 = 31
  BY <1>1
<1>3. QED
  BY <1>1, <1>2

LEMMA ListIs ==
  ASSUME NEW n \in Nat, NEW nodes, AreNodes(nodes, n)
  PROVE  /\ IsMessage(List(nodes)) /\ List(nodes).bytes = 32 * n
         /\ \A k \in 1 .. n : \A d \in 0 .. 31 : \A w :
              At(List(nodes), 32 * (k - 1) + d, w) = At(nodes[k], d, w)
<1>1. ASSUME NEW k \in 1 .. n PROVE DOMAIN nodes[k].fields \subseteq 0 .. 31
  BY NodeFieldsInside DEF AreNodes
<1>2. PICK dom : dom = UNION {{32 * (k - 1) + o : o \in DOMAIN nodes[k].fields} : k \in 1 .. n}
  OBVIOUS
<1>3. /\ List(nodes).bytes = 32 * n
      /\ List(nodes).fields =
           [off \in dom |-> nodes[off \div 32 + 1].fields[off % 32]]
  BY <1>2 DEF List, NodeSize, AreNodes
<1>4. dom \subseteq 0 .. 32 * n - 1
  <2>1. ASSUME NEW k \in 1 .. n, NEW o \in 0 .. 31 PROVE 32 * (k - 1) + o \in 0 .. 32 * n - 1
    OBVIOUS
  <2>2. ASSUME NEW off \in dom PROVE off \in 0 .. 32 * n - 1
    <3>1. PICK k \in 1 .. n : off \in {32 * (k - 1) + o : o \in DOMAIN nodes[k].fields}
      BY <1>2
    <3>2. PICK o \in DOMAIN nodes[k].fields : off = 32 * (k - 1) + o
      BY <3>1
    <3>3. o \in 0 .. 31
      BY <1>1
    <3>4. QED
      BY <2>1, <3>2, <3>3
  <2>3. QED
    BY <2>2
<1>5. IsMessage(List(nodes))
  BY <1>3, <1>4 DEF IsMessage
<1>6. ASSUME NEW k \in 1 .. n, NEW d \in 0 .. 31, NEW w
      PROVE  At(List(nodes), 32 * (k - 1) + d, w) = At(nodes[k], d, w)
  <2>1. PICK off \in Int : off = 32 * (k - 1) + d
    OBVIOUS
  <2>2. off \div 32 + 1 = k /\ off % 32 = d
    BY <2>1
  <2>3. off \in dom <=> d \in DOMAIN nodes[k].fields
    <3>1. d \in DOMAIN nodes[k].fields => off \in dom
      <4> SUFFICES ASSUME d \in DOMAIN nodes[k].fields PROVE off \in dom
        OBVIOUS
      <4>1. off \in {32 * (k - 1) + o : o \in DOMAIN nodes[k].fields}
        BY <2>1
      <4>2. QED
        BY <1>2, <4>1
    <3>2. off \in dom => d \in DOMAIN nodes[k].fields
      <4> SUFFICES ASSUME off \in dom PROVE d \in DOMAIN nodes[k].fields
        OBVIOUS
      <4>1. PICK j \in 1 .. n : \E o \in DOMAIN nodes[j].fields : off = 32 * (j - 1) + o
        BY <1>2
      <4>2. PICK o \in DOMAIN nodes[j].fields : off = 32 * (j - 1) + o
        BY <4>1
      <4> o \in 0 .. 31
        BY <1>1
      <4>3. j = k /\ o = d
        BY <2>1, <4>2
      <4>4. QED
        BY <4>2, <4>3
    <3>3. QED
      BY <3>1, <3>2
  <2>4. off \in dom => List(nodes).fields[off] = nodes[k].fields[d]
    BY <1>3, <2>2
  <2>5. DOMAIN List(nodes).fields = dom
    BY <1>3
  <2>6. QED
    BY <2>1, <2>3, <2>4, <2>5 DEF At
<1>7. QED
  BY <1>3, <1>5, <1>6

LEMMA NodeRead ==
  ASSUME NEW k
  PROVE  LET m == NodeFields(k) IN
         /\ IsMessage(m) /\ m.bytes = 32
         /\ At(m, 0, 8) = HostBase + NodeAt(k)
         /\ At(m, 8, 8) = NodePhys(PhysBase(call), NodeAt(k))
         /\ At(m, 16, 8) = DeviceBase + NodeAt(k)
         /\ At(m, 24, 4) = NodeBytes(k)
<1> DEFINE host == HostBase + NodeAt(k)
           phys == NodePhys(PhysBase(call), NodeAt(k))
           device == DeviceBase + NodeAt(k)
           size == NodeBytes(k)
<1>1. PICK a : a = F(8, host)
  OBVIOUS
<1>2. PICK b : b = a ++ F(8, phys)
  OBVIOUS
<1>3. PICK c : c = b ++ F(8, device)
  OBVIOUS
<1>4. PICK d : d = c ++ F(4, size)
  OBVIOUS
<1>5. NodeFields(k) = d ++ F(4, "pad")
  BY <1>1, <1>2, <1>3, <1>4 DEF NodeFields
<1> HIDE DEF host, phys, device, size
<1>6. IsMessage(a) /\ a.bytes = 8 /\ At(a, 0, 8) = host
  BY <1>1, FieldIs
<1>7. IsMessage(b) /\ b.bytes = 16 /\ At(b, 0, 8) = host /\ At(b, 8, 8) = phys
  BY <1>2, <1>6, PutIs
<1>8. /\ IsMessage(c) /\ c.bytes = 24 /\ At(c, 0, 8) = host /\ At(c, 8, 8) = phys
      /\ At(c, 16, 8) = device
  BY <1>3, <1>7, PutIs
<1>9. /\ IsMessage(d) /\ d.bytes = 28 /\ At(d, 0, 8) = host /\ At(d, 8, 8) = phys
      /\ At(d, 16, 8) = device /\ At(d, 24, 4) = size
  BY <1>4, <1>8, PutIs
<1>10. PICK m : m = NodeFields(k)
  OBVIOUS
<1>11. /\ IsMessage(m) /\ m.bytes = 32 /\ At(m, 0, 8) = host /\ At(m, 8, 8) = phys
       /\ At(m, 16, 8) = device /\ At(m, 24, 4) = size
  BY <1>5, <1>9, <1>10, PutIs
<1>12. QED
  BY <1>10, <1>11 DEF host, phys, device, size

LEMMA ListRead ==
  ASSUME NumNodes \in Nat
  PROVE  LET cmd == BuildDmaList IN
         /\ IsMessage(cmd) /\ cmd.bytes = 8 + 32 * NumNodes
         /\ At(cmd, 0, 2) = cmd.bytes /\ At(cmd, 4, 2) = call.id
         /\ ReadNodes(cmd) =
              [k \in 1 .. NumNodes |->
                 [virt |-> HostBase + NodeAt(k), phys |-> NodePhys(PhysBase(call), NodeAt(k)),
                  device |-> DeviceBase + NodeAt(k), size |-> NodeBytes(k)]]
<1>1. PICK n \in Nat : n = NumNodes
  OBVIOUS
<1>2. PICK nodes : nodes = [k \in 1 .. n |-> NodeFields(k)]
  OBVIOUS
<1>3. PICK list : list = List(nodes)
  OBVIOUS
<1>4. PICK cmd : cmd = Command(call.id, {"barrier"}, list)
  OBVIOUS
<1>5. cmd = BuildDmaList
  BY <1>1, <1>2, <1>3, <1>4 DEF BuildDmaList
<1>6. DOMAIN nodes = 1 .. n /\ Len(nodes) = n
  BY <1>2
<1>7. \A k \in 1 .. n : nodes[k] = NodeFields(k)
  BY <1>2
<1>8. AreNodes(nodes, n)
  BY <1>6, <1>7, NodeRead DEF AreNodes, IsNode
<1>9. /\ IsMessage(list) /\ list.bytes = 32 * n
      /\ \A k \in 1 .. n : \A d \in 0 .. 31 : \A w :
           At(list, 32 * (k - 1) + d, w) = At(nodes[k], d, w)
  BY <1>3, <1>8, ListIs
<1>10. /\ IsMessage(cmd) /\ cmd.bytes = 8 + 32 * n /\ At(cmd, 0, 2) = cmd.bytes
       /\ At(cmd, 4, 2) = call.id
       /\ \A off \in Nat : \A w : At(cmd, 8 + off, w) = At(list, off, w)
  BY <1>4, <1>9, CommandIs
<1>11. \A k \in 1 .. n : \A d \in 0 .. 31 : \A w :
         At(cmd, 8 + 32 * (k - 1) + d, w) = At(NodeFields(k), d, w)
  <2> TAKE k \in 1 .. n
  <2> TAKE d \in 0 .. 31
  <2> TAKE w
  <2>1. 32 * (k - 1) + d \in Nat /\ 8 + (32 * (k - 1) + d) = 8 + 32 * (k - 1) + d
    OBVIOUS
  <2>2. At(cmd, 8 + (32 * (k - 1) + d), w) = At(list, 32 * (k - 1) + d, w)
    BY <1>10, <2>1
  <2>3. QED
    BY <1>7, <1>9, <2>1, <2>2
<1>12. (cmd.bytes - 8) \div 32 = n
  BY <1>10
<1>13. \A k \in 1 .. n : LET at == 8 + 32 * (k - 1) IN
         /\ At(cmd, at, 8) = HostBase + NodeAt(k)
         /\ At(cmd, at + 8, 8) = NodePhys(PhysBase(call), NodeAt(k))
         /\ At(cmd, at + 16, 8) = DeviceBase + NodeAt(k)
         /\ At(cmd, at + 24, 4) = NodeBytes(k)
  <2> TAKE k \in 1 .. n
  <2>1. PICK at \in Int : at = 8 + 32 * (k - 1)
    OBVIOUS
  <2>2. /\ At(cmd, at + 0, 8) = At(NodeFields(k), 0, 8)
        /\ At(cmd, at + 8, 8) = At(NodeFields(k), 8, 8)
        /\ At(cmd, at + 16, 8) = At(NodeFields(k), 16, 8)
        /\ At(cmd, at + 24, 4) = At(NodeFields(k), 24, 4)
    BY <1>11, <2>1
  <2>3. at + 0 = at
    BY <2>1
  <2>4. QED
    BY <2>1, <2>2, <2>3, NodeRead
<1>14. ReadNodes(cmd) =
         [k \in 1 .. n |->
            [virt |-> HostBase + NodeAt(k), phys |-> NodePhys(PhysBase(call), NodeAt(k)),
             device |-> DeviceBase + NodeAt(k), size |-> NodeBytes(k)]]
  BY <1>12, <1>13 DEF ReadNodes
<1>15. QED
  BY <1>1, <1>5, <1>10, <1>14

LEMMA ResetsRead ==
  /\ IsMessage(BuildCmReset) /\ BuildCmReset.bytes = 16 /\ At(BuildCmReset, 0, 2) = 16
  /\ At(BuildCmReset, 4, 2) = "cm_reset" /\ At(BuildCmReset, 8, 8) = "shires"
  /\ IsMessage(BuildEtsocReset) /\ BuildEtsocReset.bytes = 16 /\ At(BuildEtsocReset, 0, 2) = 16
  /\ At(BuildEtsocReset, 4, 2) = "etsoc_reset"
<1>1. PICK b : b = F(8, "shires")
  OBVIOUS
<1>2. IsMessage(b) /\ b.bytes = 8 /\ At(b, 0, 8) = "shires"
  BY <1>1, FieldIs
<1>3. PICK m : m = Command("cm_reset", {"barrier"}, b)
  OBVIOUS
<1>4. /\ IsMessage(m) /\ m.bytes = 16 /\ At(m, 0, 2) = 16 /\ At(m, 4, 2) = "cm_reset"
      /\ At(m, 8 + 0, 8) = "shires"
  BY <1>2, <1>3, CommandIs
<1>5. m = BuildCmReset
  BY <1>1, <1>3 DEF BuildCmReset
<1>6. PICK z : z = F(8, "zero")
  OBVIOUS
<1>7. IsMessage(z) /\ z.bytes = 8
  BY <1>6, FieldIs
<1>8. PICK e : e = Command("etsoc_reset", {}, z)
  OBVIOUS
<1>9. IsMessage(e) /\ e.bytes = 16 /\ At(e, 0, 2) = 16 /\ At(e, 4, 2) = "etsoc_reset"
  BY <1>7, <1>8, CommandIs
<1>10. e = BuildEtsocReset
  BY <1>6, <1>8 DEF BuildEtsocReset
<1>11. QED
  BY <1>4, <1>5, <1>9, <1>10

(***************************************************************************)
(* Responses.                                                              *)
(***************************************************************************)
LEMMA EncodedRead ==
  ASSUME NEW rsp, rsp.detail \in BOOLEAN, rsp.detail => call.kind = "launch"
  PROVE  LET m == Encoded(rsp)
             cm == call.kind = "cm_reset"
         IN /\ m.bytes = IF cm THEN 16 ELSE IF rsp.detail THEN 64 ELSE 40
            /\ At(m, StatusOffset, 4) = rsp.status
            /\ ~cm => At(m, 8, 8) = "start" /\ At(m, 16, 8) = "execute" /\ At(m, 24, 8) = "wait"
            /\ rsp.detail => /\ At(m, 40, 8) = "exception" /\ At(m, 48, 8) = "trace"
                             /\ At(m, 56, 8) = "shires"
<1>1. PICK h : h = Header("size", "rsp", {})
  OBVIOUS
<1>2. PICK a : a = F(8, "start")
  OBVIOUS
<1>3. PICK b : b = a ++ F(8, "execute")
  OBVIOUS
<1>4. PICK t : t = b ++ F(8, "wait")
  OBVIOUS
<1>5. PICK g : g = h ++ (IF call.kind = "cm_reset" THEN Empty ELSE t)
  OBVIOUS
<1>6. PICK s : s = g ++ F(4, rsp.status)
  OBVIOUS
<1>7. PICK p : p = s ++ F(4, "pad")
  OBVIOUS
<1>8. PICK x : x = F(8, "exception")
  OBVIOUS
<1>9. PICK y : y = x ++ F(8, "trace")
  OBVIOUS
<1>10. PICK z : z = y ++ F(8, "shires")
  OBVIOUS
<1>11. PICK e : e = IF rsp.detail THEN z ELSE Empty
  OBVIOUS
<1>12. PICK m : m = p ++ e
  OBVIOUS
<1>13. t = TimingFields
  BY <1>2, <1>3, <1>4 DEF TimingFields
<1>14. z = DetailFields
  BY <1>8, <1>9, <1>10 DEF DetailFields
<1>15. m = Encoded(rsp)
  BY <1>1, <1>5, <1>6, <1>7, <1>11, <1>12, <1>13, <1>14 DEF Encoded
<1>16. IsMessage(h) /\ h.bytes = 8
  BY <1>1, HeaderIs
<1>17. IsMessage(a) /\ a.bytes = 8 /\ At(a, 0, 8) = "start"
  BY <1>2, FieldIs
<1>18. IsMessage(b) /\ b.bytes = 16 /\ At(b, 0, 8) = "start" /\ At(b, 8, 8) = "execute"
  BY <1>3, <1>17, PutIs
<1>19. /\ IsMessage(t) /\ t.bytes = 24 /\ At(t, 0, 8) = "start" /\ At(t, 8, 8) = "execute"
       /\ At(t, 16, 8) = "wait"
  BY <1>4, <1>18, PutIs
<1>20. /\ IsMessage(g) /\ g.bytes = StatusOffset
       /\ call.kind # "cm_reset" =>
            At(g, 8, 8) = "start" /\ At(g, 16, 8) = "execute" /\ At(g, 24, 8) = "wait"
  <2>1. CASE call.kind = "cm_reset"
    <3>1. g = h ++ Empty
      BY <1>5, <2>1
    <3>2. IsMessage(g) /\ g.bytes = 8
      BY <1>16, <3>1, EmptyIs, CatIs
    <3>3. QED
      BY <2>1, <3>2 DEF StatusOffset, CM_RESET_RSP_STATUS_OFFSET
  <2>2. CASE call.kind # "cm_reset"
    <3>1. g = h ++ t
      BY <1>5, <2>2
    <3>2. /\ IsMessage(g) /\ g.bytes = 32
          /\ \A off \in Int : \A w : At(g, off, w) =
               IF off < 8 THEN At(h, off, w) ELSE At(t, off - 8, w)
      BY <1>16, <1>19, <3>1, CatIs
    <3>3. At(g, 8, 8) = "start" /\ At(g, 16, 8) = "execute" /\ At(g, 24, 8) = "wait"
      BY <1>19, <3>2
    <3>4. QED
      BY <2>2, <3>2, <3>3 DEF StatusOffset, RSP_STATUS_OFFSET
  <2>3. QED
    BY <2>1, <2>2
<1>21. StatusOffset = IF call.kind = "cm_reset" THEN 8 ELSE 32
  BY DEF StatusOffset, CM_RESET_RSP_STATUS_OFFSET, RSP_STATUS_OFFSET
<1>22. /\ IsMessage(s) /\ s.bytes = StatusOffset + 4 /\ At(s, StatusOffset, 4) = rsp.status
       /\ call.kind # "cm_reset" =>
            At(s, 8, 8) = "start" /\ At(s, 16, 8) = "execute" /\ At(s, 24, 8) = "wait"
  BY <1>6, <1>20, <1>21, PutIs
<1>23. /\ IsMessage(p) /\ p.bytes = StatusOffset + 8 /\ At(p, StatusOffset, 4) = rsp.status
       /\ call.kind # "cm_reset" =>
            At(p, 8, 8) = "start" /\ At(p, 16, 8) = "execute" /\ At(p, 24, 8) = "wait"
  BY <1>7, <1>21, <1>22, PutIs
<1>24. IsMessage(x) /\ x.bytes = 8 /\ At(x, 0, 8) = "exception"
  BY <1>8, FieldIs
<1>25. IsMessage(y) /\ y.bytes = 16 /\ At(y, 0, 8) = "exception" /\ At(y, 8, 8) = "trace"
  BY <1>9, <1>24, PutIs
<1>26. /\ IsMessage(z) /\ z.bytes = 24 /\ At(z, 0, 8) = "exception" /\ At(z, 8, 8) = "trace"
       /\ At(z, 16, 8) = "shires"
  BY <1>10, <1>25, PutIs
<1>27. /\ IsMessage(e) /\ e.bytes = IF rsp.detail THEN 24 ELSE 0
       /\ rsp.detail => /\ At(e, 0, 8) = "exception" /\ At(e, 8, 8) = "trace"
                        /\ At(e, 16, 8) = "shires"
  BY <1>11, <1>26, EmptyIs
<1>28. /\ m.bytes = p.bytes + e.bytes
       /\ \A off \in Int : \A w : At(m, off, w) =
            IF off < p.bytes THEN At(p, off, w) ELSE At(e, off - p.bytes, w)
  BY <1>12, <1>23, <1>27, CatIs
<1>29. /\ m.bytes = IF call.kind = "cm_reset" THEN 16 ELSE IF rsp.detail THEN 64 ELSE 40
       /\ At(m, StatusOffset, 4) = rsp.status
       /\ call.kind # "cm_reset" =>
            At(m, 8, 8) = "start" /\ At(m, 16, 8) = "execute" /\ At(m, 24, 8) = "wait"
  BY <1>21, <1>23, <1>27, <1>28
<1>30. rsp.detail => /\ At(m, 40, 8) = "exception" /\ At(m, 48, 8) = "trace"
                     /\ At(m, 56, 8) = "shires"
  BY <1>21, <1>23, <1>27, <1>28
<1>31. QED
  BY <1>15, <1>29, <1>30

LEMMA PairMin == ASSUME NEW a \in Int, NEW b \in Int PROVE Min({a, b}) = IF a <= b THEN a ELSE b
<1>1. \E x \in {a, b} : \A y \in {a, b} : x <= y
  BY a <= b \/ b <= a
<1>2. Min({a, b}) \in {a, b} /\ \A y \in {a, b} : Min({a, b}) <= y
  BY <1>1 DEF Min
<1>3. QED
  BY <1>2

LEMMA TripleMin ==
  ASSUME NEW a \in Int, NEW b \in Int, NEW d \in Int
  PROVE  LET m == Min({a, b, d}) IN m \in {a, b, d} /\ m <= a /\ m <= b /\ m <= d
<1>1. \E x \in {a, b, d} : \A y \in {a, b, d} : x <= y
  <2>1. CASE a <= b /\ a <= d
    BY <2>1
  <2>2. CASE b <= a /\ b <= d
    BY <2>2
  <2>3. CASE d <= a /\ d <= b
    BY <2>3
  <2>4. QED
    BY <2>1, <2>2, <2>3
<1>2. PICK m : m = Min({a, b, d})
  OBVIOUS
<1>3. m \in {a, b, d} /\ \A y \in {a, b, d} : m <= y
  BY <1>1, <1>2 DEF Min
<1>4. QED
  BY <1>2, <1>3

\* What a call makes of a response.
IsResponse(rsp) ==
  /\ rsp.status \in Nat /\ rsp.cut \in Nat /\ rsp.detail \in BOOLEAN
  /\ rsp.detail => call.kind = "launch"

LEMMA ParsedIs ==
  ASSUME NEW rsp, IsResponse(rsp)
  PROVE  LET res == Parsed(rsp) IN
         /\ res.outcome = IF rsp.cut < (IF call.kind = "cm_reset" THEN 12 ELSE 36) THEN "protocol"
                          ELSE IF rsp.status = 0 THEN "ok"
                          ELSE IF call.kind = "launch" THEN "kernel" ELSE "device"
         /\ res.outcome \in {"kernel", "device"} => res.status = rsp.status
         /\ res.outcome = "ok" /\ call.kind = "launch" =>
              res.timing = <<"start", "execute", "wait">>
         /\ res.outcome = "kernel" =>
              res.detail = IF rsp.detail /\ rsp.cut >= 64
                           THEN [exception |-> "exception", trace |-> "trace",
                                 shires |-> "shires"] ELSE Absent
<1>1. PICK m : m = Encoded(rsp)
  OBVIOUS
<1>2. PICK res : res = Parsed(rsp)
  OBVIOUS
<1>3. StatusOffset = IF call.kind = "cm_reset" THEN 8 ELSE 32
  BY DEF StatusOffset, CM_RESET_RSP_STATUS_OFFSET, RSP_STATUS_OFFSET
<1>4. /\ m.bytes = IF call.kind = "cm_reset" THEN 16 ELSE IF rsp.detail THEN 64 ELSE 40
      /\ At(m, StatusOffset, 4) = rsp.status
      /\ call.kind # "cm_reset" =>
           At(m, 8, 8) = "start" /\ At(m, 16, 8) = "execute" /\ At(m, 24, 8) = "wait"
      /\ rsp.detail => /\ At(m, 40, 8) = "exception" /\ At(m, 48, 8) = "trace"
                       /\ At(m, 56, 8) = "shires"
  BY <1>1, EncodedRead DEF IsResponse
<1>5. Arrived(rsp) = IF rsp.cut <= m.bytes THEN rsp.cut ELSE m.bytes
  BY <1>1, <1>4, PairMin DEF Arrived, IsResponse
<1>6. PICK n \in Nat : n = Arrived(rsp)
  BY <1>4, <1>5 DEF IsResponse
<1>7. PICK full : full = IF call.kind = "cm_reset" THEN 12 ELSE 36
  OBVIOUS
<1>8. n < full <=> rsp.cut < full
  BY <1>4, <1>5, <1>6, <1>7 DEF IsResponse
<1>9. /\ n < full => ResponseStatus(rsp) = Absent
      /\ ~(n < full) => ResponseStatus(rsp) = rsp.status
  BY <1>1, <1>3, <1>4, <1>6, <1>7 DEF ResponseStatus
<1>10. rsp.status # Absent
  BY AbsentAssumption DEF IsResponse
<1>11. CASE n < full
  <2>1. res = Returned("protocol")
    BY <1>2, <1>9, <1>11 DEF Parsed
  <2>2. res.outcome = "protocol"
    BY <2>1 DEF Returned
  <2>3. QED
    BY <1>2, <1>7, <1>8, <1>11, <2>2
<1>12. CASE ~(n < full)
  <2>1. ~(Arrived(rsp) < CMN_HEADER_SIZE) /\ ResponseStatus(rsp) # Absent
    BY <1>6, <1>7, <1>9, <1>10, <1>12 DEF CMN_HEADER_SIZE
  <2>2. CASE rsp.status = 0
    <3>1. res = [Returned("ok") EXCEPT !.timing = IF call.kind = "launch" THEN Timing(rsp)
                                                   ELSE Absent]
      BY <1>2, <1>9, <1>12, <2>1, <2>2 DEF Parsed
    <3>2. res.outcome = "ok" /\ (call.kind = "launch" => res.timing = Timing(rsp))
      BY <3>1 DEF Returned
    <3>3. call.kind = "launch" => Timing(rsp) = <<"start", "execute", "wait">>
      <4> SUFFICES ASSUME call.kind = "launch"
                   PROVE  Timing(rsp) = <<"start", "execute", "wait">>
        OBVIOUS
      <4>1. n >= 36
        BY <1>6, <1>7, <1>12
      <4>2. PICK f : f = Timing(rsp)
        OBVIOUS
      <4>3. f = [i \in 1 .. 3 |-> IF n < 8 * i + 8 THEN "zero" ELSE At(m, 8 * i, 8)]
        BY <1>1, <1>6, <4>2 DEF Timing
      <4>4. f[1] = "start" /\ f[2] = "execute" /\ f[3] = "wait"
        BY <1>4, <4>1, <4>3
      <4>5. f = [i \in 1 .. 3 |-> f[i]]
        BY <4>3
      <4>6. QED
        BY <4>2, <4>4, <4>5
    <3>4. QED
      BY <1>2, <1>7, <1>8, <1>12, <2>2, <3>2, <3>3
  <2>3. CASE rsp.status # 0 /\ call.kind = "launch"
    <3>1. res = [Returned("kernel") EXCEPT !.status = rsp.status, !.name = StatusName(rsp.status),
                                           !.detail = KernelErrorPtr(rsp)]
      BY <1>2, <1>9, <1>12, <2>1, <2>3 DEF Parsed
    <3>2. /\ res.outcome = "kernel" /\ res.status = rsp.status
          /\ res.detail = KernelErrorPtr(rsp)
      BY <3>1 DEF Returned
    <3>3. n < 64 <=> ~(rsp.detail /\ rsp.cut >= 64)
      BY <1>4, <1>5, <1>6, <2>3 DEF IsResponse
    <3>4. KernelErrorPtr(rsp) =
            IF n < 64 THEN Absent
            ELSE [exception |-> At(m, 40, 8), trace |-> At(m, 48, 8), shires |-> At(m, 56, 8)]
      BY <1>1, <1>6 DEF KernelErrorPtr, RSP_KERNEL_ERROR_PTR_OFFSET, RSP_STATUS_OFFSET
    <3>5. QED
      BY <1>2, <1>4, <1>7, <1>8, <1>12, <2>3, <3>2, <3>3, <3>4
  <2>4. CASE rsp.status # 0 /\ call.kind # "launch"
    <3>1. res = [Returned("device") EXCEPT !.status = rsp.status]
      BY <1>2, <1>9, <1>12, <2>1, <2>4 DEF Parsed
    <3>2. res.outcome = "device" /\ res.status = rsp.status
      BY <3>1 DEF Returned
    <3>3. QED
      BY <1>2, <1>7, <1>8, <1>12, <2>4, <3>2
  <2>5. QED
    BY <2>2, <2>3, <2>4
<1>13. QED
  BY <1>11, <1>12

(***************************************************************************)
(* The slots of a transfer: the k-th node of the j-th command has slot     *)
(* (j - 1) * MaxListNodes + k - 1, and the bytes from that many times      *)
(* MaxElem.                                                                *)
(***************************************************************************)
Before(j) == (j - 1) * (MaxListNodes * MaxElem)
Place(j, k) == Before(j) + (k - 1) * MaxElem
Count(j) == Min({MaxListNodes, (call.len - Before(j) + MaxElem - 1) \div MaxElem})
Given(j) ==
  [k \in 1 .. Count(j) |->
     [virt |-> HostBase + Place(j, k), phys |-> NodePhys(PhysBase(call), Place(j, k)),
      device |-> DeviceBase + Place(j, k), size |-> Min({MaxElem, call.len - Place(j, k)})]]

LEMMA LimitsTyped ==
  ASSUME limits \in DmaLimits
  PROVE  /\ limits.elem \in Nat /\ limits.count \in Nat /\ limits.message \in Nat
         /\ U16Max \in Nat /\ U16Max >= 88
BY MessagesAssumption

\* As many nodes as the device takes, the size field counts and a message holds.
LEMMA MaxListNodesIs ==
  ASSUME limits \in DmaLimits
  PROVE  /\ MaxListNodes \in Nat \ {0} /\ MaxElem \in Nat \ {0}
         /\ MaxListNodes <= AtLeastOne(limits.count)
         /\ 8 + 32 * MaxListNodes <= U16Max
         /\ limits.message >= 40 => 8 + 32 * MaxListNodes <= limits.message
<1>1. /\ limits.elem \in Nat /\ limits.count \in Nat /\ limits.message \in Nat
      /\ U16Max \in Nat /\ U16Max >= 88
  BY LimitsTyped
<1>2. ByField \in Nat /\ ByField >= 1 /\ 8 + 32 * ByField <= U16Max
  BY <1>1 DEF ByField, CMN_HEADER_SIZE, NodeSize
<1>3. /\ ByMessage \in Nat
      /\ limits.message >= 40 => ByMessage >= 1 /\ 8 + 32 * ByMessage <= limits.message
  BY <1>1 DEF ByMessage, CMN_HEADER_SIZE, NodeSize
<1>4. PICK n : n = Min({limits.count, ByField, ByMessage})
  OBVIOUS
<1>5. n \in Nat /\ n <= limits.count /\ n <= ByField /\ n <= ByMessage
  <2>1. PICK x \in Int, y \in Int, z \in Int : x = limits.count /\ y = ByField /\ z = ByMessage
    BY <1>1, <1>2, <1>3
  <2>2. n = Min({x, y, z})
    BY <1>4, <2>1
  <2>3. n \in {x, y, z} /\ n <= x /\ n <= y /\ n <= z
    BY <2>2, TripleMin
  <2>4. QED
    BY <1>1, <1>2, <1>3, <2>1, <2>3
<1>6. MaxListNodes = IF n = 0 THEN 1 ELSE n
  BY <1>4 DEF MaxListNodes, AtLeastOne
<1>7. MaxElem \in Nat \ {0}
  BY <1>1 DEF MaxElem, AtLeastOne
<1>8. MaxListNodes <= AtLeastOne(limits.count)
  BY <1>1, <1>5, <1>6 DEF AtLeastOne
<1>9. QED
  BY <1>1, <1>2, <1>3, <1>5, <1>6, <1>7, <1>8

\* Products, which the solver does not do by itself.
LEMMA Monotone ==
  ASSUME NEW a \in Int, NEW b \in Int, NEW e \in Nat, a <= b
  PROVE  a * e <= b * e
<1>1. (b - a) * e >= 0
  OBVIOUS
<1>2. QED
  BY <1>1

LEMMA DivisionIs ==
  ASSUME NEW a \in Int, NEW e \in Nat \ {0}
  PROVE  a \div e \in Int /\ (a % e) \in 0 .. e - 1 /\ a = e * (a \div e) + (a % e)
OBVIOUS

LEMMA QuotientIs ==
  ASSUME NEW a \in Int, NEW e \in Nat \ {0}
  PROVE  \E q \in Int : \E r \in 0 .. e - 1 : a = e * q + r
<1>1. PICK q \in Int : q = a \div e
  BY DivisionIs
<1>2. PICK r \in 0 .. e - 1 : r = a % e
  BY DivisionIs
<1>3. a = e * q + r
  BY <1>1, <1>2, DivisionIs
<1>4. QED
  BY <1>3

LEMMA CeilIs ==
  ASSUME NEW a \in Nat \ {0}, NEW e \in Nat \ {0}
  PROVE  LET q == (a + e - 1) \div e IN
         q \in Nat \ {0} /\ a <= q * e /\ (q - 1) * e < a
<1>1. PICK q \in Int : q = (a + e - 1) \div e
  OBVIOUS
<1>2. PICK r \in 0 .. e - 1 : a + e - 1 = e * q + r
  <2>1. PICK r \in 0 .. e - 1 : r = (a + e - 1) % e
    BY DivisionIs
  <2>2. a + e - 1 = e * q + r
    BY <1>1, <2>1, DivisionIs
  <2>3. QED
    BY <2>2
<1>3. e * q = q * e /\ (q - 1) * e = q * e - e
  OBVIOUS
<1>4. a <= q * e /\ (q - 1) * e < a
  BY <1>2, <1>3
<1>5. q >= 1
  <2> SUFFICES ASSUME q <= 0 PROVE FALSE
    OBVIOUS
  <2>1. q * e <= 0 * e
    BY Monotone
  <2>2. QED
    BY <1>4, <2>1
<1>6. QED
  BY <1>1, <1>4, <1>5

LEMMA GivenIs ==
  ASSUME limits \in DmaLimits, call \in TransferCalls, NEW j \in Nat \ {0},
         Before(j) < call.len
  PROVE  /\ Before(j) \in Nat
         /\ Count(j) \in 1 .. MaxListNodes
         /\ call.len - Before(j) <= Count(j) * MaxElem \/ Count(j) = MaxListNodes
         /\ \A k \in 1 .. MaxListNodes :
              k <= Count(j) <=> Place(j, k) < call.len
<1>1. MaxListNodes \in Nat \ {0} /\ MaxElem \in Nat \ {0}
  BY MaxListNodesIs
<1>2. PICK n \in Nat \ {0}, e \in Nat \ {0} : n = MaxListNodes /\ e = MaxElem
  BY <1>1
<1>3. call.len \in Nat
  BY MessagesAssumption DEF TransferCalls
<1>4. PICK b : b = Before(j)
  OBVIOUS
<1>5. b \in Nat
  <2>1. n * e \in Nat
    OBVIOUS
  <2>2. (j - 1) * (n * e) \in Nat
    BY <2>1
  <2>3. QED
    BY <1>2, <1>4, <2>2 DEF Before
<1>6. PICK a \in Nat \ {0} : a = call.len - b
  BY <1>3, <1>4, <1>5
<1>7. PICK q \in Nat \ {0} : q = (a + e - 1) \div e /\ a <= q * e /\ (q - 1) * e < a
  BY CeilIs
<1>8. Count(j) = IF n <= q THEN n ELSE q
  BY <1>2, <1>4, <1>6, <1>7, PairMin DEF Count
<1>9. ASSUME NEW k \in 1 .. n PROVE k <= Count(j) <=> Place(j, k) < call.len
  <2>1. Place(j, k) = b + (k - 1) * e
    BY <1>2, <1>4 DEF Place
  <2>2. (k - 1) * e \in Int
    OBVIOUS
  <2>3. k <= Count(j) => (k - 1) * e < a
    <3> SUFFICES ASSUME k <= Count(j) PROVE (k - 1) * e < a
      OBVIOUS
    <3>1. k - 1 <= q - 1
      BY <1>8
    <3>2. (k - 1) * e <= (q - 1) * e
      BY <3>1, Monotone
    <3>3. (q - 1) * e \in Int
      OBVIOUS
    <3>4. QED
      BY <1>7, <2>2, <3>2, <3>3
  <2>4. (k - 1) * e < a => k <= Count(j)
    <3> SUFFICES ASSUME (k - 1) * e < a, ~(k <= Count(j)) PROVE FALSE
      OBVIOUS
    <3>1. q <= k - 1
      BY <1>8
    <3>2. q * e <= (k - 1) * e
      BY <3>1, Monotone
    <3>3. q * e \in Int
      OBVIOUS
    <3>4. QED
      BY <1>7, <2>2, <3>2, <3>3
  <2>5. QED
    BY <1>3, <1>5, <1>6, <2>1, <2>2, <2>3, <2>4
<1>10. QED
  BY <1>2, <1>4, <1>5, <1>6, <1>7, <1>8, <1>9

\* The command that is built where the j-th one begins.
LEMMA BuiltIs ==
  ASSUME limits \in DmaLimits, call \in TransferCalls, NEW j \in Nat \ {0},
         offset = Before(j), Before(j) < call.len
  PROVE  /\ NumNodes = Count(j)
         /\ BuildDmaList.bytes = 8 + 32 * Count(j)
         /\ At(BuildDmaList, 0, 2) = BuildDmaList.bytes
         /\ At(BuildDmaList, 4, 2) = call.id
         /\ ReadNodes(BuildDmaList) = Given(j)
<1>1. NumNodes = Count(j)
  BY DEF NumNodes, Count, Rest
<1>2. \A k : NodeAt(k) = Place(j, k)
  BY DEF NodeAt, Place
<1>3. \A k : NodeBytes(k) = Min({MaxElem, call.len - Place(j, k)})
  BY <1>2 DEF NodeBytes
<1>4. Count(j) \in Nat
  BY GivenIs, MaxListNodesIs
<1>5. QED
  BY <1>1, <1>2, <1>3, <1>4, ListRead DEF Given

\* No byte is in two slots.
LEMMA SlotsDisjoint ==
  ASSUME limits \in DmaLimits, NEW i \in Int, NEW j \in Int,
         NEW k \in 1 .. MaxListNodes, NEW l \in 1 .. MaxListNodes, NEW b \in Int,
         Place(i, k) <= b, b < Place(i, k) + MaxElem,
         Place(j, l) <= b, b < Place(j, l) + MaxElem
  PROVE  i = j /\ k = l
<1>1. PICK n \in Nat \ {0}, e \in Nat \ {0} : n = MaxListNodes /\ e = MaxElem
  BY MaxListNodesIs
<1>2. k \in Int /\ l \in Int /\ k >= 1 /\ k <= n /\ l >= 1 /\ l <= n
  BY <1>1
<1>3. PICK s \in Int : s = (i - 1) * n + (k - 1)
  BY <1>2
<1>4. PICK t \in Int : t = (j - 1) * n + (l - 1)
  BY <1>2
<1>5. Place(i, k) = s * e /\ Place(j, l) = t * e
  BY <1>1, <1>2, <1>3, <1>4 DEF Place, Before
<1>6. s * e <= b /\ b < s * e + e /\ t * e <= b /\ b < t * e + e
  BY <1>1, <1>5
<1>7. ASSUME NEW p \in Int, NEW q \in Int, p * e <= b, b < q * e + e PROVE p <= q
  <2> SUFFICES ASSUME q + 1 <= p PROVE FALSE
    OBVIOUS
  <2>1. (q + 1) * e <= p * e
    BY Monotone
  <2>2. QED
    BY <1>7, <2>1
<1>8. s = t
  BY <1>6, <1>7
<1>9. ASSUME NEW p \in Int, NEW q \in Int, NEW x \in Int, NEW y \in Int, x <= n, 1 <= y,
             p * n + (x - 1) = q * n + (y - 1)
      PROVE  q <= p
  <2> SUFFICES ASSUME p + 1 <= q PROVE FALSE
    OBVIOUS
  <2>1. (p + 1) * n <= q * n
    BY Monotone
  <2>2. QED
    BY <1>9, <2>1
<1>10. i - 1 <= j - 1 /\ j - 1 <= i - 1
  BY <1>2, <1>3, <1>4, <1>8, <1>9
<1>11. i = j
  BY <1>10
<1>12. QED
  BY <1>2, <1>3, <1>4, <1>8, <1>11

\* Every byte is in a slot of one of the commands that reach beyond it.
LEMMA SlotsCover ==
  ASSUME limits \in DmaLimits, call \in TransferCalls, NEW P \in Nat,
         call.len <= Before(P + 1), NEW b \in 0 .. call.len - 1
  PROVE  \E j \in 1 .. P : \E k \in 1 .. MaxListNodes :
           Place(j, k) <= b /\ b < Place(j, k) + MaxElem /\ Before(j) < call.len
<1>1. PICK n \in Nat \ {0}, e \in Nat \ {0} : n = MaxListNodes /\ e = MaxElem
  BY MaxListNodesIs
<1>2. call.len \in Nat
  BY MessagesAssumption DEF TransferCalls
<1>3. PICK h \in Nat \ {0} : h = n * e
  OBVIOUS
<1>4. PICK q \in Int, r \in 0 .. h - 1 : b = h * q + r
  <2>1. b \in Int
    BY <1>2
  <2>2. QED
    BY <2>1, QuotientIs
<1>5. PICK p \in Int, o \in 0 .. e - 1 : r = e * p + o
  <2>1. r \in Int
    BY <1>4
  <2>2. QED
    BY <2>1, QuotientIs
<1>6. p >= 0
  <2> SUFFICES ASSUME p + 1 <= 0 PROVE FALSE
    OBVIOUS
  <2>1. (p + 1) * e <= 0 * e
    BY Monotone
  <2>2. QED
    BY <1>4, <1>5, <2>1
<1>7. p < n
  <2> SUFFICES ASSUME n <= p PROVE FALSE
    OBVIOUS
  <2>1. n * e <= p * e
    BY Monotone
  <2>2. QED
    BY <1>3, <1>4, <1>5, <2>1
<1>8. q >= 0
  <2> SUFFICES ASSUME q + 1 <= 0 PROVE FALSE
    OBVIOUS
  <2>1. (q + 1) * h <= 0 * h
    BY Monotone
  <2>2. QED
    BY <1>4, <2>1
<1>9. b < P * h
  <2>1. Before(P + 1) = P * h
    BY <1>1, <1>3 DEF Before
  <2>2. P * h \in Int
    OBVIOUS
  <2>3. QED
    BY <1>2, <2>1, <2>2
<1>10. q < P
  <2> SUFFICES ASSUME P <= q PROVE FALSE
    OBVIOUS
  <2>1. P * h <= q * h
    BY Monotone
  <2>2. QED
    BY <1>4, <1>9, <2>1
<1>11. PICK j \in 1 .. P, k \in 1 .. n : j = q + 1 /\ k = p + 1
  BY <1>6, <1>7, <1>8, <1>10
<1>12. Before(j) = q * h
  BY <1>1, <1>3, <1>11 DEF Before
<1>13. Place(j, k) = q * h + p * e
  BY <1>1, <1>11, <1>12 DEF Place
<1>14. q * h \in Int /\ p * e \in Int /\ b = q * h + p * e + o
  BY <1>4, <1>5
<1>15. 0 <= p * e
  BY <1>6
<1>16. Place(j, k) <= b /\ b < Place(j, k) + MaxElem /\ Before(j) < call.len
  BY <1>1, <1>2, <1>12, <1>13, <1>14, <1>15
<1>17. QED
  BY <1>1, <1>11, <1>16

(***************************************************************************)
(* Sequences of anything.                                                  *)
(***************************************************************************)
IsSeq(s) == \E S : s \in Seq(S)

LEMMA AppendIs ==
  ASSUME NEW s, IsSeq(s), NEW e
  PROVE  /\ IsSeq(Append(s, e)) /\ Len(Append(s, e)) = Len(s) + 1
         /\ \A i \in 1 .. Len(s) : Append(s, e)[i] = s[i]
         /\ Append(s, e)[Len(s) + 1] = e
<1>1. PICK S : s \in Seq(S)
  BY DEF IsSeq
<1>2. PICK T : T = S \cup {e}
  OBVIOUS
<1>3. Len(s) \in Nat /\ s \in [1 .. Len(s) -> S]
  BY <1>1
<1>4. s \in Seq(T) /\ e \in T
  <2>1. s \in [1 .. Len(s) -> T]
    BY <1>2, <1>3
  <2>2. QED
    BY <1>2, <1>3, <2>1
<1>5. Append(s, e) \in Seq(T)
  BY <1>4
<1>6. QED
  BY <1>4, <1>5 DEF IsSeq

LEMMA TailIs ==
  ASSUME NEW s, IsSeq(s), s # <<>>
  PROVE  /\ IsSeq(Tail(s)) /\ Len(Tail(s)) = Len(s) - 1 /\ Len(s) >= 1
         /\ \A i \in 1 .. Len(s) - 1 : Tail(s)[i] = s[i + 1]
         /\ Head(s) = s[1]
<1>1. PICK S : s \in Seq(S)
  BY DEF IsSeq
<1>2. QED
  BY <1>1 DEF IsSeq

LEMMA SeqIs ==
  ASSUME NEW s, IsSeq(s)
  PROVE  Len(s) \in Nat /\ DOMAIN s = 1 .. Len(s) /\ (Len(s) = 0 <=> s = <<>>)
<1>1. PICK S : s \in Seq(S)
  BY DEF IsSeq
<1>2. QED
  BY <1>1

(***************************************************************************)
(* The inductive invariant.                                                *)
(***************************************************************************)
Pushed == Len(received) + Len(queue)

\* What the firmware makes of the j-th command of a call.
Expected(j) ==
  IF call.kind = "launch" THEN <<Launched(Options(call))>>
  ELSE IF call.kind = "dma" THEN <<Given(j)>>
  ELSE IF call.kind = "cm_reset" THEN <<"shires">>
  ELSE <<"reset">>

\* Commands are understood as they were meant, those under way included.
Conveyed ==
  /\ IsSeq(queue) /\ IsSeq(received)
  /\ \A i \in 1 .. Len(received) : received[i] = Expected(i)
  /\ \A i \in 1 .. Len(queue) : /\ Encodable(queue[i].bytes)
                                /\ Understood(queue[i]) = Expected(Len(received) + i)

\* A transfer goes on where its commands end, and has all of them once it waits.
Progress ==
  call.kind = "dma" =>
    /\ phase = "pushing" => offset = Before(Pushed + 1) /\ offset < call.len
    /\ \A j \in 1 .. Pushed : Before(j) < call.len
    /\ phase = "waiting" \/ (phase = "returned" /\ result.outcome = "ok") =>
         call.len <= Before(Pushed + 1)

Answer(r) == r # <<>> => call.kind # "etsoc_reset" /\ r = <<r[1]>> /\ IsResponse(r[1])

\* A result is that of the submission, or what the last response says.
FromSubmission ==
  /\ result.outcome = "io" /\ limits.message < 88
  /\ call.kind = "dma" => limits.message < 40
FromReset == call.kind = "etsoc_reset" /\ result.outcome = "ok"
FromResponse ==
  /\ call.kind # "etsoc_reset" /\ last # <<>> /\ result = Parsed(last[1])
  /\ result.outcome = "ok" => queue = <<>>

MessagesFrame ==
  /\ limits \in DmaLimits
  /\ call \in LaunchCalls \cup TransferCalls \cup ResetCalls
  /\ phase \in {"pushing", "waiting", "returned"}
  /\ result.outcome \in Outcomes
  /\ phase = "returned" <=> result.outcome # "nothing yet"
  /\ offset \in Nat
  /\ call.kind = "dma" => offset <= call.len
MessagesIInv ==
  /\ MessagesFrame
  /\ Conveyed
  /\ Progress
  /\ Answer(response) /\ Answer(last)
  /\ phase = "returned" => FromSubmission \/ FromReset \/ FromResponse

\* What stands for the whole of a call.
LEMMA SameCall ==
  ASSUME call' = call, limits' = limits
  PROVE  /\ MaxListNodes' = MaxListNodes /\ MaxElem' = MaxElem
         /\ \A j : Before(j)' = Before(j)
         /\ \A j : Expected(j)' = Expected(j)
         /\ \A rsp : Parsed(rsp)' = Parsed(rsp)
         /\ \A rsp : IsResponse(rsp)' = IsResponse(rsp)
         /\ \A r : Answer(r)' = Answer(r)
<1>1. MaxListNodes' = MaxListNodes /\ MaxElem' = MaxElem
  BY DEF MaxListNodes, ByField, ByMessage, MaxElem
<1>2. \A j : Before(j)' = Before(j)
  BY <1>1 DEF Before
<1>3. \A j, k : Place(j, k)' = Place(j, k)
  BY <1>1, <1>2 DEF Place
<1>4. \A j : Count(j)' = Count(j)
  BY <1>1, <1>2 DEF Count
<1>5. PhysBase(call)' = PhysBase(call) /\ call'.len = call.len
  BY DEF PhysBase
<1>6. \A j : Given(j)' = Given(j)
  BY <1>1, <1>3, <1>4, <1>5 DEF Given
<1>7. \A j : Expected(j)' = Expected(j)
  BY <1>6 DEF Expected
<1>8. \A rsp : Encoded(rsp)' = Encoded(rsp)
  BY DEF Encoded
<1>9. StatusOffset' = StatusOffset
  BY DEF StatusOffset
<1>10. \A rsp : Arrived(rsp)' = Arrived(rsp)
  BY <1>8 DEF Arrived
<1>11. \A rsp : ResponseStatus(rsp)' = ResponseStatus(rsp)
  BY <1>8, <1>9, <1>10 DEF ResponseStatus
<1>12. \A rsp : KernelErrorPtr(rsp)' = KernelErrorPtr(rsp)
  BY <1>8, <1>10 DEF KernelErrorPtr
<1>13. \A rsp : Timing(rsp)' = Timing(rsp)
  BY <1>8, <1>10 DEF Timing
<1>14. \A rsp : Parsed(rsp)' = Parsed(rsp)
  BY <1>10, <1>11, <1>12, <1>13 DEF Parsed
<1>15. \A rsp : IsResponse(rsp)' = IsResponse(rsp)
  BY DEF IsResponse
<1>16. \A r : Answer(r)' = Answer(r)
  BY <1>15 DEF Answer
<1>17. QED
  BY <1>1, <1>2, <1>7, <1>14, <1>15, <1>16

LEMMA CallIs ==
  ASSUME call \in LaunchCalls \cup TransferCalls \cup ResetCalls
  PROVE  /\ call.kind \in {"launch", "dma", "cm_reset", "etsoc_reset"}
         /\ call.kind = "launch" => call \in LaunchCalls
         /\ call.kind = "dma" => /\ call \in TransferCalls /\ call.len \in Nat \ {0}
                                 /\ call.id \in {"dma_readlist", "dma_writelist"}
<1>1. CASE call \in LaunchCalls
  <2>1. call.kind = "launch"
    BY <1>1 DEF LaunchCalls
  <2>2. QED
    BY <1>1, <2>1
<1>2. CASE call \in TransferCalls
  <2>1. call.kind = "dma" /\ call.len \in TransferLengths
        /\ call.id \in {"dma_readlist", "dma_writelist"}
    BY <1>2 DEF TransferCalls
  <2>2. QED
    BY <1>2, <2>1, MessagesAssumption
<1>3. CASE call \in ResetCalls
  <2>1. call.kind \in {"cm_reset", "etsoc_reset"}
    BY <1>3 DEF ResetCalls
  <2>2. QED
    BY <2>1
<1>4. QED
  BY <1>1, <1>2, <1>3

LEMMA MessagesStart == MessagesInit => MessagesIInv
<1> SUFFICES ASSUME MessagesInit PROVE MessagesIInv
  OBVIOUS
<1>0. /\ queue = <<>> /\ received = <<>> /\ response = <<>> /\ last = <<>>
  BY DEF MessagesInit
<1>1. /\ limits \in DmaLimits /\ call \in LaunchCalls \cup TransferCalls \cup ResetCalls
      /\ phase = "pushing" /\ offset = 0 /\ result.outcome = "nothing yet"
  BY DEF MessagesInit, Returned
<1>2. call.kind = "dma" => call \in TransferCalls /\ call.len \in Nat \ {0}
  BY <1>1, CallIs
<1>3. IsSeq(queue) /\ Len(queue) = 0 /\ IsSeq(received) /\ Len(received) = 0
  <2>1. <<>> \in Seq({}) /\ Len(<<>>) = 0
    OBVIOUS
  <2>2. QED
    BY <1>0, <2>1 DEF IsSeq
<1>4. MessagesFrame
  <2>1. offset = 0
    BY <1>1
  <2>2. call.kind = "dma" => call.len \in Nat \ {0}
    BY <1>2
  <2>3. offset \in Nat /\ (call.kind = "dma" => offset <= call.len)
    BY <2>1, <2>2
  <2>4. QED
    BY <1>1, <2>3 DEF MessagesFrame, Outcomes
<1>5. Conveyed
  BY <1>3 DEF Conveyed
<1>6. Pushed = 0
  BY <1>3 DEF Pushed
<1>7. Before(1) = 0
  <2>1. PICK n \in Nat, e \in Nat : n = MaxListNodes /\ e = MaxElem
    BY <1>1, MaxListNodesIs
  <2>2. (1 - 1) * (n * e) = 0
    OBVIOUS
  <2>3. QED
    BY <2>1, <2>2 DEF Before
<1>8. Progress
  <2>1. Pushed + 1 = 1 /\ 1 .. Pushed = {}
    BY <1>6
  <2>2. offset = 0
    BY <1>1
  <2>3. call.kind = "dma" => call.len \in Nat \ {0}
    BY <1>2
  <2>4. call.kind = "dma" => offset = Before(Pushed + 1) /\ offset < call.len
    BY <1>7, <2>1, <2>2, <2>3
  <2>5. phase = "pushing"
    BY <1>1
  <2>6. QED
    BY <2>1, <2>4, <2>5 DEF Progress
<1>9. Answer(response) /\ Answer(last)
  BY <1>0 DEF Answer
<1>10. QED
  BY <1>1, <1>4, <1>5, <1>8, <1>9 DEF MessagesIInv

\* The submission of a command that can be encoded.
LEMMA PushIs ==
  ASSUME NEW cmd, NEW desc, NEW next, PushCmd(cmd, desc, next), cmd.bytes \in Nat,
         limits \in DmaLimits, cmd.bytes <= U16Max, "mm_reset" \notin desc
  PROVE  \/ /\ limits.message < cmd.bytes
            /\ phase' = "returned" /\ result' = Returned("io") /\ queue' = queue
         \/ /\ queue' = Append(queue, [bytes |-> cmd, desc |-> desc])
            /\ phase' = next
            /\ next = "returned" => result' = Returned("ok")
            /\ next # "returned" => result' = result
<1>1. limits.message \in Nat
  BY LimitsTyped
<1>2. QED
  BY <1>1 DEF PushCmd, Encodable, Accepted

\* A command behind those under way.
LEMMA ConveyedPush ==
  ASSUME Conveyed, call' = call, limits' = limits, received' = received, NEW item,
         queue' = Append(queue, item), Encodable(item.bytes),
         Understood(item) = Expected(Pushed + 1)
  PROVE  Conveyed' /\ Pushed' = Pushed + 1 /\ Pushed \in Nat
<1>1. IsSeq(queue) /\ IsSeq(received)
  BY DEF Conveyed
<1>2. Len(queue) \in Nat /\ Len(received) \in Nat
  BY <1>1, SeqIs
<1>3. /\ IsSeq(queue') /\ Len(queue') = Len(queue) + 1
      /\ \A i \in 1 .. Len(queue) : queue'[i] = queue[i]
      /\ queue'[Len(queue) + 1] = item
  BY <1>1, AppendIs
<1>4. Pushed' = Pushed + 1 /\ Pushed \in Nat
  BY <1>2, <1>3 DEF Pushed
<1>5. \A i \in 1 .. Len(received) : received'[i] = Expected(i)'
  BY SameCall DEF Conveyed
<1>6. ASSUME NEW i \in 1 .. Len(queue')
      PROVE  Encodable(queue'[i].bytes) /\ Understood(queue'[i]) = Expected(Len(received) + i)'
  <2>1. CASE i \in 1 .. Len(queue)
    BY <1>3, <2>1, SameCall DEF Conveyed
  <2>2. CASE i = Len(queue) + 1
    <3>1. Len(received) + i = Pushed + 1
      BY <1>2, <2>2 DEF Pushed
    <3>2. QED
      BY <1>3, <2>2, <3>1, SameCall
  <2>3. QED
    BY <1>2, <1>3, <2>1, <2>2
<1>7. QED
  BY <1>1, <1>3, <1>4, <1>5, <1>6 DEF Conveyed, Encodable

(***************************************************************************)
(* The steps.                                                              *)
(***************************************************************************)
LEMMA RefusedStep ==
  ASSUME MessagesIInv, phase' = "returned", result' = Returned("io"),
         UNCHANGED <<limits, call, queue, received, response, last>>,
         offset' \in Nat, call.kind = "dma" => offset' <= call.len,
         limits.message < 88, call.kind = "dma" => limits.message < 40
  PROVE  MessagesIInv'
<1>1. result'.outcome = "io"
  BY DEF Returned
<1>2. MessagesFrame'
  BY <1>1 DEF MessagesIInv, MessagesFrame, Outcomes
<1>3. Conveyed'
  BY SameCall DEF MessagesIInv, Conveyed, Encodable
<1>4. Progress'
  BY <1>1, SameCall DEF MessagesIInv, Progress, Pushed
<1>5. Answer(response)' /\ Answer(last)'
  BY SameCall DEF MessagesIInv
<1>6. FromSubmission'
  BY <1>1 DEF FromSubmission
<1>7. QED
  BY <1>2, <1>3, <1>4, <1>5, <1>6 DEF MessagesIInv

LEMMA AcceptedStep ==
  ASSUME MessagesIInv, phase = "pushing", NEW item, queue' = Append(queue, item),
         Encodable(item.bytes), Understood(item) = Expected(Pushed + 1),
         UNCHANGED <<limits, call, received, response, last>>,
         offset' \in Nat, call.kind = "dma" => offset' <= call.len,
         \/ phase' \in {"pushing", "waiting"} /\ result' = result
         \/ phase' = "returned" /\ result' = Returned("ok") /\ call.kind = "etsoc_reset",
         Progress'
  PROVE  MessagesIInv'
<1>1. result.outcome = "nothing yet"
  BY DEF MessagesIInv, MessagesFrame
<1>2. \/ phase' \in {"pushing", "waiting"} /\ result'.outcome = "nothing yet"
      \/ phase' = "returned" /\ result'.outcome = "ok" /\ call.kind = "etsoc_reset"
  <2>1. Returned("ok").outcome = "ok"
    BY DEF Returned
  <2>2. QED
    BY <1>1, <2>1
<1>3. MessagesFrame'
  BY <1>2 DEF MessagesIInv, MessagesFrame, Outcomes
<1>4. Conveyed'
  BY ConveyedPush DEF MessagesIInv
<1>5. Answer(response)' /\ Answer(last)'
  BY SameCall DEF MessagesIInv
<1>6. phase' = "returned" => FromReset'
  BY <1>2 DEF FromReset
<1>7. QED
  BY <1>3, <1>4, <1>5, <1>6 DEF MessagesIInv

LEMMA LaunchStep == MessagesIInv /\ Launch => MessagesIInv'
<1> SUFFICES ASSUME MessagesIInv, Launch PROVE MessagesIInv'
  OBVIOUS
<1>1. PICK cmd : cmd = BuildKernelLaunch(Options(call))
  OBVIOUS
<1>2. /\ IsMessage(cmd) /\ cmd.bytes <= 88 /\ At(cmd, 0, 2) = cmd.bytes
      /\ At(cmd, 4, 2) = "kernel_launch" /\ ReadLaunch(cmd) = Launched(Options(call))
  BY <1>1, LaunchRead
<1>3. /\ phase = "pushing" /\ call.kind = "launch" /\ PushCmd(cmd, {}, "waiting")
      /\ UNCHANGED <<limits, call, offset, received, response, last>>
  BY <1>1 DEF Launch
<1>4. limits \in DmaLimits /\ offset \in Nat
  BY DEF MessagesIInv, MessagesFrame
<1>5. cmd.bytes \in Nat /\ cmd.bytes <= U16Max /\ limits.message \in Nat
  BY <1>2, <1>4, LimitsTyped DEF IsMessage
<1>6. CASE limits.message < cmd.bytes /\ phase' = "returned" /\ result' = Returned("io")
           /\ queue' = queue
  BY <1>2, <1>3, <1>4, <1>5, <1>6, RefusedStep
<1>7. CASE /\ queue' = Append(queue, [bytes |-> cmd, desc |-> {}]) /\ phase' = "waiting"
           /\ result' = result
  <2>1. PICK item : item = [bytes |-> cmd, desc |-> {}]
    OBVIOUS
  <2>2. item.bytes = cmd
    BY <2>1
  <2>3. Understood(item) = <<Launched(Options(call))>>
    BY <1>2, <2>2 DEF Understood
  <2>4. Understood(item) = Expected(Pushed + 1)
    BY <1>3, <2>3 DEF Expected
  <2>5. Encodable(item.bytes)
    BY <1>5, <2>2 DEF Encodable
  <2>6. Progress'
    BY <1>3 DEF Progress
  <2>7. QED
    BY <1>3, <1>4, <1>7, <2>1, <2>4, <2>5, <2>6, AcceptedStep
<1>8. PICK desc : desc = {}
  OBVIOUS
<1>9. PICK next : next = "waiting"
  OBVIOUS
<1>10. PushCmd(cmd, desc, next) /\ "mm_reset" \notin desc
  BY <1>3, <1>8, <1>9
<1>11. \/ /\ limits.message < cmd.bytes
          /\ phase' = "returned" /\ result' = Returned("io") /\ queue' = queue
       \/ /\ queue' = Append(queue, [bytes |-> cmd, desc |-> desc])
          /\ phase' = next
          /\ next = "returned" => result' = Returned("ok")
          /\ next # "returned" => result' = result
  BY <1>4, <1>5, <1>10, PushIs
<1>12. QED
  BY <1>6, <1>7, <1>8, <1>9, <1>11

LEMMA ResetShiresStep == MessagesIInv /\ ResetShires => MessagesIInv'
<1> SUFFICES ASSUME MessagesIInv, ResetShires PROVE MessagesIInv'
  OBVIOUS
<1>1. PICK cmd : cmd = BuildCmReset
  OBVIOUS
<1>2. /\ cmd.bytes = 16 /\ At(cmd, 0, 2) = 16 /\ At(cmd, 4, 2) = "cm_reset"
      /\ At(cmd, 8, 8) = "shires"
  BY <1>1, ResetsRead
<1>3. /\ phase = "pushing" /\ call.kind = "cm_reset" /\ PushCmd(cmd, {"high_priority"}, "waiting")
      /\ UNCHANGED <<limits, call, offset, received, response, last>>
  BY <1>1 DEF ResetShires
<1>4. limits \in DmaLimits /\ offset \in Nat
  BY DEF MessagesIInv, MessagesFrame
<1>5. cmd.bytes \in Nat /\ cmd.bytes <= U16Max /\ limits.message \in Nat
  BY <1>2, <1>4, LimitsTyped
<1>6. CASE limits.message < cmd.bytes /\ phase' = "returned" /\ result' = Returned("io")
           /\ queue' = queue
  BY <1>2, <1>3, <1>4, <1>5, <1>6, RefusedStep
<1>7. CASE /\ queue' = Append(queue, [bytes |-> cmd, desc |-> {"high_priority"}])
           /\ phase' = "waiting" /\ result' = result
  <2>1. PICK item : item = [bytes |-> cmd, desc |-> {"high_priority"}]
    OBVIOUS
  <2>2. item.bytes = cmd /\ item.desc = {"high_priority"}
    BY <2>1
  <2>3. Understood(item) = <<"shires">>
    BY <1>2, <2>2 DEF Understood
  <2>4. Understood(item) = Expected(Pushed + 1)
    BY <1>3, <2>3 DEF Expected
  <2>5. Encodable(item.bytes)
    BY <1>5, <2>2 DEF Encodable
  <2>6. Progress'
    BY <1>3 DEF Progress
  <2>7. QED
    BY <1>3, <1>4, <1>7, <2>1, <2>4, <2>5, <2>6, AcceptedStep
<1>8. PICK desc : desc = {"high_priority"}
  OBVIOUS
<1>9. PICK next : next = "waiting"
  OBVIOUS
<1>10. PushCmd(cmd, desc, next) /\ "mm_reset" \notin desc
  BY <1>3, <1>8, <1>9
<1>11. \/ /\ limits.message < cmd.bytes
          /\ phase' = "returned" /\ result' = Returned("io") /\ queue' = queue
       \/ /\ queue' = Append(queue, [bytes |-> cmd, desc |-> desc])
          /\ phase' = next
          /\ next = "returned" => result' = Returned("ok")
          /\ next # "returned" => result' = result
  BY <1>4, <1>5, <1>10, PushIs
<1>12. QED
  BY <1>6, <1>7, <1>8, <1>9, <1>11

LEMMA ResetDeviceStep == MessagesIInv /\ ResetDevice => MessagesIInv'
<1> SUFFICES ASSUME MessagesIInv, ResetDevice PROVE MessagesIInv'
  OBVIOUS
<1>1. PICK cmd : cmd = BuildEtsocReset
  OBVIOUS
<1>2. cmd.bytes = 16 /\ At(cmd, 0, 2) = 16 /\ At(cmd, 4, 2) = "etsoc_reset"
  BY <1>1, ResetsRead
<1>3. /\ phase = "pushing" /\ call.kind = "etsoc_reset"
      /\ PushCmd(cmd, {"etsoc_reset"}, "returned")
      /\ UNCHANGED <<limits, call, offset, received, response, last>>
  BY <1>1 DEF ResetDevice
<1>4. limits \in DmaLimits /\ offset \in Nat
  BY DEF MessagesIInv, MessagesFrame
<1>5. cmd.bytes \in Nat /\ cmd.bytes <= U16Max /\ limits.message \in Nat
  BY <1>2, <1>4, LimitsTyped
<1>6. CASE limits.message < cmd.bytes /\ phase' = "returned" /\ result' = Returned("io")
           /\ queue' = queue
  BY <1>2, <1>3, <1>4, <1>5, <1>6, RefusedStep
<1>7. CASE /\ queue' = Append(queue, [bytes |-> cmd, desc |-> {"etsoc_reset"}])
           /\ phase' = "returned" /\ result' = Returned("ok")
  <2>1. PICK item : item = [bytes |-> cmd, desc |-> {"etsoc_reset"}]
    OBVIOUS
  <2>2. item.bytes = cmd /\ item.desc = {"etsoc_reset"}
    BY <2>1
  <2>3. Understood(item) = <<"reset">>
    BY <1>2, <2>2 DEF Understood
  <2>4. Understood(item) = Expected(Pushed + 1)
    BY <1>3, <2>3 DEF Expected
  <2>5. Encodable(item.bytes)
    BY <1>5, <2>2 DEF Encodable
  <2>6. Progress'
    BY <1>3 DEF Progress
  <2>7. QED
    BY <1>3, <1>4, <1>7, <2>1, <2>4, <2>5, <2>6, AcceptedStep
<1>8. PICK desc : desc = {"etsoc_reset"}
  OBVIOUS
<1>9. PICK next : next = "returned"
  OBVIOUS
<1>10. PushCmd(cmd, desc, next) /\ "mm_reset" \notin desc
  BY <1>3, <1>8, <1>9
<1>11. \/ /\ limits.message < cmd.bytes
          /\ phase' = "returned" /\ result' = Returned("io") /\ queue' = queue
       \/ /\ queue' = Append(queue, [bytes |-> cmd, desc |-> desc])
          /\ phase' = next
          /\ next = "returned" => result' = Returned("ok")
          /\ next # "returned" => result' = result
  BY <1>4, <1>5, <1>10, PushIs
<1>12. QED
  BY <1>6, <1>7, <1>8, <1>9, <1>11

LEMMA PushDmaStep == MessagesIInv /\ PushDmaList => MessagesIInv'
<1> SUFFICES ASSUME MessagesIInv, PushDmaList PROVE MessagesIInv'
  OBVIOUS
<1>1. PICK cmd : cmd = BuildDmaList
  OBVIOUS
<1>2. PICK next : next = IF Rest <= NumNodes * MaxElem THEN "waiting" ELSE "pushing"
  OBVIOUS
<1>3. PICK desc : desc = {"dma"}
  OBVIOUS
<1>4. phase = "pushing" /\ call.kind = "dma" /\ PushCmd(cmd, desc, next)
  BY <1>1, <1>2, <1>3 DEF PushDmaList
<1>5. /\ offset' = Min({call.len, offset + NumNodes * MaxElem})
      /\ UNCHANGED <<limits, call, received, response, last>>
  BY DEF PushDmaList
<1>6. limits \in DmaLimits /\ call \in LaunchCalls \cup TransferCalls \cup ResetCalls
  BY DEF MessagesIInv, MessagesFrame
<1>7. /\ call \in TransferCalls /\ call.len \in Nat \ {0}
      /\ call.id \in {"dma_readlist", "dma_writelist"}
  BY <1>4, <1>6, CallIs
<1>8. IsSeq(queue) /\ IsSeq(received)
  BY DEF MessagesIInv, Conveyed
<1>9. PICK j \in Nat \ {0} : j = Pushed + 1 /\ Pushed = j - 1
  BY <1>8, SeqIs DEF Pushed
<1>10. offset = Before(j) /\ offset < call.len
  BY <1>4, <1>9 DEF MessagesIInv, Progress
<1>11. /\ NumNodes = Count(j) /\ cmd.bytes = 8 + 32 * Count(j) /\ At(cmd, 0, 2) = cmd.bytes
       /\ At(cmd, 4, 2) = call.id /\ ReadNodes(cmd) = Given(j)
  BY <1>1, <1>6, <1>7, <1>10, BuiltIs
<1>12. PICK n \in Nat \ {0}, e \in Nat \ {0} : n = MaxListNodes /\ e = MaxElem
  BY <1>6, MaxListNodesIs
<1>13. /\ 8 + 32 * n <= U16Max /\ U16Max \in Nat
       /\ limits.message >= 40 => 8 + 32 * n <= limits.message
  BY <1>6, <1>12, MaxListNodesIs, LimitsTyped
<1>14. PICK c \in 1 .. n : /\ c = Count(j)
                           /\ call.len - Before(j) <= c * e \/ c = n
  BY <1>6, <1>7, <1>10, <1>12, GivenIs
<1>15. cmd.bytes = 8 + 32 * c /\ cmd.bytes \in Nat /\ cmd.bytes <= U16Max
  BY <1>11, <1>13, <1>14
<1>16. PICK b \in Nat : b = Before(j) /\ b < call.len
  BY <1>6, <1>7, <1>10, GivenIs
<1>17. PICK m \in Nat : m = c * e
  OBVIOUS
<1>18. offset' = IF call.len <= b + m THEN call.len ELSE b + m
  BY <1>5, <1>7, <1>10, <1>11, <1>12, <1>14, <1>16, <1>17, PairMin
<1>19. offset' \in Nat /\ offset' <= call.len
  BY <1>7, <1>16, <1>17, <1>18
<1>20. Rest <= NumNodes * MaxElem <=> call.len <= b + m
  <2>1. Rest = call.len - b
    BY <1>10, <1>16 DEF Rest
  <2>2. NumNodes * MaxElem = m
    BY <1>11, <1>12, <1>14, <1>17
  <2>3. QED
    BY <1>7, <2>1, <2>2
<1>21. Before(j + 1) = b + n * e
  <2>1. Before(j + 1) = j * (n * e) /\ b = (j - 1) * (n * e)
    BY <1>12, <1>16 DEF Before
  <2>2. PICK h \in Nat : h = n * e
    OBVIOUS
  <2>3. j * h = (j - 1) * h + h
    OBVIOUS
  <2>4. QED
    BY <2>1, <2>2, <2>3
<1>22. /\ call.len <= b + m => call.len <= Before(j + 1)
       /\ ~(call.len <= b + m) => c = n /\ Before(j + 1) = b + m
  <2>1. c * e <= n * e /\ n * e \in Int
    BY Monotone
  <2>2. call.len - b <= m \/ c = n
    BY <1>14, <1>16, <1>17
  <2>3. QED
    BY <1>7, <1>17, <1>21, <2>1, <2>2
<1>23. CASE limits.message < cmd.bytes /\ phase' = "returned" /\ result' = Returned("io")
            /\ queue' = queue
  <2>1. limits.message \in Nat
    BY <1>6, LimitsTyped
  <2>2. limits.message < 40
    <3> SUFFICES ASSUME limits.message >= 40 PROVE FALSE
      BY <2>1
    <3>1. 8 + 32 * c <= 8 + 32 * n
      OBVIOUS
    <3>2. QED
      BY <1>13, <1>15, <1>23, <2>1, <3>1
  <2>3. limits.message < 88
    BY <2>1, <2>2
  <2>4. QED
    BY <1>5, <1>19, <1>23, <2>2, <2>3, RefusedStep
<1>24. CASE queue' = Append(queue, [bytes |-> cmd, desc |-> desc]) /\ phase' = next
            /\ result' = result
  <2>1. PICK item : item = [bytes |-> cmd, desc |-> desc]
    OBVIOUS
  <2>2. item.bytes = cmd /\ item.desc = {"dma"}
    BY <1>3, <2>1
  <2>3. Understood(item) = <<Given(j)>>
    <3>1. Understood(item) = <<ReadNodes(cmd)>>
      BY <1>7, <1>11, <2>2 DEF Understood
    <3>2. QED
      BY <1>11, <3>1
  <2>4. Understood(item) = Expected(Pushed + 1)
    BY <1>4, <1>9, <2>3 DEF Expected
  <2>5. Encodable(item.bytes)
    BY <1>15, <2>2 DEF Encodable
  <2>6. queue' = Append(queue, item)
    BY <1>24, <2>1
  <2>7. Conveyed' /\ Pushed' = Pushed + 1
    BY <1>5, <2>4, <2>5, <2>6, ConveyedPush DEF MessagesIInv
  <2>8. Pushed' = j /\ Pushed' + 1 = j + 1
    BY <1>9, <2>7
  <2>9. next \in {"pushing", "waiting"}
    BY <1>2
  <2>10. next = "pushing" => offset' = Before(j + 1) /\ offset' < call.len
    <3>1. next = "pushing" => ~(call.len <= b + m)
      BY <1>2, <1>20
    <3>2. QED
      BY <1>7, <1>16, <1>17, <1>18, <1>22, <3>1
  <2>11. next = "waiting" => call.len <= Before(j + 1)
    BY <1>2, <1>20, <1>22
  <2>12. \A i \in 1 .. j : Before(i) < call.len
    <3>1. \A i \in 1 .. j - 1 : Before(i) < call.len
      BY <1>4, <1>9 DEF MessagesIInv, Progress
    <3>2. Before(j) < call.len
      BY <1>16
    <3>3. QED
      BY <3>1, <3>2
  <2>13. /\ phase' = "pushing" => offset' = Before(Pushed + 1)' /\ offset' < call'.len
         /\ \A i \in 1 .. Pushed' : Before(i)' < call'.len
         /\ phase' = "waiting" => call'.len <= Before(Pushed + 1)'
         /\ phase' # "returned"
    <3>1. Before(Pushed + 1)' = Before(j + 1)
      BY <1>5, <2>8, SameCall
    <3>2. phase' = next
      BY <1>24
    <3>3. \A i \in 1 .. Pushed' : Before(i)' < call'.len
      BY <1>5, <2>8, <2>12, SameCall
    <3>4. QED
      BY <1>5, <2>9, <2>10, <2>11, <3>1, <3>2, <3>3
  <2>14. Progress'
    BY <2>13 DEF Progress
  <2>15. QED
    BY <1>4, <1>5, <1>19, <1>24, <2>4, <2>5, <2>6, <2>9, <2>14, AcceptedStep
<1>25. "mm_reset" \notin desc
  BY <1>3
<1>26. limits \in DmaLimits /\ next # "returned"
  BY <1>2, <1>6
<1>27. \/ /\ limits.message < cmd.bytes
          /\ phase' = "returned" /\ result' = Returned("io") /\ queue' = queue
       \/ /\ queue' = Append(queue, [bytes |-> cmd, desc |-> desc])
          /\ phase' = next
          /\ next # "returned" => result' = result
  BY <1>4, <1>15, <1>25, <1>26, PushIs
<1>28. QED
  BY <1>23, <1>24, <1>26, <1>27

LEMMA FirmwareStep == MessagesIInv /\ FirmwareTakes => MessagesIInv'
<1> SUFFICES ASSUME MessagesIInv, FirmwareTakes PROVE MessagesIInv'
  OBVIOUS
<1>1. PICK u : u = Understood(Head(queue))
  OBVIOUS
<1>2. /\ queue # <<>>
      /\ phase = "returned" => result.outcome = "ok"
  BY DEF FirmwareTakes
<1>3. /\ queue' = Tail(queue) /\ received' = Append(received, u)
      /\ UNCHANGED <<limits, call, phase, offset, last, result>>
  BY <1>1 DEF FirmwareTakes
<1>4. IsSeq(queue) /\ IsSeq(received)
  BY DEF MessagesIInv, Conveyed
<1>5. Len(queue) \in Nat /\ Len(received) \in Nat /\ Len(queue) >= 1 /\ Head(queue) = queue[1]
  BY <1>2, <1>4, SeqIs, TailIs
<1>6. /\ IsSeq(queue') /\ Len(queue') = Len(queue) - 1
      /\ \A i \in 1 .. Len(queue) - 1 : queue'[i] = queue[i + 1]
  BY <1>2, <1>3, <1>4, TailIs
<1>7. /\ IsSeq(received') /\ Len(received') = Len(received) + 1
      /\ \A i \in 1 .. Len(received) : received'[i] = received[i]
      /\ received'[Len(received) + 1] = u
  BY <1>3, <1>4, AppendIs
<1>8. Pushed' = Pushed
  BY <1>5, <1>6, <1>7 DEF Pushed
<1>9. \A i \in 1 .. Len(queue) : /\ Encodable(queue[i].bytes)
                                 /\ Understood(queue[i]) = Expected(Len(received) + i)
  BY DEF MessagesIInv, Conveyed
<1>10. u = Expected(Len(received) + 1)
  BY <1>1, <1>5, <1>9
<1>11. ASSUME NEW i \in 1 .. Len(received') PROVE received'[i] = Expected(i)'
  <2>1. CASE i \in 1 .. Len(received)
    BY <1>3, <1>7, <2>1, SameCall DEF MessagesIInv, Conveyed
  <2>2. CASE i = Len(received) + 1
    BY <1>3, <1>7, <1>10, <2>2, SameCall
  <2>3. QED
    BY <1>5, <1>7, <2>1, <2>2
<1>12. ASSUME NEW i \in 1 .. Len(queue')
       PROVE  /\ Encodable(queue'[i].bytes)
              /\ Understood(queue'[i]) = Expected(Len(received) + i)'
  <2>1. i + 1 \in 1 .. Len(queue) /\ i \in 1 .. Len(queue) - 1
    BY <1>5, <1>6
  <2>2. Encodable(queue[i + 1].bytes)
        /\ Understood(queue[i + 1]) = Expected(Len(received) + (i + 1))
    BY <1>9, <2>1
  <2>3. Len(received) + (i + 1) = Len(received') + i
    BY <1>5, <1>7
  <2>4. queue'[i] = queue[i + 1]
    BY <1>6, <2>1
  <2>5. QED
    <3>1. Expected(Len(received) + i)' = Expected(Len(received') + i)
      BY <1>3, SameCall
    <3>2. QED
      BY <2>2, <2>3, <2>4, <3>1
<1>13. Conveyed'
  BY <1>6, <1>7, <1>11, <1>12 DEF Conveyed, Encodable
<1>14. MessagesFrame'
  BY <1>3 DEF MessagesIInv, MessagesFrame
<1>15. Progress'
  BY <1>3, <1>8, SameCall DEF MessagesIInv, Progress
<1>16. Answer(last)'
  BY <1>3, SameCall DEF MessagesIInv
<1>17. Answer(response)'
  <2>1. CASE UNCHANGED response
    BY <1>3, <2>1, SameCall DEF MessagesIInv
  <2>2. CASE ~(UNCHANGED response)
    <3>1. call.kind # "etsoc_reset"
      BY <2>2 DEF FirmwareTakes
    <3>2. PICK code \in Statuses, detail \in BOOLEAN, cut \in Cuts :
            /\ detail => call.kind = "launch" /\ code # 0
            /\ response' = <<[status |-> code, detail |-> detail, cut |-> cut]>>
      BY <2>2 DEF FirmwareTakes
    <3>3. PICK rsp : rsp = [status |-> code, detail |-> detail, cut |-> cut]
      OBVIOUS
    <3>4. rsp.status \in Nat /\ rsp.cut \in Nat
      BY <3>3, MessagesAssumption
    <3>5. rsp.detail \in BOOLEAN /\ (rsp.detail => call.kind = "launch")
      BY <3>2, <3>3
    <3>6. IsResponse(rsp)
      BY <3>4, <3>5 DEF IsResponse
    <3>7. response' = <<rsp>> /\ response'[1] = rsp
      BY <3>2, <3>3
    <3>8. QED
      BY <1>3, <3>1, <3>6, <3>7, SameCall DEF Answer
  <2>3. QED
    BY <2>1, <2>2
<1>18. phase' = "returned" => FromReset'
  <2> SUFFICES ASSUME phase = "returned" PROVE FromReset'
    BY <1>3
  <2>1. FromSubmission \/ FromReset \/ FromResponse
    BY DEF MessagesIInv
  <2>2. result.outcome = "ok"
    BY <1>2
  <2>3. ~FromSubmission /\ ~FromResponse
    BY <1>2, <2>2 DEF FromSubmission, FromResponse
  <2>4. QED
    BY <1>3, <2>1, <2>3 DEF FromReset
<1>19. QED
  BY <1>13, <1>14, <1>15, <1>16, <1>17, <1>18 DEF MessagesIInv

LEMMA CollectStep == MessagesIInv /\ CollectResponse => MessagesIInv'
<1> SUFFICES ASSUME MessagesIInv, CollectResponse PROVE MessagesIInv'
  OBVIOUS
<1>1. /\ phase = "waiting" /\ response # <<>> /\ last' = response /\ response' = <<>>
      /\ UNCHANGED <<limits, call, offset, queue, received>>
  BY DEF CollectResponse
<1>2. call.kind # "etsoc_reset" /\ IsResponse(response[1])
  BY <1>1 DEF MessagesIInv, Answer
<1>3. PICK res : res = Parsed(response[1])
  OBVIOUS
<1>4. res.outcome \in {"ok", "protocol", "device", "kernel"}
  BY <1>2, <1>3, ParsedIs
<1>5. Conveyed'
  BY <1>1, SameCall DEF MessagesIInv, Conveyed, Encodable
<1>6. Answer(last)' /\ Answer(response)'
  BY <1>1, SameCall DEF MessagesIInv, Answer
<1>7. Pushed' = Pushed
  BY <1>1 DEF Pushed
<1>8. CASE res.outcome = "ok" /\ queue # <<>>
  <2>1. UNCHANGED <<phase, result>>
    BY <1>3, <1>8 DEF CollectResponse
  <2>2. MessagesFrame'
    BY <1>1, <2>1 DEF MessagesIInv, MessagesFrame
  <2>3. Progress'
    BY <1>1, <1>7, <2>1, SameCall DEF MessagesIInv, Progress
  <2>4. phase' # "returned"
    BY <1>1, <2>1
  <2>5. QED
    BY <1>5, <1>6, <2>2, <2>3, <2>4 DEF MessagesIInv
<1>9. CASE ~(res.outcome = "ok" /\ queue # <<>>)
  <2>1. phase' = "returned" /\ result' = res
    BY <1>3, <1>9 DEF CollectResponse
  <2>2. result'.outcome \in Outcomes /\ result'.outcome # "nothing yet"
    BY <1>4, <2>1 DEF Outcomes
  <2>3. MessagesFrame'
    BY <1>1, <2>1, <2>2 DEF MessagesIInv, MessagesFrame
  <2>4. Progress'
    BY <1>1, <1>7, <2>1, SameCall DEF MessagesIInv, Progress
  <2>5. result' = Parsed(last[1])'
    BY <1>1, <1>3, <2>1, SameCall
  <2>6. result'.outcome = "ok" => queue' = <<>>
    BY <1>1, <1>9, <2>1
  <2>7. FromResponse'
    BY <1>1, <1>2, <2>5, <2>6 DEF FromResponse
  <2>8. QED
    BY <1>5, <1>6, <2>3, <2>4, <2>7 DEF MessagesIInv
<1>10. QED
  BY <1>8, <1>9

LEMMA MessagesStay == MessagesIInv /\ UNCHANGED messageVars => MessagesIInv'
<1> SUFFICES ASSUME MessagesIInv, UNCHANGED messageVars PROVE MessagesIInv'
  OBVIOUS
<1>1. UNCHANGED <<limits, call, phase, offset, queue, received, response, last, result>>
  BY DEF messageVars
<1>2. MessagesFrame'
  BY <1>1 DEF MessagesIInv, MessagesFrame
<1>3. Conveyed'
  BY <1>1, SameCall DEF MessagesIInv, Conveyed, Encodable
<1>4. Progress'
  BY <1>1, SameCall DEF MessagesIInv, Progress, Pushed
<1>5. Answer(response)' /\ Answer(last)'
  BY <1>1, SameCall DEF MessagesIInv
<1>6. phase' = "returned" => FromSubmission' \/ FromReset' \/ FromResponse'
  BY <1>1, SameCall DEF MessagesIInv, FromSubmission, FromReset, FromResponse
<1>7. QED
  BY <1>2, <1>3, <1>4, <1>5, <1>6 DEF MessagesIInv

THEOREM MessagesInductive == MessagesSpec => []MessagesIInv
<1>1. MessagesInit => MessagesIInv
  BY MessagesStart
<1>2. MessagesIInv /\ [MessagesNext]_messageVars => MessagesIInv'
  BY LaunchStep, PushDmaStep, ResetShiresStep, ResetDeviceStep, FirmwareStep, CollectStep,
     MessagesStay
     DEF MessagesNext
<1>3. QED
  BY <1>1, <1>2, PTL DEF MessagesSpec

(***************************************************************************)
(* Launches.                                                               *)
(***************************************************************************)
LEMMA MultipleIs ==
  ASSUME NEW q \in Int, NEW e \in Nat \ {0}
  PROVE  (q * e) % e = 0
<1>1. PICK x \in Int : x = q * e
  OBVIOUS
<1>2. PICK p \in Int : p = x \div e
  BY DivisionIs
<1>3. PICK r \in 0 .. e - 1 : r = x % e
  BY DivisionIs
<1>4. x = e * p + r
  BY <1>1, <1>2, <1>3, DivisionIs
<1>5. PICK d \in Int : d = q - p
  OBVIOUS
<1>6. r = d * e
  BY <1>1, <1>4, <1>5
<1>7. d <= 0
  <2> SUFFICES ASSUME 1 <= d PROVE FALSE
    OBVIOUS
  <2>1. 1 * e <= d * e
    BY Monotone
  <2>2. QED
    BY <1>6, <2>1
<1>8. d >= 0
  <2> SUFFICES ASSUME d <= -1 PROVE FALSE
    OBVIOUS
  <2>1. d * e <= (-1) * e
    BY Monotone
  <2>2. QED
    BY <1>6, <2>1
<1>9. d = 0
  BY <1>7, <1>8
<1>10. r = 0
  BY <1>6, <1>9
<1>11. QED
  BY <1>1, <1>3, <1>10

\* The region of a trace, or as many of its lines as 32 bits can count.
LEMMA TracesFull ==
  ASSUME NEW region \in Nat
  PROVE  Traces(Full(region), region)
<1>1. PICK e \in Nat \ {0}, u \in Nat : e = CacheLine /\ u = U32Max
  BY MessagesAssumption
<1>2. PICK q \in Int : q = u \div e
  BY DivisionIs
<1>3. PICK r \in 0 .. e - 1 : r = u % e
  BY DivisionIs
<1>4. u = e * q + r
  BY <1>2, <1>3, DivisionIs
<1>5. PICK m \in Int : m = q * e
  OBVIOUS
<1>6. m <= u /\ m + e > u
  BY <1>4, <1>5
<1>7. PICK f : f = Full(region)
  OBVIOUS
<1>8. f.size = IF region <= m THEN region ELSE m
  BY <1>1, <1>2, <1>5, <1>7, PairMin DEF Full, FullSize
<1>9. f = [Full(0) EXCEPT !.size = f.size]
  BY <1>7 DEF Full
<1>10. m % e = 0
  BY <1>5, MultipleIs
<1>11. f.size \in Int /\ f.size <= region /\ f.size <= u /\ (f.size = region \/ f.size + e > u)
  BY <1>6, <1>8
<1>12. region % e = 0 => f.size % e = 0
  BY <1>8, <1>10
<1>13. region # Absent
  BY AbsentAssumption
<1>14. Traces(f, region)
  BY <1>1, <1>9, <1>11, <1>12, <1>13 DEF Traces
<1>15. QED
  BY <1>7, <1>14

LEMMA LaunchSeen ==
  ASSUME MessagesIInv, call.kind = "launch", received # <<>>
  PROVE  received[1] = <<Launched(Options(call))>>
<1>1. IsSeq(received)
  BY DEF MessagesIInv, Conveyed
<1>2. Len(received) \in Nat /\ Len(received) # 0
  BY <1>1, SeqIs
<1>3. 1 \in 1 .. Len(received)
  BY <1>2
<1>4. received[1] = Expected(1)
  BY <1>3 DEF MessagesIInv, Conveyed
<1>5. QED
  BY <1>4 DEF Expected

\* The flags say what the options do.
LEMMA FlagsIs ==
  ASSUME NEW opts
  PROVE  /\ "barrier" \in LaunchFlags(opts) <=> opts.barrier
         /\ "flush_l3" \in LaunchFlags(opts) <=> opts.flush
BY DEF LaunchFlags

\* The options that each entry point launches with.
LEMMA OptionsIs ==
  ASSUME call \in LaunchCalls
  PROVE  LET o == Options(call)
             byOpts == call.entry \notin {"launch_spmd", "launch_spmd_traced"}
             traced == call.entry \in {"launch_spmd_traced", "launch_spmd_traced_opts"}
         IN /\ o.mask = IF byOpts THEN call.opts.mask ELSE "given"
            /\ o.args = IF call.entry # "launch" THEN "args" ELSE call.opts.args
            /\ o.trace = IF traced THEN call.trace ELSE IF byOpts THEN call.opts.trace ELSE Absent
            /\ o.barrier \in BOOLEAN /\ o.flush \in BOOLEAN
            /\ o.trace \in Nat \cup {Absent}
            /\ IF byOpts
               THEN /\ o.barrier = call.opts.barrier /\ o.flush = call.opts.flush
                    /\ o.exception = call.opts.exception /\ o.stack = call.opts.stack
               ELSE o.barrier /\ ~o.flush /\ o.exception = "null" /\ o.stack = Absent
            /\ o.stack \in {Absent, "stack"}
            /\ call.opts.args = "none" \/ call.opts.args = "blob" \/ call.entry # "launch"
<1>1. TraceRegions \subseteq Nat
  BY MessagesAssumption
<1>2. CASE /\ call.entry \in {"launch", "launch_spmd_opts"}
           /\ call.opts \in AnyOptions
  <2>1. /\ call.opts.barrier \in BOOLEAN /\ call.opts.flush \in BOOLEAN
        /\ call.opts.trace \in Nat \cup {Absent} /\ call.opts.stack \in {Absent, "stack"}
        /\ call.opts.args \in {"none", "blob"}
    BY <1>1, <1>2 DEF AnyOptions
  <2>2. CASE call.entry = "launch"
    <3>1. Options(call) = call.opts
      BY <2>2 DEF Options
    <3>2. QED
      BY <2>1, <2>2, <3>1
  <2>3. CASE call.entry = "launch_spmd_opts"
    <3>1. Options(call) = [call.opts EXCEPT !.args = "args"]
      BY <2>3 DEF Options, WithArgs
    <3>2. QED
      BY <1>2, <2>1, <2>3, <3>1 DEF AnyOptions
  <2>4. QED
    BY <1>2, <2>2, <2>3
<1>3. CASE /\ call.entry = "launch_spmd_traced_opts"
           /\ call.opts \in AnyOptions /\ call.trace \in TraceRegions
  <2>1. /\ call.opts.barrier \in BOOLEAN /\ call.opts.flush \in BOOLEAN
        /\ call.opts.stack \in {Absent, "stack"}
    BY <1>3 DEF AnyOptions
  <2>2. Options(call) = [[call.opts EXCEPT !.args = "args"] EXCEPT !.trace = call.trace]
    BY <1>3 DEF Options, WithArgs, WithTrace
  <2>3. QED
    BY <1>1, <1>3, <2>1, <2>2 DEF AnyOptions
<1>4. CASE call.entry = "launch_spmd"
  <2>1. Options(call) = [NewOptions("given") EXCEPT !.args = "args"]
    BY <1>4 DEF Options, WithArgs
  <2>2. QED
    BY <1>4, <2>1 DEF NewOptions
<1>5. CASE call.entry = "launch_spmd_traced" /\ call.trace \in TraceRegions
  <2>1. Options(call) = [[NewOptions("given") EXCEPT !.args = "args"] EXCEPT !.trace = call.trace]
    BY <1>5 DEF Options, WithArgs, WithTrace
  <2>2. QED
    BY <1>1, <1>5, <2>1 DEF NewOptions
<1>6. \/ call \in [kind : {"launch"}, entry : Untraced, opts : AnyOptions, trace : {Absent}]
      \/ call \in [kind : {"launch"}, entry : {"launch_spmd_traced_opts"}, opts : AnyOptions,
                   trace : TraceRegions]
      \/ call \in [kind : {"launch"}, entry : {"launch_spmd"}, opts : {Absent}, trace : {Absent}]
      \/ call \in [kind : {"launch"}, entry : {"launch_spmd_traced"}, opts : {Absent},
                   trace : TraceRegions]
  BY DEF LaunchCalls
<1>7. \/ call.entry \in {"launch", "launch_spmd_opts"} /\ call.opts \in AnyOptions
      \/ /\ call.entry = "launch_spmd_traced_opts" /\ call.opts \in AnyOptions
         /\ call.trace \in TraceRegions
      \/ call.entry = "launch_spmd"
      \/ call.entry = "launch_spmd_traced" /\ call.trace \in TraceRegions
  BY <1>6 DEF Untraced
<1>8. QED
  BY <1>2, <1>3, <1>4, <1>5, <1>7

\* The firmware launches what the caller has asked for, whatever the options and
\* the entry point (`launch_async`, `build_kernel_launch`).
THEOREM LaunchesUnderstood == MessagesSpec => []LaunchUnderstood
<1>1. MessagesIInv => LaunchUnderstood
  <2> SUFFICES ASSUME MessagesIInv, call.kind = "launch", received # <<>>
               PROVE  LaunchUnderstood
    BY DEF LaunchUnderstood
  <2>1. call \in LaunchCalls
    BY CallIs DEF MessagesIInv, MessagesFrame
  <2>2. PICK o : o = Options(call)
    OBVIOUS
  <2>3. PICK seen : seen = Launched(o)
    OBVIOUS
  <2>4. received[1] = <<seen>> /\ received[1][1] = seen
    BY <2>2, <2>3, LaunchSeen
  <2>5. received[1] # <<>>
    BY <2>4
  <2>6. /\ seen.entry = "entry" /\ seen.mask = o.mask
        /\ seen.args = IF o.args = "none" THEN "null" ELSE o.args
        /\ seen.exception = o.exception
        /\ seen.trace = IF o.trace = Absent THEN Absent ELSE Full(o.trace)
        /\ seen.stack = IF o.stack = Absent THEN Absent
                        ELSE <<<<o.stack, "base">>, <<o.stack, "size">>>>
    BY <2>3 DEF Launched
  <2>7. /\ seen.barrier = ("barrier" \in LaunchFlags(o))
        /\ seen.flush = ("flush_l3" \in LaunchFlags(o))
    BY <2>3 DEF Launched
  <2>8. seen.barrier = o.barrier /\ seen.flush = o.flush
    BY <2>1, <2>2, <2>7, FlagsIs, OptionsIs
  <2>9. Traces(seen.trace, o.trace)
    <3>1. o.trace \in Nat \cup {Absent}
      BY <2>1, <2>2, OptionsIs
    <3>2. CASE o.trace = Absent
      BY <2>6, <3>2 DEF Traces
    <3>3. CASE o.trace # Absent
      BY <2>6, <3>1, <3>3, TracesFull
    <3>4. QED
      BY <3>2, <3>3
  <2>10. QED
    BY <2>1, <2>2, <2>4, <2>5, <2>6, <2>8, <2>9, OptionsIs DEF LaunchUnderstood
<1>2. QED
  BY <1>1, MessagesInductive, PTL

(***************************************************************************)
(* Results.                                                                *)
(***************************************************************************)

\* A call returns what the firmware has said, and no field that was cut off
\* (`wait_launch`, `await_dma`, `reset_shires`).
THEOREM ResultsAsAnswered == MessagesSpec => []ResultAsAnswered
<1>1. MessagesIInv => ResultAsAnswered
  <2> SUFFICES ASSUME MessagesIInv, phase = "returned", result.outcome \notin {"io", "panic"}
               PROVE  ResultAsAnswered
    BY DEF ResultAsAnswered
  <2>1. FromReset \/ FromResponse
    BY DEF MessagesIInv, FromSubmission
  <2>2. CASE call.kind = "etsoc_reset"
    <3>1. \A i \in 1 .. Len(received) : received[i] = <<"reset">>
      BY <2>2 DEF MessagesIInv, Conveyed, Expected
    <3>2. DOMAIN received = 1 .. Len(received)
      BY SeqIs DEF MessagesIInv, Conveyed
    <3>3. QED
      BY <2>2, <3>1, <3>2 DEF ResultAsAnswered
  <2>3. CASE call.kind # "etsoc_reset"
    <3>1. last # <<>> /\ result = Parsed(last[1]) /\ IsResponse(last[1])
      BY <2>1, <2>3 DEF MessagesIInv, FromReset, FromResponse, Answer
    <3>2. PICK rsp : rsp = last[1]
      OBVIOUS
    <3>3. rsp.cut \in Nat /\ rsp.status \in Nat
      BY <3>1, <3>2 DEF IsResponse
    <3>4. PICK full \in Nat : full = IF call.kind = "cm_reset" THEN 12 ELSE 36
      OBVIOUS
    <3>5. /\ result.outcome = IF rsp.cut < full THEN "protocol"
                              ELSE IF rsp.status = 0 THEN "ok"
                              ELSE IF call.kind = "launch" THEN "kernel" ELSE "device"
          /\ result.outcome \in {"kernel", "device"} => result.status = rsp.status
          /\ result.outcome = "ok" /\ call.kind = "launch" =>
               result.timing = <<"start", "execute", "wait">>
          /\ result.outcome = "kernel" =>
               result.detail = IF rsp.detail /\ rsp.cut >= 64
                               THEN [exception |-> "exception", trace |-> "trace",
                                     shires |-> "shires"] ELSE Absent
      BY <3>1, <3>2, <3>4, ParsedIs
    <3>6. /\ result.outcome = "ok" => rsp.status = 0
          /\ result.outcome \in {"kernel", "device"} => rsp.status # 0
          /\ result.outcome = "protocol" <=> rsp.cut < full
      BY <3>5
    <3>7. QED
      BY <2>3, <3>1, <3>2, <3>4, <3>5, <3>6 DEF ResultAsAnswered
  <2>4. QED
    BY <2>2, <2>3
<1>2. QED
  BY <1>1, MessagesInductive, PTL

(***************************************************************************)
(* Transfers.                                                              *)
(***************************************************************************)

\* The node that the firmware has read in a place of a command.
LEMMA NodeIs ==
  ASSUME limits \in DmaLimits, call \in TransferCalls, NEW j \in Nat \ {0},
         Before(j) < call.len, NEW k \in 1 .. Count(j)
  PROVE  LET node == Given(j)[k] IN
         /\ k \in 1 .. MaxListNodes /\ Place(j, k) \in Nat
         /\ node.device - DeviceBase = Place(j, k) /\ node.virt - HostBase = Place(j, k)
         /\ node.phys = IF call.phys THEN Place(j, k) + PhysBase(call) ELSE 0
         /\ node.size \in 1 .. MaxElem /\ Place(j, k) + node.size <= call.len
         /\ node.size = MaxElem \/ Place(j, k) + node.size = call.len
<1>1. PICK n \in Nat \ {0}, e \in Nat \ {0} : n = MaxListNodes /\ e = MaxElem
  BY MaxListNodesIs
<1>2. call.len \in Nat
  BY MessagesAssumption DEF TransferCalls
<1>3. Before(j) \in Nat /\ Count(j) \in 1 .. n
  BY <1>1, GivenIs
<1>4. k \in 1 .. n /\ k <= Count(j)
  BY <1>3
<1>5. Place(j, k) < call.len
  BY <1>1, <1>4, GivenIs
<1>6. Place(j, k) \in Nat
  <2>1. PICK b \in Nat : b = Before(j)
    BY <1>3
  <2>2. (k - 1) * e \in Nat
    BY <1>4
  <2>3. Place(j, k) = b + (k - 1) * e
    BY <1>1, <2>1 DEF Place
  <2>4. QED
    BY <2>2, <2>3
<1>7. PICK p \in Nat : p = Place(j, k)
  BY <1>6
<1>8. PICK node : node = Given(j)[k]
  OBVIOUS
<1>9. /\ node.virt = 1000 + p /\ node.device = 3000 + p
      /\ node.phys = NodePhys(PhysBase(call), p) /\ node.size = Min({e, call.len - p})
  BY <1>1, <1>7, <1>8 DEF Given, HostBase, DeviceBase
<1>10. PICK a \in Int : a = call.len - p /\ a >= 1
  BY <1>2, <1>5, <1>7
<1>11. node.size = IF e <= a THEN e ELSE a
  BY <1>9, <1>10, PairMin
<1>12. /\ node.size \in 1 .. e /\ p + node.size <= call.len
       /\ node.size = e \/ p + node.size = call.len
  BY <1>2, <1>10, <1>11
<1>13. node.phys = IF call.phys THEN p + PhysBase(call) ELSE 0
  BY <1>9 DEF NodePhys, PhysBase
<1>14. node.device - DeviceBase = p /\ node.virt - HostBase = p
  <2>1. node.virt = 1000 + p
    BY <1>9
  <2>2. node.device = 3000 + p
    BY <1>9
  <2>3. node.virt - 1000 = p
    BY <2>1
  <2>4. node.device - 3000 = p
    BY <2>2
  <2>5. QED
    BY <2>3, <2>4 DEF HostBase, DeviceBase
<1>15. QED
  BY <1>1, <1>4, <1>7, <1>8, <1>12, <1>13, <1>14

LEMMA NotPanicked ==
  ASSUME MessagesIInv
  PROVE  /\ result.outcome # "panic"
         /\ result.outcome = "io" => /\ limits.message < 88
                                     /\ call.kind = "dma" => limits.message < 40
<1>1. phase # "returned" => result.outcome = "nothing yet"
  BY DEF MessagesIInv, MessagesFrame
<1>2. FromResponse => result.outcome \in {"protocol", "ok", "kernel", "device"}
  <2> SUFFICES ASSUME FromResponse PROVE result.outcome \in {"protocol", "ok", "kernel", "device"}
    OBVIOUS
  <2>1. result = Parsed(last[1]) /\ IsResponse(last[1])
    BY DEF MessagesIInv, FromResponse, Answer
  <2>2. QED
    BY <2>1, ParsedIs
<1>3. CASE phase # "returned"
  BY <1>1, <1>3
<1>4. CASE phase = "returned" /\ FromSubmission
  BY <1>4 DEF FromSubmission
<1>5. CASE phase = "returned" /\ FromReset
  BY <1>5 DEF FromReset
<1>6. CASE phase = "returned" /\ FromResponse
  BY <1>2, <1>6
<1>7. QED
  BY <1>3, <1>4, <1>5, <1>6 DEF MessagesIInv

\* What the firmware has been given, by the slots of the transfer.
LEMMA ReceivedIs ==
  ASSUME MessagesIInv, call.kind = "dma"
  PROVE  /\ limits \in DmaLimits /\ call \in TransferCalls /\ call.len \in Nat
         /\ Len(received) \in Nat /\ DOMAIN received = 1 .. Len(received)
         /\ \A i \in DOMAIN received :
              /\ i \in Nat \ {0} /\ Before(i) < call.len
              /\ received[i] # <<>> /\ received[i][1] = Given(i)
              /\ Len(received[i][1]) = Count(i) /\ DOMAIN received[i][1] = 1 .. Count(i)
<1>1. limits \in DmaLimits /\ call \in TransferCalls /\ call.len \in Nat
  BY CallIs DEF MessagesIInv, MessagesFrame
<1>2. IsSeq(queue) /\ IsSeq(received)
  BY DEF MessagesIInv, Conveyed
<1>3. /\ Len(received) \in Nat /\ DOMAIN received = 1 .. Len(received) /\ Len(queue) \in Nat
  BY <1>2, SeqIs
<1>4. ASSUME NEW i \in 1 .. Len(received)
      PROVE  /\ i \in Nat \ {0} /\ Before(i) < call.len
             /\ received[i] # <<>> /\ received[i][1] = Given(i)
             /\ Len(received[i][1]) = Count(i) /\ DOMAIN received[i][1] = 1 .. Count(i)
  <2>1. i \in 1 .. Pushed
    BY <1>3 DEF Pushed
  <2>2. Before(i) < call.len
    BY <2>1 DEF MessagesIInv, Progress
  <2>3. received[i] = <<Given(i)>>
    BY DEF MessagesIInv, Conveyed, Expected
  <2>4. PICK g : g = Given(i)
    OBVIOUS
  <2>5. received[i] # <<>> /\ received[i][1] = g
    BY <2>3, <2>4
  <2>6. i \in Nat \ {0}
    BY <1>3
  <2>7. PICK n \in Nat : n = Count(i)
    BY <1>1, <2>2, <2>6, GivenIs, MaxListNodesIs
  <2>8. Len(g) = n /\ DOMAIN g = 1 .. n
    BY <2>4, <2>7 DEF Given
  <2>9. QED
    BY <2>2, <2>4, <2>5, <2>6, <2>7, <2>8
<1>5. QED
  BY <1>1, <1>3, <1>4

\* A transfer moves each byte to its own place, none twice and, when it succeeds,
\* all of them, in commands that the device takes (`push_dma_read_staged`,
\* `push_dma_write_staged`, `max_list_nodes`, `command_size`).
THEOREM TransfersComplete == MessagesSpec => []TransferComplete
<1> DEFINE nodes == UNION {{<<i, k>> : k \in DOMAIN received[i][1]} : i \in DOMAIN received}
           Node(n) == received[n[1]][1][n[2]]
           movers(b) == {n \in nodes : /\ Node(n).device - DeviceBase <= b
                                       /\ b < Node(n).device - DeviceBase + Node(n).size}
<1>1. ASSUME MessagesIInv, call.kind = "dma"
      PROVE  /\ \A i \in DOMAIN received :
                  received[i] # <<>> /\ Len(received[i][1]) <= AtLeastOne(limits.count)
             /\ \A n \in nodes :
                  /\ Node(n).size \in 1 .. MaxElem
                  /\ Node(n).device - DeviceBase = Node(n).virt - HostBase
                  /\ Node(n).device - DeviceBase + Node(n).size <= call.len
                  /\ Node(n).phys =
                       IF call.phys THEN Node(n).virt - HostBase + PhysBase(call) ELSE 0
             /\ \A b \in 0 .. call.len - 1 :
                  /\ \A m, n \in movers(b) : m = n
                  /\ phase = "returned" /\ result.outcome = "ok" => movers(b) # {}
  <2>1. /\ limits \in DmaLimits /\ call \in TransferCalls /\ call.len \in Nat
        /\ Len(received) \in Nat /\ DOMAIN received = 1 .. Len(received)
    BY <1>1, ReceivedIs
  <2>2. \A i \in DOMAIN received :
          /\ i \in Nat \ {0} /\ Before(i) < call.len
          /\ received[i] # <<>> /\ received[i][1] = Given(i)
          /\ Len(received[i][1]) = Count(i) /\ DOMAIN received[i][1] = 1 .. Count(i)
    BY <1>1, ReceivedIs
  <2>3. \A i \in DOMAIN received :
          received[i] # <<>> /\ Len(received[i][1]) <= AtLeastOne(limits.count)
    <3> TAKE i \in DOMAIN received
    <3>1. Count(i) \in 1 .. MaxListNodes
      BY <2>1, <2>2, GivenIs
    <3>2. limits.count \in Nat
      BY <2>1, LimitsTyped
    <3>3. AtLeastOne(limits.count) \in Nat
      BY <3>2 DEF AtLeastOne
    <3>4. MaxListNodes \in Nat /\ MaxListNodes <= AtLeastOne(limits.count)
      BY <2>1, MaxListNodesIs
    <3>5. QED
      BY <2>2, <3>1, <3>3, <3>4
  <2>4. \A n \in nodes :
          \E i \in DOMAIN received : \E k \in 1 .. Count(i) :
            n = <<i, k>> /\ Node(n) = Given(i)[k]
    <3> TAKE n \in nodes
    <3>1. PICK i \in DOMAIN received : n \in {<<i, k>> : k \in DOMAIN received[i][1]}
      OBVIOUS
    <3>2. PICK k \in DOMAIN received[i][1] : n = <<i, k>>
      BY <3>1
    <3>3. n[1] = i /\ n[2] = k
      BY <3>2
    <3>4. QED
      BY <2>2, <3>2, <3>3
  <2>5. \A i \in DOMAIN received : \A k \in 1 .. Count(i) :
          <<i, k>> \in nodes /\ Node(<<i, k>>) = Given(i)[k]
    <3> TAKE i \in DOMAIN received
    <3> TAKE k \in 1 .. Count(i)
    <3>1. k \in DOMAIN received[i][1]
      BY <2>2
    <3>2. <<i, k>> \in {<<i, l>> : l \in DOMAIN received[i][1]}
      BY <3>1
    <3>3. QED
      BY <2>2, <3>2
  <2> HIDE DEF nodes, Node
  <2>6. ASSUME NEW n \in nodes
        PROVE  /\ Node(n).size \in 1 .. MaxElem
               /\ Node(n).device - DeviceBase = Node(n).virt - HostBase
               /\ Node(n).device - DeviceBase + Node(n).size <= call.len
               /\ Node(n).phys =
                    IF call.phys THEN Node(n).virt - HostBase + PhysBase(call) ELSE 0
    <3>1. PICK i \in DOMAIN received : \E k \in 1 .. Count(i) : n = <<i, k>> /\ Node(n) = Given(i)[k]
      BY <2>4
    <3>2. PICK k \in 1 .. Count(i) : Node(n) = Given(i)[k]
      BY <3>1
    <3>3. i \in Nat \ {0} /\ Before(i) < call.len
      BY <2>2
    <3>4. PICK node : node = Node(n)
      OBVIOUS
    <3>5. /\ node.device - DeviceBase = Place(i, k) /\ node.virt - HostBase = Place(i, k)
          /\ node.phys = IF call.phys THEN Place(i, k) + PhysBase(call) ELSE 0
          /\ node.size \in 1 .. MaxElem /\ Place(i, k) + node.size <= call.len
      BY <2>1, <3>2, <3>3, <3>4, NodeIs
    <3>6. QED
      BY <3>4, <3>5
  <2>7. ASSUME NEW b \in 0 .. call.len - 1, NEW n \in movers(b)
        PROVE  \E i \in DOMAIN received : \E k \in 1 .. MaxListNodes :
                 n = <<i, k>> /\ Place(i, k) <= b /\ b < Place(i, k) + MaxElem
    <3>1. n \in nodes
      OBVIOUS
    <3>2. PICK i \in DOMAIN received : \E k \in 1 .. Count(i) : n = <<i, k>> /\ Node(n) = Given(i)[k]
      BY <2>4, <3>1
    <3>3. PICK k \in 1 .. Count(i) : n = <<i, k>> /\ Node(n) = Given(i)[k]
      BY <3>2
    <3>4. i \in Nat \ {0} /\ Before(i) < call.len
      BY <2>2
    <3>5. PICK node : node = Node(n)
      OBVIOUS
    <3>6. /\ k \in 1 .. MaxListNodes /\ Place(i, k) \in Nat
          /\ node.device - DeviceBase = Place(i, k) /\ node.size \in 1 .. MaxElem
      BY <2>1, <3>3, <3>4, <3>5, NodeIs
    <3>7. node.device - DeviceBase <= b /\ b < node.device - DeviceBase + node.size
      BY <3>5
    <3>8. Place(i, k) <= b /\ b < Place(i, k) + node.size
      BY <3>6, <3>7
    <3>9. MaxElem \in Nat
      BY <2>1, MaxListNodesIs
    <3>10. Place(i, k) <= b /\ b < Place(i, k) + MaxElem
      BY <2>1, <3>6, <3>8, <3>9
    <3>11. QED
      BY <3>3, <3>6, <3>10
  <2>8. ASSUME NEW b \in 0 .. call.len - 1, NEW m \in movers(b), NEW n \in movers(b)
        PROVE  m = n
    <3>1. PICK i \in DOMAIN received, k \in 1 .. MaxListNodes :
            m = <<i, k>> /\ Place(i, k) <= b /\ b < Place(i, k) + MaxElem
      BY <2>7
    <3>2. PICK j \in DOMAIN received, l \in 1 .. MaxListNodes :
            n = <<j, l>> /\ Place(j, l) <= b /\ b < Place(j, l) + MaxElem
      BY <2>7
    <3>3. i \in Int /\ j \in Int /\ b \in Int
      BY <2>1
    <3>4. i = j /\ k = l
      BY <2>1, <3>1, <3>2, <3>3, SlotsDisjoint
    <3>5. QED
      BY <3>1, <3>2, <3>4
  <2>9. ASSUME phase = "returned", result.outcome = "ok", NEW b \in 0 .. call.len - 1
        PROVE  movers(b) # {}
    <3>1. queue = <<>>
      <4>1. ~FromSubmission /\ ~FromReset
        BY <1>1, <2>9 DEF FromSubmission, FromReset
      <4>2. QED
        BY <1>1, <2>9, <4>1 DEF MessagesIInv, FromResponse
    <3>2. Len(queue) = 0
      BY <3>1
    <3>3. Pushed = Len(received)
      BY <2>1, <3>2 DEF Pushed
    <3>4. call.len <= Before(Len(received) + 1)
      BY <1>1, <2>9, <3>3 DEF MessagesIInv, Progress
    <3>5. PICK i \in 1 .. Len(received) : \E k \in 1 .. MaxListNodes :
            Place(i, k) <= b /\ b < Place(i, k) + MaxElem /\ Before(i) < call.len
      BY <2>1, <3>4, SlotsCover
    <3>6. PICK k \in 1 .. MaxListNodes : Place(i, k) <= b /\ b < Place(i, k) + MaxElem
      BY <3>5
    <3>7. i \in DOMAIN received /\ i \in Nat \ {0} /\ Before(i) < call.len
      BY <2>1, <3>5
    <3>8. PICK p \in Int : p = Place(i, k)
      <4>1. PICK c \in Nat, d \in Nat : c = MaxListNodes /\ d = MaxElem
        BY <2>1, MaxListNodesIs
      <4>2. PICK h \in Int : h = Before(i)
        BY <2>1, <3>7, GivenIs
      <4>3. (k - 1) * d \in Int
        BY <4>1
      <4>4. Place(i, k) = h + (k - 1) * d
        BY <4>1, <4>2 DEF Place
      <4>5. QED
        BY <4>3, <4>4
    <3>9. k \in 1 .. Count(i)
      <4>1. Place(i, k) < call.len
        BY <2>1, <3>6, <3>8
      <4>2. k <= Count(i) /\ Count(i) \in Int
        BY <2>1, <3>7, <4>1, GivenIs
      <4>3. k \in Int /\ 1 <= k
        BY <2>1, MaxListNodesIs
      <4>4. QED
        BY <4>2, <4>3
    <3>10. PICK node : node = Given(i)[k]
      OBVIOUS
    <3>11. /\ node.device - DeviceBase = p /\ node.size \in 1 .. MaxElem
           /\ node.size = MaxElem \/ p + node.size = call.len
      BY <2>1, <3>7, <3>8, <3>9, <3>10, NodeIs
    <3>12. MaxElem \in Nat
      BY <2>1, MaxListNodesIs
    <3>13. p <= b /\ b < p + node.size
      BY <2>1, <3>6, <3>8, <3>11, <3>12
    <3>14. <<i, k>> \in nodes /\ Node(<<i, k>>) = node
      BY <2>5, <3>7, <3>9, <3>10
    <3>15. <<i, k>> \in movers(b)
      BY <3>11, <3>13, <3>14
    <3>16. QED
      BY <3>15
  <2>10. QED
    BY <2>3, <2>6, <2>8, <2>9
<1>2. ASSUME MessagesIInv PROVE MessagesTyped
  <2>1. DOMAIN queue = 1 .. Len(queue)
    BY <1>2, SeqIs DEF MessagesIInv, Conveyed
  <2>2. \A i \in DOMAIN queue : Encodable(queue[i].bytes)
    BY <1>2, <2>1 DEF MessagesIInv, Conveyed
  <2>3. QED
    BY <1>2, <2>2 DEF MessagesIInv, MessagesFrame, MessagesTyped
<1>3. MessagesIInv => TransferComplete
  <2> SUFFICES ASSUME MessagesIInv PROVE TransferComplete
    OBVIOUS
  <2>1. /\ MessagesTyped /\ result.outcome # "panic"
        /\ result.outcome = "io" => limits.message < 88
        /\ call.kind = "dma" /\ result.outcome = "io" => limits.message < 8 + 32
    BY <1>2, NotPanicked
  <2>2. QED
    BY <1>1, <2>1 DEF TransferComplete
<1>4. QED
  BY <1>3, MessagesInductive, PTL
=============================================================================
