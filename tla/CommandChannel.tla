--------------------------- MODULE CommandChannel ---------------------------
(***************************************************************************)
(* What `Device` promises of a command channel, whatever tags, stashes and *)
(* queues it is built from: a command is submitted at most once, the       *)
(* device answers it at most once, and its waiter receives that answer, or *)
(* gives up and never receives anything.  DeviceCommands and DeviceReset   *)
(* implement it.                                                           *)
(***************************************************************************)
CONSTANTS
  Commands,  \* every command ever built
  None       \* no response

VARIABLES
  state,     \* state[c]: how far the host has taken command c
  answered,  \* the commands the device has answered
  delivered  \* delivered[c]: the command whose response the waiter of c got

vars == <<state, answered, delivered>>

States == {"unused", "submitted", "collected", "givenUp"}

Init ==
  /\ state = [c \in Commands |-> "unused"]
  /\ answered = {}
  /\ delivered = [c \in Commands |-> None]

Submit(c) ==
  /\ state[c] = "unused"
  /\ state' = [state EXCEPT ![c] = "submitted"]
  /\ UNCHANGED <<answered, delivered>>

\* The device answers also the commands whose waiter has given up.
Answer(c) ==
  /\ c \notin answered
  /\ state[c] \in {"submitted", "givenUp"}
  /\ answered' = answered \cup {c}
  /\ UNCHANGED <<state, delivered>>

Collect(c) ==
  /\ state[c] = "submitted"
  /\ c \in answered
  /\ state' = [state EXCEPT ![c] = "collected"]
  /\ delivered' = [delivered EXCEPT ![c] = c]
  /\ UNCHANGED answered

GiveUp(c) ==
  /\ state[c] = "submitted"
  /\ state' = [state EXCEPT ![c] = "givenUp"]
  /\ UNCHANGED <<answered, delivered>>

Next == \E c \in Commands : Submit(c) \/ Answer(c) \/ Collect(c) \/ GiveUp(c)

Spec == Init /\ [][Next]_vars
=============================================================================
