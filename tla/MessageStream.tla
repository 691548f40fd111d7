---------------------------- MODULE MessageStream ----------------------------
(***************************************************************************)
(* What two peers promise each other once they are connected               *)
(* (src/include/BtPeer.h, "Message flow"): the messages one of them sends  *)
(* are read by the other one at a time, whole, in the order they were sent,*)
(* and none is left unread for ever.                                       *)
(***************************************************************************)
EXTENDS Sequences

CONSTANTS
  Messages,
  NoMessage      \* nothing was read yet

VARIABLES
  queue,         \* sent, not yet read
  delivered      \* the last message read

vars == <<queue, delivered>>

Init == queue = <<>> /\ delivered = NoMessage

Send == \E m \in Messages : queue' = Append(queue, m) /\ UNCHANGED delivered

Read ==
  /\ queue # <<>>
  /\ delivered' = Head(queue)
  /\ queue' = Tail(queue)

Next == Send \/ Read

Spec == Init /\ [][Next]_vars /\ WF_vars(Read)

=============================================================================
