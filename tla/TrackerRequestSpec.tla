------------------------- MODULE TrackerRequestSpec -------------------------
(***************************************************************************)
(* What the users of BtTrackerRequest rely on: whatever was set before,    *)
(* toRequestData answers with the query of the request as it is now.       *)
(* (src/include/BtTracker.h, the comment on requestData.)                  *)
(***************************************************************************)
CONSTANTS
  Requests,            \* the values a request can have
  Query(_)             \* the query string of a request

VARIABLES
  request,
  answer,              \* what toRequestData returned last
  turn                 \* flips with every call of toRequestData

vars == <<request, answer, turn>>

Init == request \in Requests /\ answer = <<>> /\ turn \in BOOLEAN

Set == request' \in Requests /\ UNCHANGED <<answer, turn>>

Ask == answer' = Query(request) /\ turn' = ~turn /\ UNCHANGED request

Next == Set \/ Ask

Spec == Init /\ [][Next]_vars

=============================================================================
