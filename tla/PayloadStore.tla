----------------------------- MODULE PayloadStore ------------------------------
(***************************************************************************)
(* What the storage of a plan's payloads promises to whoever uses it: one  *)
(* payload per node, put and dropped by node, whatever is shared inside.   *)
(* Dropping the payload of a node that has none does nothing.  Closing     *)
(* the storage drops its payloads one after the other, and all of them.    *)
(***************************************************************************)
VARIABLES
  nodes,  \* the nodes payloads are kept for; never changes
  live,   \* the nodes that have a payload
  state   \* "open", "closing" or "closed"

vars == <<nodes, live, state>>

Init ==
  /\ live = {}
  /\ state = "open"

Put(i) ==
  /\ state = "open"
  /\ i \notin live
  /\ live' = live \cup {i}
  /\ UNCHANGED <<nodes, state>>

Drop(i) ==
  /\ state # "closed"
  /\ live' = live \ {i}
  /\ UNCHANGED <<nodes, state>>

(* The destructor starts, and ends with the last payload.                  *)
Close ==
  /\ state = "open"
  /\ state' = "closing"
  /\ UNCHANGED <<nodes, live>>

DropLast(i) ==
  /\ state = "closing"
  /\ live \subseteq {i}
  /\ live' = {}
  /\ state' = "closed"
  /\ UNCHANGED nodes

Next == Close \/ \E i \in nodes : Put(i) \/ Drop(i) \/ DropLast(i)

Spec == Init /\ [][Next]_vars

===============================================================================
