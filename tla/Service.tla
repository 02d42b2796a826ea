------------------------------ MODULE Service ------------------------------
(***************************************************************************)
(* What the server promises to its clients: who connects is answered, then *)
(* disconnected, in this order, and a stream enters the statistics once,   *)
(* and only when its client has been answered. When the process ends, all  *)
(* clients that are connected are lost.                                    *)
(***************************************************************************)
CONSTANT Conns          \* connections of clients

VARIABLES
    client,             \* how far each client has come
    booked              \* clients whose stream is in the statistics

vars == <<client, booked>>

Init ==
    /\ client = [c \in Conns |-> "new"]
    /\ booked = {}

Step(c, before, after) ==
    /\ client[c] = before
    /\ client' = [client EXCEPT ![c] = after]
    /\ UNCHANGED booked

Connect(c) == Step(c, "new", "connected")
Answer(c) == Step(c, "connected", "answered")
Close(c) == Step(c, "answered", "closed")

Book(c) ==
    /\ client[c] = "answered"
    /\ c \notin booked
    /\ booked' = booked \cup {c}
    /\ UNCHANGED client

End ==
    /\ client' = [c \in Conns |->
           IF client[c] \in {"connected", "answered"} THEN "lost" ELSE client[c]]
    /\ UNCHANGED booked

Next ==
    \/ \E c \in Conns : Connect(c) \/ Answer(c) \/ Book(c) \/ Close(c)
    \/ End

Spec == Init /\ [][Next]_vars
=============================================================================
