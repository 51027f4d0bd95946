----------------------------- MODULE EventSink -----------------------------
(***************************************************************************)
(* What the telemetry worker promises of each event it is handed: it is    *)
(* taken and then counted, once, or it is dropped, but only because others *)
(* are waiting, or it is refused, but only because the worker is closed.   *)
(* The worker ends with nothing that it took left uncounted.               *)
(***************************************************************************)
CONSTANT Event

VARIABLES
    fate,       \* what has become of each event
    sink        \* the worker: "open", "closed" or "done"

Queued == {e \in Event : fate[e] = "queued"}

Init == fate = [e \in Event |-> "none"] /\ sink = "open"

Settle(e, from, to) == fate[e] = from /\ fate' = [fate EXCEPT ![e] = to] /\ UNCHANGED sink

Accept(e) == sink = "open" /\ Settle(e, "none", "queued")

Drop(e) == sink = "open" /\ Queued # {} /\ Settle(e, "none", "dropped")

Refuse(e) == sink # "open" /\ Settle(e, "none", "refused")

Count(e) == Settle(e, "queued", "counted")

Close == sink = "open" /\ sink' = "closed" /\ UNCHANGED fate

Finish == sink = "closed" /\ Queued = {} /\ sink' = "done" /\ UNCHANGED fate

Next ==
    \/ \E e \in Event : Accept(e) \/ Drop(e) \/ Refuse(e) \/ Count(e)
    \/ Close
    \/ Finish

Spec == Init /\ [][Next]_<<fate, sink>>
=============================================================================
