----------------------------- MODULE IngestPromise -----------------------------
(***************************************************************************)
(* What the gateway promises a provider about its webhook events: an event *)
(* it has answered 202 for is delivered, or it is still held by somebody   *)
(* who will deliver or store it. The promise has exceptions, the events of *)
(* Lossy: IngestPipeline says which events these are for a configuration.  *)
(***************************************************************************)
CONSTANTS Events,
          Lossy            \* the events that may be dropped before they are delivered

VARIABLES fate,            \* what has become of each event: unknown, held or delivered
          promised         \* the events that were answered 202

vars == <<fate, promised>>

Init == /\ fate = [ev \in Events |-> "unknown"]
        /\ promised = {}

Becomes(ev, new) == fate' = [fate EXCEPT ![ev] = new] /\ UNCHANGED promised

\* A request brings the event.
Take(ev) == fate[ev] = "unknown" /\ Becomes(ev, "held")

\* The event is answered 202, at once or as a duplicate.
Promise(ev) == /\ fate[ev] # "unknown" \/ ev \in Lossy
               /\ promised' = promised \cup {ev}
               /\ UNCHANGED fate

\* The backend receives the event.
Deliver(ev) == fate[ev] = "held" /\ Becomes(ev, "delivered")

\* Nobody has it any more.
Drop(ev) == ev \in Lossy /\ fate[ev] = "held" /\ Becomes(ev, "unknown")

Next == \E ev \in Events : Take(ev) \/ Promise(ev) \/ Deliver(ev) \/ Drop(ev)

Spec == Init /\ [][Next]_vars
===============================================================================
