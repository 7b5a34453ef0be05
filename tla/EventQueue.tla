------------------------------ MODULE EventQueue ------------------------------
(***************************************************************************)
(* What the gateway's queue promises to the code that publishes to it,     *)
(* whatever buffer, workers and locks it is built from:                    *)
(*   - an event is accepted only while the queue is open;                  *)
(*   - an accepted event is settled exactly once, by the backend or by the *)
(*     dead-letter hook, and a refused event is never processed;           *)
(*   - Close is over only when no accepted event is left unsettled.        *)
(* AsyncPublisher.tla implements it; AsyncPublisher_proofs.tla proves so.  *)
(***************************************************************************)
CONSTANT Events            \* the Publish calls, each with its event

VARIABLES phase,           \* "open", "closing" or "closed"
          status           \* what became of each event

qvars == <<phase, status>>

Phases   == {"open", "closing", "closed"}
Statuses == {"new", "refused", "pending", "settled"}

QInit == /\ phase = "open"
         /\ status = [e \in Events |-> "new"]

Accept(e) == /\ phase = "open"
             /\ status[e] = "new"
             /\ status' = [status EXCEPT ![e] = "pending"]
             /\ UNCHANGED phase

Refuse(e) == /\ status[e] = "new"
             /\ status' = [status EXCEPT ![e] = "refused"]
             /\ UNCHANGED phase

Settle(e) == /\ phase # "closed"
             /\ status[e] = "pending"
             /\ status' = [status EXCEPT ![e] = "settled"]
             /\ UNCHANGED phase

BeginClose == /\ phase = "open"
              /\ phase' = "closing"
              /\ UNCHANGED status

EndClose == /\ phase = "closing"
            /\ \A e \in Events : status[e] # "pending"
            /\ phase' = "closed"
            /\ UNCHANGED status

QNext == \/ \E e \in Events : Accept(e) \/ Refuse(e) \/ Settle(e)
         \/ BeginClose
         \/ EndClose

QSpec == QInit /\ [][QNext]_qvars
===============================================================================
