------------------------- MODULE DeliveryLifecycle -------------------------
(***************************************************************************)
(* What the ingest pipeline promises about one webhook delivery, without   *)
(* requests, rows, batches, writers or clocks.                             *)
(*                                                                         *)
(* A delivery is refused, or it waits in the queue.  A waiting delivery is *)
(* claimed at most once and then settled.  A later delivery of the same    *)
(* event may replace it at any point, and a waiting delivery may be        *)
(* skipped: marked done although no writer ever claimed it.                *)
(***************************************************************************)
CONSTANT Deliveries

VARIABLE stage

Stages == {"new", "refused", "waiting", "claimed", "settled", "skipped",
           "replaced"}

\* The stages of a delivery whose payload is in the table.
Stored == {"waiting", "claimed", "settled", "skipped"}

LifecycleTypeOK == stage \in [Deliveries -> Stages]

Init == stage = [d \in Deliveries |-> "new"]

Refuse(d) ==
  /\ stage[d] = "new"
  /\ stage' = [stage EXCEPT ![d] = "refused"]

\* The delivery enters the queue, in the place of at most one stored delivery.
Offer(d) ==
  /\ stage[d] = "new"
  /\ \E old \in Deliveries :
       /\ old # d => stage[old] \in Stored
       /\ stage' = [stage EXCEPT ![old] = "replaced", ![d] = "waiting"]

Move(d, from, to) ==
  /\ stage[d] = from
  /\ stage' = [stage EXCEPT ![d] = to]

Claim(d)  == Move(d, "waiting", "claimed")
Settle(d) == Move(d, "claimed", "settled")
Skip(d)   == Move(d, "waiting", "skipped")

Next == \E d \in Deliveries :
          Refuse(d) \/ Offer(d) \/ Claim(d) \/ Settle(d) \/ Skip(d)

Spec == Init /\ [][Next]_stage

\* What follows for a sender: a delivery only moves on.  What was claimed never
\* waits again, and what was settled or skipped can only be replaced.
Later(s) ==
  CASE s = "new"      -> {"new", "refused", "waiting"}
    [] s = "waiting"  -> Stored \cup {"replaced"}
    [] s = "claimed"  -> {"claimed", "settled", "replaced"}
    [] s = "settled"  -> {"settled", "replaced"}
    [] s = "skipped"  -> {"skipped", "replaced"}
    [] s = "refused"  -> {"refused"}
    [] s = "replaced" -> {"replaced"}

MovesOn == [][\A d \in Deliveries : stage'[d] \in Later(stage[d])]_stage
=============================================================================
