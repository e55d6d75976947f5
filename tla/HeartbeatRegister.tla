------------------------- MODULE HeartbeatRegister -------------------------
(***************************************************************************)
(* What the heartbeat path promises about the records of a CPE, without    *)
(* requests, replicas, statements, metrics or clocks.                      *)
(*                                                                         *)
(* The current status of a CPE is a register.  A heartbeat writes it once, *)
(* at one instant between its receipt and its answer, or not at all; then  *)
(* it is recorded once and for ever, or not at all.  An acknowledged       *)
(* heartbeat has done both.  One that failed has done none, the first, or  *)
(* both, and does nothing any more.                                        *)
(***************************************************************************)
CONSTANTS Beats, SNs, None

VARIABLES
  stage,     \* per beat
  cpe,       \* per beat: the CPE it is about, once it is received
  current,   \* per CPE: the beat that wrote its status last
  recorded   \* the beats on record

Stages == {"new", "open", "written", "acknowledged", "failed"}

\* The beats that still wait for their answers.
Pending == {b \in Beats : stage[b] \in {"open", "written"}}

RegisterTypeOK ==
  /\ stage \in [Beats -> Stages]
  /\ cpe \in [Beats -> SNs \cup {None}]
  /\ current \in [SNs -> Beats \cup {None}]
  /\ recorded \subseteq Beats

Init ==
  /\ stage = [b \in Beats |-> "new"]
  /\ cpe = [b \in Beats |-> None]
  /\ current = [s \in SNs |-> None]
  /\ recorded = {}

Move(b, from, to) ==
  /\ stage[b] = from
  /\ stage' = [stage EXCEPT ![b] = to]

Open(b, s) ==
  /\ Move(b, "new", "open")
  /\ cpe' = [cpe EXCEPT ![b] = s]
  /\ UNCHANGED <<current, recorded>>

Refuse(b) == Move(b, "new", "failed") /\ UNCHANGED <<cpe, current, recorded>>

\* The instant at which a beat takes effect; its sender may never learn of it.
Write(b) ==
  /\ Move(b, "open", "written") \/ Move(b, "open", "failed")
  /\ current' = [current EXCEPT ![cpe[b]] = b]
  /\ UNCHANGED <<cpe, recorded>>

Record(b) ==
  /\ Move(b, "written", "acknowledged") \/ Move(b, "written", "failed")
  /\ recorded' = recorded \cup {b}
  /\ UNCHANGED <<cpe, current>>

\* Some beats end where they are.
GiveUp(lost) ==
  /\ stage' = [b \in Beats |-> IF b \in lost THEN "failed" ELSE stage[b]]
  /\ UNCHANGED <<cpe, current, recorded>>

Next ==
  \/ \E lost \in SUBSET Pending : GiveUp(lost)
  \/ \E b \in Beats : Refuse(b) \/ Write(b) \/ Record(b) \/ \E s \in SNs : Open(b, s)

Spec == Init /\ [][Next]_<<stage, cpe, current, recorded>>

\* What follows for a reader of the records: the status of a CPE comes from a
\* beat about this CPE that took effect, nothing is on record that did not take
\* effect, and everything acknowledged is.
Sound ==
  /\ \A s \in SNs :
       LET b == current[s] IN
       b # None => cpe[b] = s /\ stage[b] \in {"written", "acknowledged", "failed"}
  /\ \A b \in Pending : cpe[b] \in SNs
  /\ \A b \in Beats : stage[b] = "acknowledged" => b \in recorded
  /\ \A b \in recorded : stage[b] \in {"acknowledged", "failed"}
  /\ \A b \in Beats : stage[b] = "written" \/ b \in recorded
                       => cpe[b] \in SNs /\ current[cpe[b]] # None
=============================================================================
