-------------------------------- MODULE Triage --------------------------------
(***************************************************************************)
(* What the Polygon half promises to the half that uploads: every problem  *)
(* is decided once, kept or dropped, and the batch is handed over when all *)
(* are decided and one at least is kept.  A batch may stop and be resumed; *)
(* neither changes a decision.                                             *)
(***************************************************************************)
CONSTANT Items

VARIABLES fate, phase

Init ==
  /\ fate = [p \in Items |-> "open"]
  /\ phase = "working"

Decide(p) ==
  /\ phase = "working" /\ fate[p] = "open"
  /\ \E f \in {"kept", "dropped"} : fate' = [fate EXCEPT ![p] = f]
  /\ UNCHANGED phase

Stop == phase = "working" /\ phase' = "stopped" /\ UNCHANGED fate

Restart == phase = "stopped" /\ phase' = "working" /\ UNCHANGED fate

HandOver ==
  /\ phase = "working"
  /\ \A p \in Items : fate[p] # "open"
  /\ \E p \in Items : fate[p] = "kept"
  /\ phase' = "handed"
  /\ UNCHANGED fate

Next == (\E p \in Items : Decide(p)) \/ Stop \/ Restart \/ HandOver

Spec == Init /\ [][Next]_<<fate, phase>>
===============================================================================
