-------------------------------- MODULE Convoy --------------------------------
(***************************************************************************)
(* What the ElectiCode half promises about a batch: its items move through *)
(* the phases together.  An item does one phase at a time, no item enters  *)
(* a phase before every item has left the one before, and nothing moves    *)
(* while the batch is stopped.                                             *)
(***************************************************************************)
EXTENDS Naturals

CONSTANTS Items, Phases   \* Phases: how many phases there are

VARIABLES done, phase, stopped

Init ==
  /\ done = [p \in Items |-> 0]
  /\ phase = 0
  /\ stopped = FALSE

Finish(p) ==
  /\ ~stopped
  /\ done[p] = phase /\ phase < Phases
  /\ done' = [done EXCEPT ![p] = phase + 1]
  /\ UNCHANGED <<phase, stopped>>

Advance ==
  /\ ~stopped
  /\ \A p \in Items : done[p] = phase + 1
  /\ phase' = phase + 1
  /\ UNCHANGED <<done, stopped>>

Stop   == ~stopped /\ stopped' = TRUE /\ UNCHANGED <<done, phase>>
Resume == stopped /\ stopped' = FALSE /\ UNCHANGED <<done, phase>>

Next == (\E p \in Items : Finish(p)) \/ Advance \/ Stop \/ Resume

Spec == Init /\ [][Next]_<<done, phase, stopped>>
===============================================================================
