------------------------- MODULE InstructionLifecycle -------------------------
(***************************************************************************)
(* What the instruction machinery promises, without controllers, caches or *)
(* versions: a reservation's hold is first noted, then in force, and once  *)
(* in force it stays so until its time is over or its instruction is taken *)
(* away. While a hold is in force the metrics collector subtracts it from  *)
(* what the cluster offers.                                                *)
(***************************************************************************)

CONSTANT Key
VARIABLE hold

Phase == {"none", "noted", "inForce", "over"}

\* The moves of one hold; none leads from "inForce" back to "noted", and
\* nothing but the instruction's removal leads out of "over".
Moves == {<<"none", "noted">>, <<"none", "over">>, <<"noted", "inForce">>,
          <<"noted", "over">>, <<"inForce", "over">>,
          <<"noted", "none">>, <<"inForce", "none">>, <<"over", "none">>}

Init == hold = [k \in Key |-> "none"]

Next ==
    /\ hold' \in [Key -> Phase]
    /\ \A k \in Key : hold'[k] # hold[k] => <<hold[k], hold'[k]>> \in Moves

Spec == Init /\ [][Next]_hold

=============================================================================
