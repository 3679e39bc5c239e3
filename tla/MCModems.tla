------------------------------ MODULE MCModems ------------------------------
(***************************************************************************)
(* The modems in one run: a behaviour is one of Slots, which modem becomes *)
(* which slot, or of Power, whether its radio is on, with the other at     *)
(* rest where it starts.                                                   *)
(***************************************************************************)
EXTENDS Slots, Power

VARIABLE focus      (* the one that moves                                  *)

vars == <<slotsVars, powerVars, focus>>

Init ==
  /\ focus \in {"slots", "power"} /\ SlotsInit /\ PowerInit
  /\ focus = "power" => modem = [p \in Modem |-> "absent"]
  /\ focus = "slots" => /\ ~stored_airplane
                        /\ radio = [s \in Slot |-> [powered |-> FALSE, online |-> FALSE]]

Next ==
  /\ UNCHANGED focus
  /\ \/ focus = "slots" /\ SlotsNext /\ UNCHANGED powerVars
     \/ focus = "power" /\ PowerNext /\ UNCHANGED slotsVars

Spec == Init /\ [][Next]_vars
=============================================================================
