---------------------------- MODULE MCInterfaces ----------------------------
(***************************************************************************)
(* What is asked of the interfaces of ConnMan and ofono in one run: a      *)
(* behaviour is one of WanSet or WanStatus, which share wan_disabled, or   *)
(* of OfonoBase, with the others at rest where they start.                 *)
(***************************************************************************)
EXTENDS WanSet, WanStatus, OfonoBase

VARIABLE focus      (* the one that moves                                  *)

setOwn == <<path, heard, connman_manager, roaming_allowed, connman, req, bounds>>
statusOwn == <<choice, status, netreg, waiting, moves>>
vars == <<setOwn, statusOwn, wan_disabled, baseVars, focus>>

Init ==
  /\ focus \in {"set", "status", "base"} /\ WanSetInit /\ WanStatusInit /\ BaseInit
  /\ focus # "base" => actual = CHOOSE v \in Value : TRUE

Next ==
  /\ UNCHANGED focus
  /\ \/ focus = "set" /\ WanSetNext /\ UNCHANGED <<statusOwn, baseVars>>
     \/ focus = "status" /\ WanStatusNext /\ UNCHANGED <<setOwn, baseVars>>
     \/ focus = "base" /\ BaseNext /\ UNCHANGED <<setOwn, statusOwn, wan_disabled>>

Spec == Init /\ [][Next]_vars /\ WanSetFairness /\ BaseFairness
=============================================================================
