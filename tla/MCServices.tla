----------------------------- MODULE MCServices -----------------------------
(***************************************************************************)
(* The services of a SIM slot and the table of slots, checked in one run:  *)
(* a behaviour is one of Network, VoiceCalls, SimLock or SimTable, whose   *)
(* states do not depend on each other, with the other three at rest.       *)
(***************************************************************************)
EXTENDS Network, VoiceCalls, SimLock, SimTable

VARIABLE focus      (* the one that moves                                  *)

vars == <<slot, requests, moves, networkOwn, voiceOwn, simOwn, tableVars, focus>>

Init ==
  /\ focus \in {"network", "voice", "lock", "table"}
  /\ NetworkInit /\ VoiceInit /\ SimInit /\ TableInit
  /\ focus = "network" \/ network = None
  /\ focus = "lock" \/ card = NoCard

Moving(network_step, voice_step, sim_step) ==
  /\ UNCHANGED focus
  /\ \/ focus = "network" /\ network_step /\ UNCHANGED <<voiceOwn, simOwn, tableVars>>
     \/ focus = "voice" /\ voice_step /\ UNCHANGED <<networkOwn, simOwn, tableVars>>
     \/ focus = "lock" /\ sim_step /\ UNCHANGED <<networkOwn, voiceOwn, tableVars>>

TableMoves ==
  /\ focus = "table" /\ TableNext
  /\ UNCHANGED <<slot, requests, moves, networkOwn, voiceOwn, simOwn, focus>>

Next == Moving(NetworkNext, VoiceNext, SimNext) \/ TableMoves

(* ofono answers every call, and whatever the bus delivers is handled.     *)
Answer(g) == \E k \in calls :
  k.who = g /\ Moving(network_answer(k), voice_answer(k), pin1_common_cb(k))
Due == Moving(network_due, voice_due, sim_due)

Spec == Init /\ [][Next]_vars /\ WF_vars(Due) /\ \A g \in Client : WF_vars(Answer(g))
=============================================================================
