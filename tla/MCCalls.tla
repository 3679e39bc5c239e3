------------------------------ MODULE MCCalls ------------------------------
(***************************************************************************)
(* The two parts that ofono or an application may be kept waiting by, in   *)
(* one run: a behaviour is one of StkAgent or SmsQueue, with the other at  *)
(* rest where it starts.                                                   *)
(***************************************************************************)
EXTENDS StkAgent, SmsQueue

VARIABLE focus      (* the one that moves                                  *)

vars == <<agentVars, smsVars, focus>>

Init == focus \in {"agent", "sms"} /\ AgentInit /\ SmsInit

Next ==
  /\ UNCHANGED focus
  /\ \/ focus = "agent" /\ AgentNext /\ UNCHANGED smsVars
     \/ focus = "sms" /\ SmsNext /\ UNCHANGED agentVars

(* Nothing is due at rest but the slot that comes up.                      *)
Spec == /\ Init /\ [][Next]_vars /\ AgentFairness /\ SmsFairness
        /\ WF_smsVars(focus = "sms" /\ SlotComesUp)
=============================================================================
