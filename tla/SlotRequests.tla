---------------------------- MODULE SlotRequests ----------------------------
(***************************************************************************)
(* What the services of a SIM slot share: the slot as the ofono driver     *)
(* (telephony.c, struct ofono_sim_data) and the service (struct            *)
(* telephony_sim_state) keep it, and the requests of clients that wait for *)
(* a call to ofono.  Network, VoiceCalls and SimLock extend it.            *)
(***************************************************************************)
EXTENDS Integers, Sequences, SequencesExt, FiniteSets

CONSTANTS
  Client,         (* clients with one request each at a time               *)
  MaxMoves        (* bound: changes of ofono, of the modem and of its      *)
                  (* interfaces                                            *)

ASSUME SlotRequestsAssumption == MaxMoves \in Nat

VARIABLES
  slot,           (* "gone", "there", or "ready": initialized              *)
  calls,          (* calls to ofono in flight, each for a client; lost:    *)
                  (* cancelled                                             *)
  waiting,        (* clients not yet answered                              *)
  moves

requests == <<calls, waiting>>

Move == moves < MaxMoves /\ moves' = moves + 1

(* A client asks again once it has been answered.  What is refused, or     *)
(* answered from what is at hand, changes nothing and is no step.          *)
Accepts(g) == slot = "ready" /\ g \notin waiting

Ask(call) == calls' = calls \cup {call} /\ waiting' = waiting \cup {call.who}

Answered(k) == calls' = calls \ {k} /\ waiting' = waiting \ {k.who}

(* A cancelled call is answered from the next turn of the main loop,       *)
(* before anything that ofono has yet to send.                             *)
NothingLost == \A k \in calls : ~k.lost

(* modems_changed_cb for one slot: a modem where there was none, another   *)
(* modem, for which the service keeps the slot as it is, or none.          *)
modem_added == slot = "gone" /\ Move /\ slot' = "there"
modem_replaced == slot # "gone" /\ Move /\ UNCHANGED slot
modem_removed == slot # "gone" /\ Move /\ slot' = "gone"

(* The modem is reported to be powered.                                    *)
modem_powered == slot = "there" /\ NothingLost /\ slot' = "ready" /\ UNCHANGED moves

(* Every request is answered, whatever becomes of the slot meanwhile.      *)
EveryRequestIsAnswered == \A g \in Client : g \in waiting ~> g \notin waiting
=============================================================================
