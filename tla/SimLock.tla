------------------------------ MODULE SimLock ------------------------------
(***************************************************************************)
(* The state of the card of one SIM slot and its PIN                       *)
(* (telephonyservice_sim.c, the SIM part of the ofono driver's telephony.c,*)
(* ofonosimmanager.c): what of it subscribers of simStatusQuery and        *)
(* pin1StatusQuery are told, and the operations on PIN 1.  ofono and the   *)
(* card are the environment.                                               *)
(***************************************************************************)
EXTENDS SlotRequests

VARIABLES
  sim,            (* the slot has a SIM manager                            *)
  sim_heard,      (* what that has been told of the card                   *)
  sim_wire,       (* what ofono has sent it since, each a sequence of      *)
                  (* property changes                                      *)
  card,           (* the card as ofono knows it                            *)
  sim_status,     (* od->sim_status: the status last seen                  *)
  told_status,    (* the status the subscribers were last told             *)
  told_pin,       (* what they were told of PIN 1                          *)
  unsaid          (* the status seen changed with no word to them: history *)

simOwn == <<sim, sim_heard, sim_wire, card, sim_status, told_status, told_pin, unsaid>>
simVars == <<slot, requests, moves, simOwn>>

(* other: a lock that is not PIN or PUK, of the network or of PIN 2.       *)
Pin == {"none", "pin", "puk", "other"}
NoCard == [Present |-> FALSE, PinRequired |-> "none"]
Card == {NoCard} \cup [Present : {TRUE}, PinRequired : Pin]
SimStatus == {"invalid", "ready", "pin", "puk"}
PinStatus == [required : BOOLEAN, puk_required : BOOLEAN]
PinCall(g) == [who |-> g, kind |-> "pin", lost |-> FALSE]

determine_sim_status(h) ==
  IF ~h.Present \/ h.PinRequired = "other" THEN "invalid"
  ELSE IF h.PinRequired = "none" THEN "ready" ELSE h.PinRequired

(* One type for the state; the calls and requests match up.                *)
SimTypeOK ==
  /\ slot \in {"gone", "there", "ready"} /\ sim \in BOOLEAN
  /\ sim_heard \in [Present : BOOLEAN, PinRequired : Pin] /\ card \in Card
  /\ {sim_status, told_status} \subseteq SimStatus /\ told_pin \in PinStatus
  /\ calls \subseteq {PinCall(g) : g \in Client}
  /\ waiting = {k.who : k \in calls}

SimInit ==
  /\ slot = "gone" /\ sim = FALSE /\ sim_heard = NoCard /\ sim_wire = <<>> /\ card \in Card
  /\ sim_status = "invalid" /\ told_status = "invalid" /\ unsaid = FALSE
  /\ told_pin = [required |-> FALSE, puk_required |-> FALSE]
  /\ calls = {} /\ waiting = {} /\ moves = 0

(***************************************************************************)
(* What subscribers are told.                                              *)
(***************************************************************************)
(* Only the flag that holds is set in the PIN status, which starts out as  *)
(* whatever was on the stack (old).                                        *)
determine_pin_status(h, old) ==
  [required |-> h.PinRequired = "pin" \/ old.required,
   puk_required |-> h.PinRequired = "puk" \/ old.puk_required]

(* The subscribers of both queries.                                        *)
sim_status_notify(seen, h, old) ==
  [heard |-> h, seen |-> seen, told |-> seen, unsaid |-> FALSE,
   pin |-> determine_pin_status(h, old)]

update_sim_property(h, change) ==
  IF "Present" \in DOMAIN change THEN [h EXCEPT !.Present = change.Present]
  ELSE [h EXCEPT !.PinRequired = change.PinRequired]

(* The subscribers hear of a status other than the one last seen.          *)
sim_prop_changed_cb(s, change, old) ==
  LET h == update_sim_property(s.heard, change)
      seen == determine_sim_status(h)
  IN  IF seen = s.seen THEN [s EXCEPT !.heard = h]
      ELSE sim_status_notify(seen, h, old)

sim_handles ==
  /\ sim_wire # <<>> /\ sim_wire' = Tail(sim_wire)
  /\ \E old \in PinStatus :
       LET changes == Head(sim_wire)
           before == [heard |-> sim_heard, seen |-> sim_status, told |-> told_status,
                      unsaid |-> unsaid, pin |-> told_pin]
           first == sim_prop_changed_cb(before, changes[1], old)
           s == IF Len(changes) = 1 THEN first
                ELSE sim_prop_changed_cb(first, changes[2], old)
       IN  /\ sim_heard' = s.heard /\ sim_status' = s.seen
           /\ told_status' = s.told /\ unsaid' = s.unsaid /\ told_pin' = s.pin
  /\ UNCHANGED <<slot, requests, moves, sim, card>>

ofono_sim_status_query == sim_status' = determine_sim_status(sim_heard)

(* A query tells the one who asks, and counts as seen.                     *)
sim_status_query ==
  /\ slot = "ready" /\ sim
  /\ ofono_sim_status_query
  /\ unsaid' = (unsaid \/ sim_status' # sim_status)
  /\ UNCHANGED <<slot, requests, moves, sim, sim_heard, sim_wire, card, told_status, told_pin>>

(***************************************************************************)
(* verify, enable, disable, change and unblock.  The answer takes neither  *)
(* the SIM manager nor the slot.                                           *)
(***************************************************************************)
CallSimManager(g) == Ask(PinCall(g))

ofono_pin1_operation(g) == sim /\ CallSimManager(g)

pin1_request(g) ==
  /\ Accepts(g) /\ ofono_pin1_operation(g)
  /\ UNCHANGED <<slot, moves, simOwn>>

common_pin_cb(k) == Answered(k)

pin1_common_cb(k) == common_pin_cb(k) /\ UNCHANGED <<slot, moves, simOwn>>

(***************************************************************************)
(* The card, the SIM manager and the modem.                                *)
(***************************************************************************)
Present(c) == [Present |-> c.Present]
PinRequired(c) == [PinRequired |-> c.PinRequired]

(* A card is inserted, removed, locked or unlocked.                        *)
CardChanges ==
  /\ Move
  /\ card' \in Card \ {card}
  /\ LET present == IF card'.Present = card.Present THEN sim_wire
                     ELSE Append(sim_wire, <<Present(card')>>)
         pin == IF card'.PinRequired = card.PinRequired THEN present
                ELSE Append(present, <<PinRequired(card')>>)
     IN  sim_wire' = IF sim THEN pin ELSE sim_wire
  /\ UNCHANGED <<slot, requests, sim, sim_heard, sim_status, told_status, told_pin, unsaid>>

(* GetProperties is answered with all properties, in any order.            *)
ofono_sim_manager_create ==
  /\ sim' = TRUE /\ sim_heard' = NoCard
  /\ sim_wire' \in {<< <<Present(card), PinRequired(card)>> >>,
                    << <<PinRequired(card), Present(card)>> >>}

sim_create ==
  /\ slot # "gone" /\ ~sim
  /\ ofono_sim_manager_create
  /\ UNCHANGED <<slot, requests, moves, card, sim_status, told_status, told_pin, unsaid>>

FreeSim == sim' = FALSE /\ sim_heard' = NoCard /\ sim_wire' = <<>>

\* Mutant: the status is forgotten with the SIM manager.
sim_free_forgets ==
  /\ sim /\ Move /\ FreeSim
  /\ sim_status' = "invalid"
  /\ UNCHANGED <<slot, requests, card, told_status, told_pin, unsaid>>

(* The status stays as it was last seen and told.                          *)
sim_free ==
  /\ sim /\ Move /\ FreeSim
  /\ UNCHANGED <<slot, requests, card, sim_status, told_status, told_pin, unsaid>>

(* The slot of a modem that is replaced keeps the status; a slot that goes *)
(* takes it along, and nobody is told.                                     *)
sim_modem_changed ==
  \/ modem_added /\ UNCHANGED <<simOwn, requests>>
  \/ /\ modem_replaced /\ FreeSim /\ card' \in Card
     /\ UNCHANGED <<requests, sim_status, told_status, told_pin, unsaid>>
  \/ /\ modem_removed /\ FreeSim /\ card' \in Card
     /\ sim_status' = "invalid" /\ unsaid' = (unsaid \/ sim_status # "invalid")
     /\ UNCHANGED <<requests, told_status, told_pin>>

sim_available == modem_powered /\ UNCHANGED <<simOwn, requests>>

(* What is due, besides the answer to a call: signals and other callbacks. *)
sim_due == sim_handles \/ sim_available

SimNext ==
  \/ \E g \in Client : pin1_request(g)
  \/ sim_status_query
  \/ CardChanges \/ sim_create \/ sim_free \/ sim_modem_changed
  \/ \E k \in calls : pin1_common_cb(k)
  \/ sim_due

SimSpec == SimInit /\ [][SimNext]_simVars

-----------------------------------------------------------------------------
(* With nothing left to handle, the subscribers of simStatusQuery know the *)
(* card as it is, and those of pin1StatusQuery know a PIN or PUK that is   *)
(* required: however the SIM manager and modems come and go, unless a      *)
(* query of another client, or the end of the slot, took the change along. *)
SimStatusIsTold ==
  sim /\ sim_wire = <<>> /\ ~unsaid =>
    /\ told_status = determine_sim_status(card)
    /\ told_status = "pin" => told_pin.required
    /\ told_status = "puk" => told_pin.puk_required
=============================================================================
