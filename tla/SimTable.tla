------------------------------ MODULE SimTable ------------------------------
(***************************************************************************)
(* The table of SIM slots of the service (telephonyservice.c,              *)
(* telephonyservice_simmgmt.c): which card is in which slot, as the ofono  *)
(* driver tells it, which slot serves which role, the labels, and what of  *)
(* both is kept in the settings.  ofono and the user are the environment.  *)
(***************************************************************************)
EXTENDS Integers, FiniteSetsExt

CONSTANTS
  MaxSlots,       (* the most slots ofono reports (TELEPHONY_MAX_SIMS)     *)
  Role,           (* "data" and other roles a slot may serve               *)
  Iccid, NoIccid, (* the cards, by their identifiers; NULL                 *)
  Label, NoLabel, (* what the user calls a card; NULL                      *)
  MaxSwaps        (* bound: changes that ofono or the user make            *)

ASSUME SimTableAssumption ==
  /\ MaxSlots \in Nat \ {0} /\ MaxSwaps \in Nat /\ "data" \in Role
  /\ NoIccid \notin Iccid /\ NoLabel \notin Label

VARIABLES
  sims,               (* service->sims: the slots, from 0 on               *)
  default_sim,        (* the slot that serves a role, or -1                *)
  default_sim_iccid,  (* the card chosen for a role, or NoIccid            *)
  sim_names,          (* the label of a card, or NoLabel                   *)
  settings,           (* what is stored of the two                         *)
  data_sim_id,        (* the slot packet data is told to use (wan.c)       *)
  unread,             (* slots with a card that ofono has yet to read      *)
  chosen,             (* the card the user last chose for a role: history  *)
  swaps

tableVars == <<sims, default_sim, default_sim_iccid, sim_names, settings, data_sim_id,
               unread, chosen, swaps>>

SlotId == 0..MaxSlots - 1
NoSlot == -1
Sim == [present : BOOLEAN, iccid : Iccid \cup {NoIccid}, name : Label \cup {NoLabel}]
Choice == [Role -> Iccid \cup {NoIccid}]
SimNames == [Iccid -> Label \cup {NoLabel}]

(* One type for the program's state.                                       *)
TableTypeOK ==
  /\ \E n \in 0..MaxSlots : sims \in [0..n - 1 -> Sim]
  /\ default_sim \in [Role -> DOMAIN sims \cup {NoSlot}]
  /\ {default_sim_iccid, chosen} \subseteq Choice /\ sim_names \in SimNames
  /\ settings \in [choice : Choice, names : SimNames]
  /\ data_sim_id \in SlotId \cup {NoSlot} /\ unread \subseteq DOMAIN sims

sim_state_new == [present |-> FALSE, iccid |-> NoIccid, name |-> NoLabel]
Nowhere == [r \in Role |-> NoSlot]

(* telephony_service_create, the first time.                               *)
TableInit ==
  /\ sims = <<>> /\ default_sim = Nowhere /\ data_sim_id = 0
  /\ default_sim_iccid = [r \in Role |-> NoIccid] /\ sim_names = [c \in Iccid |-> NoLabel]
  /\ settings = [choice |-> default_sim_iccid, names |-> sim_names]
  /\ unread = {} /\ chosen = default_sim_iccid /\ swaps = 0

Swap == swaps < MaxSwaps /\ swaps' = swaps + 1

(***************************************************************************)
(* Which slot serves a role.                                               *)
(***************************************************************************)
(* The card that was chosen, wherever it is; else the first slot with a    *)
(* card; else slot 0.                                                      *)
serving_slot(table, card) ==
  LET known == {n \in DOMAIN table : card # NoIccid /\ table[n].iccid = card}
      usable == {n \in DOMAIN table : table[n].present}
  IN  IF known # {} THEN Min(known)
      ELSE IF usable # {} THEN Min(usable)
      ELSE IF table = <<>> THEN NoSlot ELSE 0

(* wan_service_set_data_sim is called when the slot for data is another.   *)
recompute_default_sims ==
  /\ default_sim' = [r \in Role |-> serving_slot(sims', default_sim_iccid[r])]
  /\ data_sim_id' = IF default_sim'["data"] = default_sim["data"] THEN data_sim_id
                    ELSE default_sim'["data"]

(* to: the slots named in the request, of which all must exist.            *)
Requests == {to \in [Role -> DOMAIN sims \cup {NoSlot}] : to # Nowhere}

store_default_sim_preferences(choice) == settings' = [settings EXCEPT !.choice = choice]

\* Mutant: the preferences are stored before they change.
telephony_service_set_default_sim_early(to) ==
  /\ default_sim' = [r \in Role |-> IF to[r] = NoSlot THEN default_sim[r] ELSE to[r]]
  /\ default_sim_iccid' = [r \in Role |-> IF to[r] = NoSlot THEN default_sim_iccid[r]
                                          ELSE sims[to[r]].iccid]
  /\ store_default_sim_preferences(default_sim_iccid)
  /\ data_sim_id' = IF to["data"] = NoSlot THEN data_sim_id ELSE to["data"]

(* For each role that is named: its slot, and the card that slot is known  *)
(* to have.                                                                *)
telephony_service_set_default_sim(to) ==
  /\ default_sim' = [r \in Role |-> IF to[r] = NoSlot THEN default_sim[r] ELSE to[r]]
  /\ default_sim_iccid' = [r \in Role |-> IF to[r] = NoSlot THEN default_sim_iccid[r]
                                          ELSE sims[to[r]].iccid]
  /\ store_default_sim_preferences(default_sim_iccid')
  /\ data_sim_id' = IF to["data"] = NoSlot THEN data_sim_id ELSE to["data"]

(* A slot whose card is not known serves the role until the next change.   *)
default_sim_set(to) ==
  /\ Swap
  /\ telephony_service_set_default_sim(to)
  /\ chosen' = [r \in Role |-> IF to[r] = NoSlot THEN chosen[r] ELSE sims[to[r]].iccid]
  /\ UNCHANGED <<sims, sim_names, unread>>

(***************************************************************************)
(* The labels.                                                             *)
(***************************************************************************)
store_sim_names(names) == settings' = [settings EXCEPT !.names = names]

(* An empty label (NoLabel) takes the old one away.  Without an identifier *)
(* nothing is stored.                                                      *)
telephony_service_set_sim_name(n, label) ==
  /\ sims' = [sims EXCEPT ![n].name = label]
  /\ IF sims[n].iccid = NoIccid THEN UNCHANGED <<sim_names, settings>>
     ELSE /\ sim_names' = [sim_names EXCEPT ![sims[n].iccid] = label]
          /\ store_sim_names(sim_names')

sim_name_set(n, label) ==
  /\ Swap
  /\ telephony_service_set_sim_name(n, label)
  /\ UNCHANGED <<default_sim, default_sim_iccid, data_sim_id, unread, chosen>>

(* The label of the slot is replaced only by one that is stored.           *)
sim_info_changed(s, present, iccid) ==
  [present |-> present, iccid |-> iccid,
   name |-> IF iccid = NoIccid THEN s.name
            ELSE IF sim_names[iccid] = NoLabel THEN s.name ELSE sim_names[iccid]]

(***************************************************************************)
(* What the driver tells, which is what it has itself: Present and         *)
(* CardIdentifier of a SIM manager, or neither without one.                *)
(***************************************************************************)
(* A card is inserted or removed; it has been read, and is in no other     *)
(* slot; or the SIM manager goes.  Until a card has been read, and when    *)
(* it has been removed, ofono still has the identifier of the one before.  *)
sim_prop_changed(n) ==
  /\ Swap
  /\ \/ /\ sims' = [sims EXCEPT ![n] = sim_info_changed(@, ~@.present, @.iccid)]
        /\ unread' = IF sims[n].present THEN unread \ {n} ELSE unread \cup {n}
     \/ /\ n \in unread /\ unread' = unread \ {n}
        /\ \E c \in Iccid :
             /\ \A k \in DOMAIN sims \ unread : sims[k].present => sims[k].iccid # c
             /\ sims' = [sims EXCEPT ![n] = sim_info_changed(@, TRUE, c)]
     \/ /\ sims' = [sims EXCEPT ![n] = sim_info_changed(@, FALSE, NoIccid)]
        /\ unread' = unread \ {n}
  /\ recompute_default_sims
  /\ UNCHANGED <<default_sim_iccid, sim_names, settings, chosen>>

(* The list of modems changes: the first slots may have another modem and  *)
(* thus no SIM manager yet, slots that are gone forget, new ones are empty.*)
modems_changed(count, moved) ==
  /\ Swap
  /\ sims' = [n \in 0..count - 1 |->
                IF n \notin DOMAIN sims THEN sim_state_new
                ELSE IF n \in moved THEN sim_info_changed(sims[n], FALSE, NoIccid)
                ELSE sim_info_changed(sims[n], sims[n].present, sims[n].iccid)]
  /\ unread' = (unread \cap DOMAIN sims') \ moved
  /\ recompute_default_sims
  /\ UNCHANGED <<default_sim_iccid, sim_names, settings, chosen>>

load_default_sim_preferences == default_sim_iccid' = settings.choice
load_sim_names == sim_names' = settings.names

(* The daemon is started again, and knows of no slot.                      *)
telephony_service_create ==
  /\ sims # <<>> /\ Swap
  /\ sims' = <<>> /\ default_sim' = Nowhere /\ data_sim_id' = 0
  /\ load_default_sim_preferences /\ load_sim_names
  /\ unread' = {}
  /\ UNCHANGED <<settings, chosen>>

TableNext ==
  \/ \E to \in Requests : default_sim_set(to)
  \/ \E n \in DOMAIN sims, label \in Label \cup {NoLabel} : sim_name_set(n, label)
  \/ \E n \in DOMAIN sims : sim_prop_changed(n)
  \/ \E count \in 0..MaxSlots, moved \in SUBSET SlotId : modems_changed(count, moved)
  \/ telephony_service_create

TableSpec == TableInit /\ [][TableNext]_tableVars

-----------------------------------------------------------------------------
(* The slots that are known to have the card chosen for a role, and those  *)
(* that have its identifier: also one that the card has been taken out of. *)
Naming(r) == {n \in DOMAIN sims : chosen[r] # NoIccid /\ sims[n].iccid = chosen[r]}
Having(r) == {n \in Naming(r) \ unread : sims[n].present}

(* The card the user chose for a role serves it when it is known which     *)
(* slot has it and no other has its identifier still: through swaps, moved *)
(* modems and restarts; and packet data is told to use the slot that       *)
(* serves it, whichever that is.                                           *)
ChoiceFollowsCard ==
  /\ \A r \in Role : Having(r) # {} /\ Having(r) = Naming(r) => default_sim[r] \in Having(r)
  /\ default_sim["data"] \in {NoSlot, data_sim_id}

(* telephonyservice.c:466: "A stored ICCID always wins so that the user's  *)
(* choice follows the physical card."                                      *)
ChoiceFollowsPhysicalCard == \A r \in Role : Having(r) # {} => default_sim[r] \in Having(r)
=============================================================================
