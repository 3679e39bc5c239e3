------------------------------ MODULE Network ------------------------------
(***************************************************************************)
(* The network of one SIM slot (telephonyservice_net.c, the network part   *)
(* of the ofono driver's telephony.c): the scan for networks and its       *)
(* cancellation, the choice of a network and of the radio technology, and  *)
(* the registration status and signal strength that subscribers are told.  *)
(* A request that is refused, or answered from what is at hand, changes    *)
(* nothing and is no step here.  ofono is the environment; what it reports *)
(* of a property is one bit: service or none, bars or none.                *)
(***************************************************************************)
EXTENDS SlotRequests

(* The client of no scan.                                                  *)
NoScan == "noscan"

ASSUME NetworkAssumption == NoScan \notin Client

VARIABLES
  power_off_pending,
  network_status_query_pending,
  network_scan_cancellable,   (* the client whose scan it is, or NoScan    *)
  rs,             (* the slot has radio settings                           *)
  netreg,         (* the slot has a network registration                   *)
  heard,          (* what that has been told of its properties             *)
  wire,           (* what ofono has sent it since: the answer to           *)
                  (* GetProperties, then PropertyChanged signals           *)
  network,        (* what holds in ofono                                   *)
  told,           (* what the subscribers were last told                   *)
  untold          (* properties that changed with no word to them: history *)

scanning == <<network_status_query_pending, network_scan_cancellable>>
status == <<netreg, heard, wire, told, untold>>
networkOwn == <<power_off_pending, scanning, rs, status, network>>
networkVars == <<slot, requests, moves, networkOwn>>

Property == {"Status", "Strength"}
None == [p \in Property |-> 0]
NetworkCall == [who : Client, kind : {"scan", "operators", "register"}, lost : BOOLEAN]

(* One type for the program's state; the calls and requests match up.      *)
NetworkTypeOK ==
  /\ slot \in {"gone", "there", "ready"}
  /\ {power_off_pending, network_status_query_pending, rs, netreg} \subseteq BOOLEAN
  /\ network_scan_cancellable \in Client \cup {NoScan}
  /\ {heard, network, told} \subseteq [Property -> 0..1] /\ untold \subseteq Property
  /\ calls \subseteq NetworkCall /\ waiting = {k.who : k \in calls}

NetworkInit ==
  /\ slot = "gone" /\ power_off_pending = FALSE
  /\ network_status_query_pending = FALSE /\ network_scan_cancellable = NoScan
  /\ rs = FALSE /\ netreg = FALSE /\ heard = None /\ wire = <<>>
  /\ network \in [Property -> 0..1] /\ told = None /\ untold = {}
  /\ calls = {} /\ waiting = {} /\ moves = 0

(***************************************************************************)
(* The scan.                                                               *)
(***************************************************************************)
AskNetwork(g, kind) == Ask([who |-> g, kind |-> kind, lost |-> FALSE])

\* Mutant: the driver does not mind a scan that is under way.
ofono_network_list_query_over(g) ==
  netreg /\ network_scan_cancellable' = g /\ AskNetwork(g, "scan")

(* The driver refuses while it has a scan to cancel, or no registration.   *)
ofono_network_list_query(g) ==
  /\ network_scan_cancellable = NoScan /\ netreg
  /\ network_scan_cancellable' = g /\ AskNetwork(g, "scan")

(* The service refuses while a scan is pending; pending is reset at once   *)
(* when the driver refuses.                                                *)
network_list_query(g) ==
  /\ Accepts(g) /\ ~network_status_query_pending
  /\ network_status_query_pending' = TRUE /\ ofono_network_list_query(g)
  /\ UNCHANGED <<slot, power_off_pending, rs, status, network, moves>>

(* ofono_network_list_query_cancel leaves it to the answer to forget.      *)
Cancelled == {IF k.kind = "scan" /\ k.who = network_scan_cancellable
              THEN [k EXCEPT !.lost = TRUE] ELSE k : k \in calls}

(* The scan that is cancelled is still to be answered.                     *)
network_list_query_cancel ==
  /\ slot = "ready" /\ network_status_query_pending /\ network_scan_cancellable # NoScan
  /\ network_status_query_pending' = FALSE /\ calls' = Cancelled
  /\ UNCHANGED <<slot, power_off_pending, network_scan_cancellable, rs, status, network,
                 waiting, moves>>

(* The caller is answered whether or not its slot is still there.          *)
network_list_query_finish(k) ==
  /\ Answered(k)
  /\ network_status_query_pending' = (network_status_query_pending /\ slot = "gone")

(* Networks or an error, cancelled or not, for a slot that is still there  *)
(* or again there: whatever it has to cancel is dropped.                   *)
scan_operators_cb(k) ==
  /\ k.kind = "scan" /\ network_list_query_finish(k)
  /\ network_scan_cancellable' = IF slot = "gone" THEN network_scan_cancellable ELSE NoScan
  /\ UNCHANGED <<slot, power_off_pending, rs, status, network, moves>>

(***************************************************************************)
(* The choice of a network and of the technology.                          *)
(***************************************************************************)
(* To choose one of the networks the operators are asked for first.        *)
ofono_network_set(g, automatic) ==
  netreg /\ AskNetwork(g, IF automatic THEN "register" ELSE "operators")

network_set(g) ==
  /\ Accepts(g)
  /\ \E automatic \in BOOLEAN : ofono_network_set(g, automatic)
  /\ UNCHANGED <<slot, power_off_pending, scanning, rs, status, network, moves>>

(* Register of the operator that was found.                                *)
ofono_network_operator_register(k) ==
  calls' = (calls \ {k}) \cup {[k EXCEPT !.kind = "register"]} /\ UNCHANGED waiting

\* Mutant: with no operator of that id the caller is not answered.
get_operators_cb_quiet(k) ==
  /\ k.kind = "operators"
  /\ (calls' = calls \ {k} /\ UNCHANGED waiting) \/ ofono_network_operator_register(k)
  /\ UNCHANGED <<slot, power_off_pending, scanning, rs, status, network, moves>>

(* An error, or no operator of that id; or the one to register with, which *)
(* takes neither the registration nor the slot.                            *)
get_operators_cb(k) ==
  /\ k.kind = "operators"
  /\ Answered(k) \/ ofono_network_operator_register(k)
  /\ UNCHANGED <<slot, power_off_pending, scanning, rs, status, network, moves>>

(* Register of the registration or of an operator, or SetProperty: the     *)
(* caller is told how it went.                                             *)
register_cb(k) ==
  /\ k.kind = "register" /\ Answered(k)
  /\ UNCHANGED <<slot, power_off_pending, scanning, rs, status, network, moves>>

ofono_radio_settings_set_technology_preference(g) == AskNetwork(g, "register")

ofono_rat_set(g) == rs /\ ofono_radio_settings_set_technology_preference(g)

rat_set(g) ==
  /\ Accepts(g) /\ ofono_rat_set(g)
  /\ UNCHANGED <<slot, power_off_pending, scanning, rs, status, network, moves>>

(***************************************************************************)
(* What subscribers are told.                                              *)
(***************************************************************************)
(* The properties that a signal, or the answer to GetProperties, names are *)
(* replaced.                                                               *)
Updated(props, change) ==
  [p \in DOMAIN props |-> IF p \in DOMAIN change THEN change[p] ELSE props[p]]

(* While a power off is pending nothing is told, and nothing later.        *)
Notify(values) ==
  IF power_off_pending
  THEN untold' = untold \cup DOMAIN values /\ UNCHANGED told
  ELSE told' = Updated(told, values) /\ untold' = untold \ DOMAIN values

(* What the driver makes of the registration, if there is one.  A query is *)
(* answered with it; that tells the client that asked, and nobody else.    *)
retrieve_network_status(p) == IF netreg THEN heard[p] ELSE 0

update_network_property(change) == heard' = Updated(heard, change)

network_prop_changed_cb ==
  /\ wire # <<>> /\ wire' = Tail(wire)
  /\ update_network_property(Head(wire)) /\ Notify(Head(wire))
  /\ UNCHANGED <<slot, power_off_pending, scanning, rs, netreg, network, requests, moves>>

(* ofono's network changes; a registration hears of it.                    *)
NetworkChanges(p) ==
  /\ Move
  /\ network' = [network EXCEPT ![p] = 1 - @]
  /\ wire' = IF netreg THEN Append(wire, [q \in {p} |-> network'[q]]) ELSE wire
  /\ UNCHANGED <<slot, power_off_pending, scanning, rs, netreg, heard, told, untold, requests>>

(***************************************************************************)
(* The modem of the slot and its interfaces.                               *)
(***************************************************************************)
(* ofono answers GetProperties; what changes after it is on its way, too.  *)
ofono_network_registration_create == netreg' = TRUE /\ heard' = None /\ wire' = <<network>>

ofono_network_registration_free == netreg' = FALSE /\ heard' = None /\ wire' = <<>>

netreg_create ==
  /\ slot # "gone" /\ ~netreg /\ NothingLost
  /\ ofono_network_registration_create
  /\ UNCHANGED <<slot, power_off_pending, scanning, rs, told, untold, network, requests,
                 moves>>

\* Mutant: a registration goes without a word.
notify_no_network_registration_silent == UNCHANGED <<told, untold>>

(* The status is told, the strength is not.                                *)
notify_no_network_registration ==
  IF power_off_pending
  THEN untold' = Property /\ UNCHANGED told
  ELSE told' = [told EXCEPT !["Status"] = 0] /\ untold' = {"Strength"}

(* The scan, if there is one, goes on.                                     *)
netreg_free ==
  /\ netreg /\ Move
  /\ ofono_network_registration_free
  /\ notify_no_network_registration
  /\ UNCHANGED <<slot, power_off_pending, scanning, rs, network, requests>>

rs_changed ==
  /\ slot # "gone" /\ Move
  /\ rs' = ~rs
  /\ UNCHANGED <<slot, power_off_pending, scanning, status, network, requests>>

(* sim_data_detach: the scan is cancelled, the subscribers are not told.   *)
Detach ==
  /\ rs' = FALSE /\ ofono_network_registration_free
  /\ untold' = Property /\ UNCHANGED told
  /\ calls' = Cancelled /\ network_scan_cancellable' = NoScan
  /\ network' \in [Property -> 0..1]

(* What each change of the modem does to the network of the slot.          *)
network_modem_changed ==
  \/ /\ modem_added
     /\ power_off_pending' = FALSE /\ network_status_query_pending' = FALSE
     /\ UNCHANGED <<network_scan_cancellable, rs, status, network, requests>>
  \/ /\ modem_replaced /\ Detach
     /\ UNCHANGED <<power_off_pending, network_status_query_pending, waiting>>
  \/ /\ modem_removed /\ Detach
     /\ power_off_pending' = FALSE /\ network_status_query_pending' = FALSE
     /\ UNCHANGED waiting

network_available == modem_powered /\ UNCHANGED <<networkOwn, requests>>

(* powerSet with "off"; the end of one, or powerSet with "on".             *)
power_set ==
  /\ slot = "ready" /\ ~power_off_pending /\ Move
  /\ power_off_pending' = TRUE
  /\ UNCHANGED <<slot, scanning, rs, status, network, requests>>

power_set_finish ==
  /\ power_off_pending
  /\ power_off_pending' = FALSE
  /\ UNCHANGED <<slot, scanning, rs, status, network, requests, moves>>

(* What is due: the answer to a call; signals and other callbacks.         *)
network_answer(k) == scan_operators_cb(k) \/ get_operators_cb(k) \/ register_cb(k)
network_due == network_prop_changed_cb \/ network_available \/ power_set_finish

NetworkNext ==
  \/ \E g \in Client : network_list_query(g) \/ network_set(g) \/ rat_set(g)
  \/ network_list_query_cancel
  \/ \E p \in Property : NetworkChanges(p)
  \/ netreg_create \/ netreg_free \/ rs_changed
  \/ network_modem_changed \/ power_set
  \/ \E k \in calls : network_answer(k)
  \/ network_due

NetworkSpec == NetworkInit /\ [][NetworkNext]_networkVars

----------------------------------------------------------------------------
(* network_status_query_pending never outlives the scan it stands for (or  *)
(* the slot would refuse every scan from then on), a modem never has two   *)
(* scans that were not cancelled, and what can be cancelled is a scan in   *)
(* flight.                                                                 *)
ScansAreClaimed ==
  LET scans == {k \in calls : k.kind = "scan"}
  IN  /\ network_status_query_pending => scans # {}
      /\ Cardinality({k \in scans : ~k.lost}) =< 1
      /\ network_scan_cancellable # NoScan =>
           \E k \in scans : k.who = network_scan_cancellable

(* The subscribers were last told what the daemon has heard of the         *)
(* network, which is what holds once ofono has nothing left to say: save   *)
(* for what changed while a power off was pending, with another modem, and *)
(* the strength when the registration goes.                                *)
NetworkIsTold ==
  /\ slot = "gone" => untold = Property \/ told = None
  /\ \A p \in Property \ untold : told[p] = retrieve_network_status(p)
  /\ netreg /\ wire = <<>> => heard = network
=============================================================================
