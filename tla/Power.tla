-------------------------------- MODULE Power --------------------------------
(***************************************************************************)
(* powerSet and airplaneModeSet (telephonyservice_misc.c), what is stored  *)
(* of them (telephonyservice.c) and how the driver switches a modem        *)
(* (telephony.c, ofonomodem.c).  ofono and its modems are the environment; *)
(* what goes between a modem and its slot keeps its order.                 *)
(***************************************************************************)
EXTENDS Integers, Sequences, FiniteSets

CONSTANTS
  Slot,         (* the slots, numbered from 0                              *)
  DefaultVoice, (* the default SIM for calls                               *)
  MaxRequests,  (* bound: powerSet and airplaneModeSet requests            *)
  MaxFaults     (* bound: errors of ofono and the settings, losses of      *)
                (* power, and deaths of ofono and the daemon               *)

ASSUME PowerAssumption ==
  /\ IsFiniteSet(Slot) /\ Slot \subseteq Nat /\ DefaultVoice \in Slot
  /\ {MaxRequests, MaxFaults} \subseteq Nat

VARIABLES
  stored,       (* per slot power state in the settings, or "unset", ...   *)
  device,       (* ... the device wide one, ...                            *)
  stored_airplane, (* ... and the airplane flag                            *)
  airplane_mode,
  sim,          (* the service's slots; there is also the driver's         *)
  od,           (* the driver's slots                                      *)
  mdm,          (* the modem objects' properties                           *)
  radio,        (* the modems                                              *)
  toModem, news,(* calls to a modem; its replies and signals               *)
  cancelled,    (* calls cancelled, their callbacks due                    *)
  req,          (* the requests, in the order they were made               *)
  asked,        (* history: what powerSet last asked for, on at first      *)
  expected,     (* history: the radio as it should be by what was asked    *)
  overruled,    (* history: the settings were gone back to where they do   *)
                (* not say what was asked                                  *)
  patient,      (* history: nothing failed, and each request and loss came *)
                (* when all was quiet                                      *)
  faults

settings == <<stored, device, stored_airplane>>
copies   == <<airplane_mode, sim, od, mdm>>
bus      == <<toModem, news, cancelled>>
history  == <<asked, expected, overruled, patient>>
powerVars == <<settings, copies, radio, bus, req, history, faults>>

NoSim == [there |-> FALSE, initialized |-> FALSE, powered |-> FALSE, power_off_pending |-> FALSE]
NoOd  == [initializing |-> FALSE, power_set_pending |-> FALSE, power_target |-> FALSE]
Off   == [powered |-> FALSE, online |-> FALSE]
ModemStates == {m \in [powered: BOOLEAN, online: BOOLEAN] : m.online => m.powered}

NoRequest == [kind |-> "none", pending |-> 0, failed |-> FALSE, answers |-> 0]
Nobody == 0      \* whose callback does nothing, or is gone

Call(prop, v, owner) == [kind |-> prop, value |-> v, owner |-> owner, lost |-> FALSE]
GetPowerState == Call("get", FALSE, Nobody)

PowerInit ==
  /\ stored = [s \in Slot |-> "unset"] /\ device = TRUE /\ stored_airplane \in BOOLEAN
  /\ airplane_mode = stored_airplane
  /\ sim = [s \in Slot |-> NoSim] /\ od = [s \in Slot |-> NoOd] /\ mdm = [s \in Slot |-> Off]
  /\ radio \in [Slot -> ModemStates]
  /\ toModem = [s \in Slot |-> <<>>] /\ news = [s \in Slot |-> <<>>] /\ cancelled = {}
  /\ req = [r \in 1..MaxRequests |-> NoRequest]
  /\ asked = [s \in Slot |-> TRUE] /\ expected = [s \in Slot |-> FALSE]
  /\ overruled = FALSE /\ patient = TRUE
  /\ faults = 0

Still ==
  /\ \A s \in Slot : toModem[s] = <<>> /\ news[s] = <<>>
  /\ cancelled = {}

(***************************************************************************)
(* The driver.  d is a slot of it and o its modem's object.                *)
(***************************************************************************)
SwitchedAlready(o, on) == IF o.powered THEN o.online = on ELSE ~on

(* ofono_power_set answers at once when the slot is being switched, which  *)
(* is an error, or the modem is known to be in the state asked for.        *)
AtOnce(d, o, on) == d.power_set_pending \/ SwitchedAlready(o, on)

\* Mutant: the marker is set before it is known whether a call is made.
ofono_power_set_marks(d, o, on) ==
  IF d.power_set_pending THEN d
  ELSE [d EXCEPT !.power_set_pending = TRUE, !.power_target = on]

ofono_power_set(d, o, on) ==
  IF d.power_set_pending THEN d
  ELSE [d EXCEPT !.power_set_pending = ~SwitchedAlready(o, on), !.power_target = on]

FirstCalls(d, o, on, owner) ==
  IF AtOnce(d, o, on) THEN <<>>
  ELSE <<Call(IF o.powered THEN "Online" ELSE "Powered", on, owner)>>

(***************************************************************************)
(* The service.                                                            *)
(***************************************************************************)
retrieve_power_state(s) == IF stored[s] = "unset" THEN device ELSE stored[s] = "on"

\* Mutant: airplane mode is not asked.
effective_power_state_stored(airplane, s) == retrieve_power_state(s)

effective_power_state(airplane, s) == ~airplane /\ retrieve_power_state(s)

(* For the history only: slots for which the settings, when they are gone  *)
(* back to, say something else than was asked.                             *)
Overruled(airplane, slots) == ~airplane /\ \E s \in slots : retrieve_power_state(s) # asked[s]

Fresh == 1 + Cardinality({r \in 1..MaxRequests : req[r].kind # "none"})

Made(kind, pending, failed) ==
  [kind |-> kind, pending |-> pending, failed |-> failed,
   answers |-> IF pending = 0 THEN 1 ELSE 0]

MayFail == faults < MaxFaults /\ faults' = faults + 1

(* power_off_pending, set before the driver is called and cleared by an    *)
(* answer, also by one given at once.                                      *)
power_off_pending(d, o, on) == ~on /\ ~AtOnce(d, o, on)

power_set_refused ==
  /\ Fresh <= MaxRequests
  /\ \E s \in Slot, on \in BOOLEAN :
       /\ ~sim[s].there \/ ~sim[s].initialized \/ (on /\ airplane_mode)
       /\ req' = [req EXCEPT ![Fresh] = Made("power", 0, TRUE)]
  /\ UNCHANGED <<settings, copies, radio, bus, history, faults>>

(* saves is what of "save" reaches the settings, which is best effort: the *)
(* slot's state, and the device wide one for the default for calls.        *)
power_set ==
  /\ Fresh <= MaxRequests
  /\ \E s \in Slot, on \in BOOLEAN, saves \in SUBSET {"slot", "device"} :
       /\ sim[s].there /\ sim[s].initialized /\ ~(on /\ airplane_mode)
       /\ "device" \in saves => s = DefaultVoice
       /\ LET word == IF on THEN "on" ELSE "off"
              once == AtOnce(od[s], mdm[s], on)
          IN  /\ stored' = IF "slot" \in saves THEN [stored EXCEPT ![s] = word] ELSE stored
              /\ device' = IF "device" \in saves THEN on ELSE device
              /\ req' = [req EXCEPT ![Fresh] = Made("power", IF once THEN 0 ELSE 1,
                                                    od[s].power_set_pending)]
              /\ sim' = [sim EXCEPT ![s].power_off_pending = power_off_pending(od[s], mdm[s], on)]
              /\ od' = [od EXCEPT ![s] = ofono_power_set(od[s], mdm[s], on)]
              /\ toModem' = [toModem EXCEPT ![s] = @ \o FirstCalls(od[s], mdm[s], on, Fresh)]
              /\ asked' = [asked EXCEPT ![s] = on] /\ expected' = [expected EXCEPT ![s] = on]
  /\ patient' = (patient /\ Still)
  /\ UNCHANGED <<stored_airplane, airplane_mode, mdm, radio, news, cancelled, overruled, faults>>

airplane_mode_not_stored ==
  /\ Fresh <= MaxRequests /\ MayFail
  /\ req' = [req EXCEPT ![Fresh] = Made("airplane", 0, TRUE)]
  /\ UNCHANGED <<settings, copies, radio, bus, history>>

(* The slots that are not as they should be with the new flag.             *)
ToSwitch(airplane) ==
  {s \in Slot : sim[s].initialized /\ sim[s].powered # effective_power_state(airplane, s)}

(* How many slots will answer later: the count is held while the calls are *)
(* made.                                                                   *)
AnswersDue(slots, on) == Cardinality({s \in slots : ~AtOnce(od[s], mdm[s], on[s])})

airplane_mode_set ==
  /\ Fresh <= MaxRequests
  /\ \E airplane \in BOOLEAN :
       LET wanted == [s \in Slot |-> effective_power_state(airplane, s)]
           slots  == ToSwitch(airplane)
       IN  /\ stored_airplane' = airplane /\ airplane_mode' = airplane
           /\ req' = [req EXCEPT ![Fresh] =
                        Made(IF airplane THEN "airplane" ELSE "ground", AnswersDue(slots, wanted),
                             \E s \in slots : od[s].power_set_pending)]
           /\ sim' = [s \in Slot |->
                        IF s \in slots
                        THEN [sim[s] EXCEPT !.power_off_pending =
                                 power_off_pending(od[s], mdm[s], wanted[s])]
                        ELSE sim[s]]
           /\ od' = [s \in Slot |-> IF s \in slots THEN ofono_power_set(od[s], mdm[s], wanted[s])
                                    ELSE od[s]]
           /\ toModem' = [s \in Slot |->
                            IF s \in slots
                            THEN toModem[s] \o FirstCalls(od[s], mdm[s], wanted[s], Fresh)
                            ELSE toModem[s]]
           /\ expected' = [s \in Slot |-> sim[s].initialized /\ ~airplane /\ asked[s]]
           /\ overruled' = (overruled \/ Overruled(airplane, {s \in Slot : sim[s].initialized}))
  /\ patient' = (patient /\ Still)
  /\ UNCHANGED <<stored, device, mdm, radio, news, cancelled, asked, faults>>

\* Mutant: an error is answered at once, whatever else is still to come.
Finish_error(s, owner, ok) ==
  IF owner = Nobody
  THEN UNCHANGED <<sim, req>>
  ELSE /\ req' = [req EXCEPT ![owner].pending = @ - 1,
                             ![owner].failed = @ \/ ~ok,
                             ![owner].answers = @ + (IF req[owner].pending = 1 \/ ~ok THEN 1 ELSE 0)]
       /\ sim' = [sim EXCEPT ![s].power_off_pending = FALSE]

(* A slot of request r has answered: the last one answers the request.     *)
HasAnswered(r, ok) ==
  [kind |-> r.kind, pending |-> r.pending - 1, failed |-> r.failed \/ ~ok,
   answers |-> r.answers + (IF r.pending = 1 THEN 1 ELSE 0)]

(* The callback a request gave the driver is called; the one of            *)
(* configure_sim does nothing.                                             *)
Finish(s, owner, ok) ==
  IF owner = Nobody
  THEN UNCHANGED <<sim, req>>
  ELSE /\ req' = [req EXCEPT ![owner] = HasAnswered(@, ok)]
       /\ sim' = [sim EXCEPT ![s].power_off_pending = FALSE]

Reaches(s, kind) ==
  news[s] # <<>> /\ Head(news[s]).kind = kind /\ news' = [news EXCEPT ![s] = Tail(@)]

set_online_cb ==
  /\ \E s \in Slot :
       /\ Reaches(s, "OnlineReply")
       /\ od' = [od EXCEPT ![s].power_set_pending = FALSE]
       /\ Finish(s, Head(news[s]).owner, Head(news[s]).value)
  /\ UNCHANGED <<settings, airplane_mode, mdm, radio, toModem, cancelled, history, faults>>

(* A modem that has power now is put online, if that is what was asked for *)
(* and it is not online yet.                                               *)
set_powered_cb ==
  /\ \E s \in Slot :
       /\ Reaches(s, "PoweredReply")
       /\ LET m == Head(news[s])
          IN  /\ IF m.value /\ od[s].power_target /\ ~mdm[s].online
                 THEN /\ toModem' = [toModem EXCEPT ![s] = Append(@, Call("Online", TRUE, m.owner))]
                      /\ UNCHANGED <<od, sim, req>>
                 ELSE /\ od' = [od EXCEPT ![s].power_set_pending = FALSE]
                      /\ Finish(s, m.owner, m.value)
                      /\ UNCHANGED toModem
  /\ UNCHANGED <<settings, airplane_mode, mdm, radio, cancelled, history, faults>>

(* A call is cancelled with the modem's object: the slot is gone.          *)
CallCancelled ==
  /\ \E c \in cancelled :
       /\ cancelled' = cancelled \ {c}
       /\ req' = IF c.owner = Nobody THEN req ELSE [req EXCEPT ![c.owner] = HasAnswered(@, FALSE)]
  /\ UNCHANGED <<settings, copies, radio, toModem, news, history, faults>>

(***************************************************************************)
(* modem_prop_changed_cb.  Whatever changed, notify_sim_info comes last    *)
(* and leaves the service with the conjunction of the two.                 *)
(***************************************************************************)
TellsPower(s) == Reaches(s, "Powered") \/ Reaches(s, "Properties")

(* The object when the handler of Powered runs: GetProperties gives Online *)
(* before Powered.                                                         *)
ObjectAfter(s) ==
  LET m == Head(news[s])
  IN  IF m.kind = "Properties" THEN m.value ELSE [mdm[s] EXCEPT !.powered = m.value]

online_changed ==
  /\ \E s \in Slot :
       /\ Reaches(s, "Online")
       /\ mdm' = [mdm EXCEPT ![s].online = Head(news[s]).value]
       /\ sim' = [sim EXCEPT ![s].powered = mdm'[s].powered /\ mdm'[s].online]
  /\ UNCHANGED <<settings, airplane_mode, od, radio, toModem, cancelled, req, history, faults>>

(* The first time a slot's modem has power the slot is configured and      *)
(* becomes available.                                                      *)
powered_arrives ==
  /\ \E s \in Slot :
       /\ TellsPower(s)
       /\ LET o  == ObjectAfter(s)
              up == od[s].initializing /\ o.powered
              on == effective_power_state(airplane_mode, s)
          IN  /\ mdm' = [mdm EXCEPT ![s] = o]
              /\ sim' = [sim EXCEPT ![s].powered = o.powered /\ o.online,
                                    ![s].initialized = @ \/ up]
              /\ IF up
                 THEN /\ od' = [od EXCEPT ![s] = [ofono_power_set(@, o, on)
                                                    EXCEPT !.initializing = FALSE]]
                      /\ toModem' = [toModem EXCEPT ![s] = @ \o FirstCalls(od[s], o, on, Nobody)]
                      /\ expected' = [expected EXCEPT ![s] = ~airplane_mode /\ asked[s]]
                      /\ overruled' = (overruled \/ Overruled(airplane_mode, {s}))
                 ELSE UNCHANGED <<od, toModem, expected, overruled>>
  /\ UNCHANGED <<settings, airplane_mode, radio, cancelled, req, asked, patient, faults>>

(***************************************************************************)
(* The slots come and go with ofono and with the daemon.                   *)
(***************************************************************************)
(* The modems are found and their properties asked for.                    *)
SlotsCome ==
  /\ cancelled = {}
  /\ \A s \in Slot : ~sim[s].there
  /\ sim' = [s \in Slot |-> [NoSim EXCEPT !.there = TRUE]]
  /\ od' = [s \in Slot |-> [NoOd EXCEPT !.initializing = TRUE]]
  /\ mdm' = [s \in Slot |-> Off]
  /\ toModem' = [s \in Slot |-> Append(toModem[s], GetPowerState)]
  /\ UNCHANGED <<settings, airplane_mode, radio, news, cancelled, req, history, faults>>

CallsOf(s) ==
  {[slot |-> s, owner |-> toModem[s][i].owner] : i \in DOMAIN toModem[s]} \cup
  {[slot |-> s, owner |-> news[s][i].owner] :
      i \in {j \in DOMAIN news[s] : news[s][j].kind \in {"OnlineReply", "PoweredReply"}}}

OfonoExits ==
  /\ MayFail
  /\ \A s \in Slot : sim[s].there
  /\ sim' = [s \in Slot |-> NoSim] /\ od' = [s \in Slot |-> NoOd] /\ mdm' = [s \in Slot |-> Off]
  /\ radio' \in [Slot -> ModemStates]
  /\ toModem' = [s \in Slot |-> <<>>] /\ news' = [s \in Slot |-> <<>>]
  /\ cancelled' = cancelled \cup UNION {CallsOf(s) : s \in Slot}
  /\ expected' = [s \in Slot |-> FALSE]
  /\ patient' = (patient /\ Still)
  /\ UNCHANGED <<settings, airplane_mode, req, asked, overruled>>

(* The calls that have gone out reach the modem, their replies nobody; the *)
(* requests still open are not answered any more.                          *)
DaemonDies ==
  /\ MayFail
  /\ airplane_mode' = stored_airplane
  /\ sim' = [s \in Slot |-> NoSim] /\ od' = [s \in Slot |-> NoOd] /\ mdm' = [s \in Slot |-> Off]
  /\ toModem' = [s \in Slot |-> [i \in DOMAIN toModem[s] |->
                                   [toModem[s][i] EXCEPT !.owner = Nobody, !.lost = TRUE]]]
  /\ news' = [s \in Slot |-> <<>>] /\ cancelled' = {}
  /\ req' = [r \in DOMAIN req |-> IF req[r].pending > 0
                                  THEN [req[r] EXCEPT !.kind = "lost", !.pending = 0] ELSE req[r]]
  /\ expected' = [s \in Slot |-> FALSE]
  /\ patient' = (patient /\ Still)
  /\ UNCHANGED <<settings, radio, asked, overruled>>

(***************************************************************************)
(* ofono and the modems: external.                                         *)
(***************************************************************************)
Tidings(kind, v, owner) == [kind |-> kind, value |-> v, owner |-> owner]

Say(s, messages) == news' = IF sim[s].there THEN [news EXCEPT ![s] = @ \o messages] ELSE news

Reply(c, ok) ==
  IF c.lost THEN <<>>
  ELSE <<Tidings(IF c.kind = "Online" THEN "OnlineReply" ELSE "PoweredReply", ok, c.owner)>>

(* A call carried out: ofono replies, and tells the change, in either order. *)
Done(s, c, changed) ==
  LET signal == IF changed THEN <<Tidings(c.kind, c.value, Nobody)>> ELSE <<>>
  IN  Say(s, Reply(c, TRUE) \o signal) \/ Say(s, signal \o Reply(c, TRUE))

Handles(s, c) ==
  \/ /\ c.kind = "get"
     /\ Say(s, IF c.lost THEN <<>> ELSE <<Tidings("Properties", radio[s], Nobody)>>)
     /\ UNCHANGED <<radio, patient, faults>>
  \/ /\ c.kind # "get"
     /\ \/ c.kind = "Online" /\ c.value /\ ~radio[s].powered /\ UNCHANGED faults
        \/ MayFail
     /\ Say(s, Reply(c, FALSE))
     /\ patient' = FALSE
     /\ UNCHANGED radio
  \/ /\ c.kind = "Powered"
     /\ radio' = [radio EXCEPT ![s].powered = TRUE]
     /\ Done(s, c, ~radio[s].powered)
     /\ UNCHANGED <<patient, faults>>
  \/ /\ c.kind = "Online" /\ (c.value => radio[s].powered)
     /\ radio' = [radio EXCEPT ![s].online = c.value]
     /\ Done(s, c, radio[s].online # c.value)
     /\ UNCHANGED <<patient, faults>>

OfonoHandles ==
  /\ \E s \in Slot :
       /\ toModem[s] # <<>>
       /\ toModem' = [toModem EXCEPT ![s] = Tail(@)]
       /\ Handles(s, Head(toModem[s]))
  /\ UNCHANGED <<settings, copies, cancelled, req, asked, expected, overruled>>

RadioPowers ==
  /\ \E s \in Slot :
       /\ ~radio[s].powered
       /\ radio' = [radio EXCEPT ![s].powered = TRUE]
       /\ Say(s, <<Tidings("Powered", TRUE, Nobody)>>)
  /\ UNCHANGED <<settings, copies, toModem, cancelled, req, history, faults>>

RadioLosesPower ==
  /\ MayFail
  /\ \E s \in Slot :
       /\ radio[s].powered
       /\ radio' = [radio EXCEPT ![s] = Off]
       /\ Say(s, (IF radio[s].online THEN <<Tidings("Online", FALSE, Nobody)>> ELSE <<>>)
                 \o <<Tidings("Powered", FALSE, Nobody)>>)
       /\ expected' = [expected EXCEPT ![s] = FALSE]
  /\ patient' = (patient /\ Still)
  /\ UNCHANGED <<settings, copies, toModem, cancelled, req, asked, overruled>>

Requests == power_set \/ power_set_refused \/ airplane_mode_set \/ airplane_mode_not_stored

Handlers ==
  set_online_cb \/ set_powered_cb \/ CallCancelled \/ online_changed \/ powered_arrives

PowerNext ==
  \/ Requests \/ Handlers
  \/ SlotsCome \/ OfonoExits \/ DaemonDies
  \/ OfonoHandles \/ RadioPowers \/ RadioLosesPower

PowerSpec == PowerInit /\ [][PowerNext]_powerVars

(* A start out of airplane mode with all radios on.                        *)
GroundSpec ==
  PowerInit /\ ~airplane_mode /\ (\A s \in Slot : radio[s].online) /\ [][PowerNext]_powerVars

-----------------------------------------------------------------------------
(* Every variable keeps its type.                                          *)
PowerTypeOK ==
  /\ stored \in [Slot -> {"unset", "on", "off"}]
  /\ device \in BOOLEAN /\ stored_airplane \in BOOLEAN
  /\ airplane_mode \in BOOLEAN /\ {patient, overruled} \subseteq BOOLEAN
  /\ sim \in [Slot -> [there: BOOLEAN, initialized: BOOLEAN, powered: BOOLEAN,
                       power_off_pending: BOOLEAN]]
  /\ od \in [Slot -> [initializing: BOOLEAN, power_set_pending: BOOLEAN, power_target: BOOLEAN]]
  /\ mdm \in [Slot -> [powered: BOOLEAN, online: BOOLEAN]]
  /\ radio \in [Slot -> ModemStates]
  /\ \A r \in DOMAIN req : req[r].pending \in 0..Cardinality(Slot)
  /\ expected \in [Slot -> BOOLEAN] /\ asked \in [Slot -> BOOLEAN]

(* Each request is answered once, when the last of its slots has answered  *)
(* and not before: the answer frees what the other slots' callbacks use.   *)
AnsweredOnce ==
  \A r \in DOMAIN req :
    req[r].answers = IF req[r].pending = 0 /\ req[r].kind \notin {"none", "lost"} THEN 1 ELSE 0

(* No slot stays locked or muted: with nothing under way no slot refuses   *)
(* to be switched, none swallows what its network reports, and no request  *)
(* still waits for an answer.                                              *)
NothingSticks ==
  Still =>
    /\ \A s \in Slot : ~od[s].power_set_pending /\ ~sim[s].power_off_pending
    /\ \A r \in DOMAIN req : req[r].pending = 0

(* For a user who waits, and an ofono that does not fail, the radio of     *)
(* each slot is off in airplane mode, and else as powerSet last asked,     *)
(* also after airplane mode and after a restart, as long as the settings   *)
(* were gone back to only where they say what was asked.                   *)
PatientIsObeyed ==
  patient /\ ~overruled /\ Still =>
    \A s \in Slot : sim[s].initialized => radio[s].online = expected[s]

(* What was asked is in the settings: a slot's own state, if it has been   *)
(* switched at all.                                                        *)
Saved(s) == IF asked[s] THEN stored[s] # "off" ELSE stored[s] = "off"

(* "turning airplane mode off restores exactly the slots which were on     *)
(* beforehand": for a user who waits and has all saved, the radio of each  *)
(* slot is as asked when airplane mode has been switched on and off again. *)
AirplaneOffRestores ==
  /\ patient /\ Still /\ \A s \in Slot : Saved(s)
  /\ Fresh > 2 /\ req[Fresh - 2].kind = "airplane" /\ req[Fresh - 1].kind = "ground"
  => \A s \in Slot : sim[s].initialized => radio[s].online = asked[s]

(* "a modem is online only when its own stored state says so AND this is   *)
(* off": with airplane mode on and its request answered with success, no   *)
(* radio is on, however the request came.                                  *)
AirplaneMeansOffline ==
  Still /\ airplane_mode /\ (\A r \in DOMAIN req : ~req[r].failed) =>
    \A s \in Slot : sim[s].initialized => ~radio[s].online
=============================================================================
