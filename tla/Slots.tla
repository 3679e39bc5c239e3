------------------------------- MODULE Slots -------------------------------
(***************************************************************************)
(* How ofono's modems become the service's SIM slots: the list of modems   *)
(* (ofonomanager.c), the driver's slots rebuilt from it (telephony.c), and *)
(* the slots of the service that the driver announces                      *)
(* (telephonyservice.c).  ofono and the modems are the environment; what   *)
(* it sends arrives in the order sent.  A modem is the number in its path. *)
(***************************************************************************)
EXTENDS Integers, Sequences, FiniteSets, SequencesExt

CONSTANTS
  MaxModem,     (* modems are 0..MaxModem, fewer than TELEPHONY_MAX_SIMS   *)
  MaxGone,      (* bound: times a modem goes away or loses its power       *)
  MaxDeaths,    (* bound: times ofono dies                                 *)
  MaxWire       (* bound: messages in transit when a modem changes         *)

ASSUME SlotsAssumption ==
  /\ MaxModem \in 0..7
  /\ {MaxGone, MaxDeaths, MaxWire} \subseteq Nat

VARIABLES
  manager,      (* ofono_manager is there                                  *)
  modems,       (* its list                                                *)
  obj,          (* the ofono_modem object of each path                     *)
  sims,         (* the driver's slots                                      *)
  svc,          (* initialized, for each slot of the service               *)
  configured,   (* modems that configure_sim has been run for              *)
  ofono,        (* ofono is on the bus                                     *)
  modem,        (* modem[p]: absent, off, or on                            *)
  wire, reqs,   (* what is on its way from and to ofono                    *)
  orderly,      (* history: modems came in the order of their paths and    *)
                (* went in the opposite one, each when the last had been   *)
                (* dealt with                                              *)
  gen, gone, deaths

daemon == <<manager, modems, obj, sims, svc, configured>>
world  == <<ofono, modem, orderly, gone, deaths>>
slotsVars == <<daemon, world, wire, reqs, gen>>

Modem == 0..MaxModem
NoObject == [there |-> FALSE, gen |-> 0, powered |-> FALSE, interfaces |-> FALSE, handler |-> 0]
NewObject(g) == [NoObject EXCEPT !.there = TRUE, !.gen = g]

Message(kind, p, g, v) == [kind |-> kind, modem |-> p, gen |-> g, value |-> v]

SlotsInit ==
  /\ manager = FALSE /\ modems = <<>> /\ obj = [p \in Modem |-> NoObject]
  /\ sims = <<>> /\ svc = <<>> /\ configured = {}
  /\ ofono = FALSE /\ modem \in [Modem -> {"absent", "off", "on"}]
  /\ orderly = \A p \in Modem : modem[p] # "absent" => \A q \in 0..p : modem[q] # "absent"
  /\ wire = <<>> /\ reqs = <<>>
  /\ gen = 1 /\ gone = 0 /\ deaths = 0

(***************************************************************************)
(* The list of modems, ofonomanager.c.                                     *)
(***************************************************************************)
Position(list, p) == CHOOSE n \in DOMAIN list : list[n] = p

(* A set of modems in the order of their paths.                            *)
InOrder(S) ==
  [n \in 1..Cardinality(S) |-> CHOOSE p \in S : Cardinality({q \in S : q < p}) = n - 1]

(* g_list_insert_sorted with compare_modem_path, for each of a set of      *)
(* modems that are not on the list.                                        *)
insert_sorted(list, new) == InOrder(ToSet(list) \cup new)

(* Every slot is made again from the list, except those whose modem is the *)
(* one they had; the slots that are left over go, and the service follows. *)
KeepsModem(n, list) == n \in DOMAIN sims /\ sims[n].modem = list[n]

slots_for(list) ==
  [n \in DOMAIN list |->
     IF KeepsModem(n, list)
     THEN sims[n]
     ELSE [modem |-> list[n], initializing |-> TRUE, interfaces |-> FALSE]]

(* availability_changed and sim_count_changed: what is left is as before.  *)
service_for(n) == [k \in 1..n |-> IF k \in DOMAIN svc THEN svc[k] ELSE FALSE]

\* Mutant: the handler is registered once, for the first slot of a modem.
modems_changed_cb_registers_once(list, objects) ==
  /\ modems' = list
  /\ sims' = slots_for(list)
  /\ svc' = service_for(Len(list))
  /\ obj' = [p \in Modem |->
               IF objects[p].handler = 0 /\ \E n \in DOMAIN list : list[n] = p
               THEN [objects[p] EXCEPT !.handler = Position(list, p)]
               ELSE objects[p]]
  /\ configured' = {p \in configured : objects[p].there}

(* objects is obj with the change that led to this.                        *)
modems_changed_cb(list, objects) ==
  /\ modems' = list
  /\ sims' = slots_for(list)
  /\ svc' = service_for(Len(list))
  /\ obj' = [p \in Modem |->
               IF \E n \in DOMAIN list : list[n] = p /\ ~KeepsModem(n, list)
               THEN [objects[p] EXCEPT !.handler = Position(list, p)]
               ELSE objects[p]]
  /\ configured' = {p \in configured : objects[p].there}

Arrives(kind) == wire # <<>> /\ Head(wire).kind = kind /\ wire' = Tail(wire)

GetModems == [kind |-> "GetModems", modem |-> 0, gen |-> 0]
GetProperties(p, g) == [kind |-> "GetProperties", modem |-> p, gen |-> g]

(* ofono_manager_create subscribes and asks for the list.                  *)
service_appeared_cb ==
  /\ Arrives("appeared")
  /\ IF manager
     THEN UNCHANGED <<manager, reqs>>
     ELSE /\ manager' = TRUE
          /\ reqs' = IF ofono THEN Append(reqs, GetModems) ELSE reqs
  /\ UNCHANGED <<modems, obj, sims, svc, configured, world, gen>>

\* Mutant: the service keeps its slots when ofono goes.
service_vanished_cb_keeps ==
  /\ Arrives("vanished")
  /\ manager' = FALSE /\ modems' = <<>> /\ obj' = [p \in Modem |-> NoObject]
  /\ sims' = <<>> /\ svc' = svc /\ configured' = {}
  /\ UNCHANGED <<world, reqs, gen>>

service_vanished_cb ==
  /\ Arrives("vanished")
  /\ manager' = FALSE /\ modems' = <<>> /\ obj' = [p \in Modem |-> NoObject]
  /\ sims' = <<>> /\ svc' = service_for(0) /\ configured' = {}
  /\ UNCHANGED <<world, reqs, gen>>

(* A modem not yet on the list gets an object, which asks for its          *)
(* properties; its place in the list is that of its path.                  *)
Ask(paths) == IF ofono THEN reqs \o [k \in DOMAIN paths |-> GetProperties(paths[k], gen + k - 1)]
              ELSE reqs

modem_added_cb ==
  /\ Arrives("ModemAdded")
  /\ LET p == Head(wire).modem
     IN  IF ~manager \/ p \in ToSet(modems)
         THEN UNCHANGED <<modems, obj, sims, svc, configured, reqs, gen>>
         ELSE /\ gen' = gen + 1
              /\ reqs' = Ask(<<p>>)
              /\ modems_changed_cb(insert_sorted(modems, {p}),
                                   [obj EXCEPT ![p] = NewObject(gen)])
  /\ UNCHANGED <<manager, world>>

\* Mutant: the list forgets nothing.
modem_removed_cb_keeps ==
  /\ Arrives("ModemRemoved")
  /\ UNCHANGED <<modems, obj, sims, svc, configured>>
  /\ UNCHANGED <<manager, world, reqs, gen>>

modem_removed_cb ==
  /\ Arrives("ModemRemoved")
  /\ LET p == Head(wire).modem
     IN  IF ~manager \/ p \notin ToSet(modems)
         THEN UNCHANGED <<modems, obj, sims, svc, configured>>
         ELSE modems_changed_cb(RemoveAt(modems, Position(modems, p)),
                                [obj EXCEPT ![p] = NoObject])
  /\ UNCHANGED <<manager, world, reqs, gen>>

(* value is the set of modems ofono listed.                                *)
get_modems_cb ==
  /\ Arrives("Modems")
  /\ IF ~manager
     THEN UNCHANGED <<modems, obj, sims, svc, configured, reqs, gen>>
     ELSE LET new == Head(wire).value \ ToSet(modems)
          IN  /\ gen' = gen + Cardinality(new)
              /\ reqs' = Ask(InOrder(new))
              /\ modems_changed_cb(insert_sorted(modems, new),
                   [p \in Modem |-> IF p \in new
                                    THEN NewObject(gen - 1 + Position(InOrder(new), p))
                                    ELSE obj[p]])
  /\ UNCHANGED <<manager, world>>

(***************************************************************************)
(* The properties of a modem, and the driver's modem_prop_changed_cb.      *)
(***************************************************************************)
(* telephony_service_availability_changed_notify.                          *)
availability_changed(n, available) ==
  /\ configured' = IF available /\ ~svc[n] THEN configured \cup {sims[n].modem} ELSE configured
  /\ svc' = [svc EXCEPT ![n] = available]

(* The handler is run for the slot that registered it last, after the      *)
(* object has taken over the property: Powered may bring the slot up, and  *)
(* Interfaces makes and frees what the slot has of its modem.              *)
PropertiesChanged(p, o, changed) ==
  /\ obj' = [obj EXCEPT ![p] = o]
  /\ LET n == o.handler
     IN  IF n = 0 \/ n \notin DOMAIN sims
         THEN UNCHANGED <<sims, svc, configured>>
         ELSE LET up == "Powered" \in changed /\ sims[n].initializing /\ o.powered
                  i  == IF "Interfaces" \in changed THEN o.interfaces ELSE sims[n].interfaces
              IN  /\ sims' = [sims EXCEPT ![n].interfaces = i, ![n].initializing = @ /\ ~up]
                  /\ IF up THEN availability_changed(n, TRUE) ELSE UNCHANGED <<svc, configured>>

get_properties_cb ==
  /\ Arrives("Properties")
  /\ LET m == Head(wire)
     IN  IF obj[m.modem].there /\ obj[m.modem].gen = m.gen
         THEN PropertiesChanged(m.modem, [obj[m.modem] EXCEPT !.powered = m.value,
                                                              !.interfaces = m.value],
                                {"Powered", "Interfaces"})
         ELSE UNCHANGED <<obj, sims, svc, configured>>
  /\ UNCHANGED <<manager, modems, world, reqs, gen>>

powered_changed ==
  /\ Arrives("Powered")
  /\ LET m == Head(wire)
     IN  IF obj[m.modem].there
         THEN PropertiesChanged(m.modem, [obj[m.modem] EXCEPT !.powered = m.value], {"Powered"})
         ELSE UNCHANGED <<obj, sims, svc, configured>>
  /\ UNCHANGED <<manager, modems, world, reqs, gen>>

interfaces_changed ==
  /\ Arrives("Interfaces")
  /\ LET m == Head(wire)
     IN  IF obj[m.modem].there
         THEN PropertiesChanged(m.modem, [obj[m.modem] EXCEPT !.interfaces = m.value], {"Interfaces"})
         ELSE UNCHANGED <<obj, sims, svc, configured>>
  /\ UNCHANGED <<manager, modems, world, reqs, gen>>

(***************************************************************************)
(* ofono and the modems: external.                                         *)
(***************************************************************************)
Present == {p \in Modem : modem[p] # "absent"}

OfonoStarts ==
  /\ ~ofono /\ ofono' = TRUE
  /\ wire' = Append(wire, Message("appeared", 0, 0, FALSE))
  /\ UNCHANGED <<daemon, modem, orderly, gone, deaths, reqs, gen>>

OfonoDies ==
  /\ ofono /\ deaths < MaxDeaths
  /\ ofono' = FALSE /\ deaths' = deaths + 1
  /\ reqs' = <<>>
  /\ wire' = Append(wire, Message("vanished", 0, 0, FALSE))
  /\ UNCHANGED <<daemon, modem, orderly, gone, gen>>

OfonoReplies ==
  /\ ofono /\ reqs # <<>>
  /\ reqs' = Tail(reqs)
  /\ LET r == Head(reqs)
     IN  wire' = IF r.kind = "GetModems"
                 THEN Append(wire, Message("Modems", 0, 0, Present))
                 ELSE IF modem[r.modem] = "absent" THEN wire   \* an error: logged
                 ELSE Append(wire, Message("Properties", r.modem, r.gen, modem[r.modem] = "on"))
  /\ UNCHANGED <<daemon, world, gen>>

Busy == ofono /\ (wire # <<>> \/ reqs # <<>>)

Says(messages) == wire' = IF ofono THEN wire \o messages ELSE wire

ModemAppears ==
  /\ Len(wire) < MaxWire
  /\ \E p \in Modem, to \in {"off", "on"} :
       /\ modem[p] = "absent"
       /\ orderly' = (orderly /\ ~Busy /\ \A q \in 0..(p - 1) : modem[q] # "absent")
       /\ modem' = [modem EXCEPT ![p] = to]
       /\ Says(<<Message("ModemAdded", p, 0, FALSE)>>)
  /\ UNCHANGED <<daemon, ofono, gone, deaths, reqs, gen>>

ModemDisappears ==
  /\ Len(wire) < MaxWire /\ gone < MaxGone /\ gone' = gone + 1
  /\ \E p \in Present :
       /\ orderly' = (orderly /\ ~Busy /\ \A q \in Present : q <= p)
       /\ modem' = [modem EXCEPT ![p] = "absent"]
       /\ Says(<<Message("ModemRemoved", p, 0, FALSE)>>)
  /\ UNCHANGED <<daemon, ofono, deaths, reqs, gen>>

ModemPowers ==
  /\ Len(wire) < MaxWire
  /\ \E p \in Modem :
       /\ modem[p] = "off" /\ modem' = [modem EXCEPT ![p] = "on"]
       /\ Says(<<Message("Powered", p, 0, TRUE), Message("Interfaces", p, 0, TRUE)>>)
  /\ UNCHANGED <<daemon, ofono, orderly, gone, deaths, reqs, gen>>

ModemLosesPower ==
  /\ Len(wire) < MaxWire /\ gone < MaxGone /\ gone' = gone + 1
  /\ \E p \in Modem :
       /\ modem[p] = "on" /\ modem' = [modem EXCEPT ![p] = "off"]
       /\ Says(<<Message("Interfaces", p, 0, FALSE), Message("Powered", p, 0, FALSE)>>)
  /\ UNCHANGED <<daemon, ofono, orderly, deaths, reqs, gen>>

SlotsNext ==
  \/ service_appeared_cb \/ service_vanished_cb
  \/ modem_added_cb \/ modem_removed_cb \/ get_modems_cb
  \/ get_properties_cb \/ powered_changed \/ interfaces_changed
  \/ OfonoStarts \/ OfonoDies \/ OfonoReplies
  \/ ModemAppears \/ ModemDisappears \/ ModemPowers \/ ModemLosesPower

SlotsSpec == SlotsInit /\ [][SlotsNext]_slotsVars

-----------------------------------------------------------------------------
(* Every variable keeps its type.                                          *)
SlotsTypeOK ==
  /\ manager \in BOOLEAN /\ modems \in Seq(Modem)
  /\ obj \in [Modem -> [there: BOOLEAN, gen: Nat, powered: BOOLEAN, interfaces: BOOLEAN,
                        handler: 0..(MaxModem + 1)]]
  /\ sims \in Seq([modem: Modem, initializing: BOOLEAN, interfaces: BOOLEAN])
  /\ svc \in Seq(BOOLEAN) /\ configured \subseteq Modem
  /\ ofono \in BOOLEAN /\ modem \in [Modem -> {"absent", "off", "on"}]

Quiet == ofono /\ wire = <<>> /\ reqs = <<>>

(* "A slot index has to mean the same thing on every boot": slot N is the  *)
(* Nth modem in the order of the paths, whatever order they came in; the   *)
(* service has the slots the driver has; and a property of a modem is      *)
(* handled for the slot the modem is in, never for one that was freed.     *)
SlotsFollowModems ==
  /\ \A m, n \in DOMAIN sims : m < n => sims[m].modem < sims[n].modem
  /\ Len(svc) = Len(sims)
  /\ \A p \in Modem : obj[p].there =>
       obj[p].handler \in DOMAIN sims /\ sims[obj[p].handler].modem = p

(* No modem is missed or kept, however ModemAdded, ModemRemoved, GetModems *)
(* and ofono's restarts cross; nor is a property of one: once all is said  *)
(* the objects know what ofono knows.                                      *)
NoModemMissed ==
  Quiet => /\ ToSet(modems) = Present
           /\ \A p \in Present : obj[p].powered <=> modem[p] = "on"

(* "everything else is torn down and set up again": a slot whose modem has *)
(* power becomes available, with its interfaces and its power state ...    *)
EverySlotComesUp ==
  Quiet => \A n \in DOMAIN sims : modem[sims[n].modem] = "on" =>
    ~sims[n].initializing /\ svc[n] /\ sims[n].interfaces /\ sims[n].modem \in configured

(* ... which holds as long as no modem has to move to another slot.        *)
UnmovedSlotsComeUp == orderly => EverySlotComesUp
=============================================================================
