------------------------------- MODULE WanSet -------------------------------
(***************************************************************************)
(* com.palm.wan/set (wanservice.c) and what it drives: the chain of calls  *)
(* a request makes, to ConnMan for disablewan and to ofono for the roam    *)
(* guard, and the cellular service of ConnMan those calls go to (wan.c).   *)
(* WanStatus has the rest of wan.c; all this module needs of it is whether *)
(* there is a connection manager and what it says of roaming.              *)
(***************************************************************************)
EXTENDS WanData

CONSTANTS
  Set,            (* the requests of clients                               *)
  Setup,          (* the first connections of a new cellular service; as   *)
                  (* many at a time as there are of these                  *)
  Path,           (* the cellular services of ConnMan                      *)
  NoPath,
  ConnManAborts,  (* a call on a service fails when the service is removed *)
  ProxiesFail,    (* the proxy of a service may not be created             *)
  MaxRestarts,    (* bound: times ConnMan gets its bus name                *)
  MaxNews         (* bound: changes of the service list, of a service and  *)
                  (* of the connection manager                             *)

ASSUME WanSetAssumption ==
  /\ Set \cap Setup = {} /\ NoPath \notin Path
  /\ {ConnManAborts, ProxiesFail} \subseteq BOOLEAN /\ {MaxRestarts, MaxNews} \subseteq Nat

VARIABLES
  path,           (* current_service_path                                  *)
  heard,          (* services whose proxies are connected to the daemon    *)
  proxy,          (* connman_manager_proxy is there                        *)
  creating,       (* proxies of the manager being created                  *)
  asked,          (* GetServices calls in flight                           *)
  roaming_allowed,  (* what the connection manager says of roaming, or     *)
                  (* "none" without one                                    *)
  connman,        (* ConnMan is on the bus                                 *)
  req,            (* the requests                                          *)
  restarts, news

service == <<path, heard, wan_disabled>>
connman_manager == <<proxy, creating, asked>>
bounds  == <<restarts, news>>
wanSetVars == <<service, connman_manager, roaming_allowed, connman, req, bounds>>

Request == Set \cup Setup

(* A half of the configuration that is not in the request is "unset".  The *)
(* fields after it are history: wan_disabled and roaming_allowed as the    *)
(* request found them, the services that took its two calls, that another  *)
(* service was made the current one while the first, still there, had not  *)
(* answered, what ofono took, and whether all that is what was asked for.  *)
Fresh == [stage |-> "free", aborted |-> FALSE, answers |-> 0, result |-> "none",
          disablewan |-> "unset", roamguard |-> "unset",
          found |-> FALSE, guarded |-> "none", switched |-> NoPath, auto |-> NoPath,
          overtaken |-> FALSE, roaming |-> "none", kept |-> FALSE]

Kept(r) ==
  /\ r.disablewan # "unset" /\ (r.disablewan = "on") # r.found
       => /\ r.switched # NoPath /\ r.auto # NoPath
          /\ r.auto = r.switched \/ r.overtaken
  /\ r.roamguard # "unset"
       => \/ r.roaming = r.roamguard
          \/ r.guarded = IF r.roamguard = "enable" THEN "barred" ELSE "allowed"

WanSetInit ==
  /\ path = NoPath /\ heard = {} /\ wan_disabled = FALSE
  /\ proxy = FALSE /\ creating = 0 /\ asked = 0
  /\ roaming_allowed = "none" /\ connman = FALSE
  /\ req = [r \in Request |-> Fresh]
  /\ restarts = 0 /\ news = 0

(***************************************************************************)
(* The chain of a request.  Each operator gives the request as it is after *)
(* the step.                                                               *)
(***************************************************************************)
InFlight(r) == r.stage \in {"switch", "autoconnect", "roaming"}

(* Of a request that has been freed only the outcome is left.              *)
finish_set_configuration(r, result) ==
  [Fresh EXCEPT !.stage = "done", !.answers = r.answers + 1, !.result = result,
                !.kept = Kept(r)]

\* Mutant: the roam guard taken for its opposite.
apply_pending_roamguard_inverted(r) ==
  IF r.roamguard = "unset" THEN finish_set_configuration(r, "ok")
  ELSE IF roaming_allowed = "none" THEN finish_set_configuration(r, "error")
  ELSE IF (r.roamguard = "enable") = (roaming_allowed = "allowed")
  THEN finish_set_configuration([r EXCEPT !.guarded = roaming_allowed], "ok")
  ELSE [r EXCEPT !.stage = "roaming", !.guarded = roaming_allowed]

\* Mutant: nothing to do, nothing to say.
apply_pending_roamguard_quiet(r) ==
  IF r.roamguard = "unset" THEN finish_set_configuration(r, "ok")
  ELSE IF roaming_allowed = "none" THEN finish_set_configuration(r, "error")
  ELSE IF (r.roamguard = "enable") # (roaming_allowed = "allowed")
  THEN [r EXCEPT !.stage = "lost"]
  ELSE [r EXCEPT !.stage = "roaming", !.guarded = roaming_allowed]

apply_pending_roamguard(r) ==
  IF r.roamguard = "unset" THEN finish_set_configuration(r, "ok")
  ELSE IF roaming_allowed = "none" THEN finish_set_configuration(r, "error")
  ELSE IF (r.roamguard = "enable") # (roaming_allowed = "allowed")
  THEN finish_set_configuration([r EXCEPT !.guarded = roaming_allowed], "ok")
  ELSE [r EXCEPT !.stage = "roaming", !.guarded = roaming_allowed]

(* g_bus_get_sync fails, or the call is made.                              *)
switch_current_service_state(r, bus, p) ==
  IF bus THEN [r EXCEPT !.stage = "switch", !.switched = p]
  ELSE finish_set_configuration(r, "error")

Switches(r) == r.disablewan # "unset" /\ (r.disablewan = "on") # wan_disabled

(* Either half, both or none; anything but "on" and "enable" is the        *)
(* opposite.                                                               *)
Configuration == [disablewan: {"unset", "on", "off"}, roamguard: {"unset", "enable", "disable"}]

set_configuration(s) ==
  /\ req[s].stage = "free"
  /\ \E c \in Configuration, bus \in BOOLEAN :
       LET r == [Fresh EXCEPT !.disablewan = c.disablewan, !.roamguard = c.roamguard,
                              !.found = wan_disabled]
       IN  req' = [req EXCEPT ![s] =
             IF ~Switches(r) THEN apply_pending_roamguard(r)
             ELSE IF path = NoPath THEN finish_set_configuration(r, "error")
             ELSE switch_current_service_state(r, bus, path)]
  /\ UNCHANGED <<service, connman_manager, roaming_allowed, connman, bounds>>

(* The second call goes to what current_service_path is by now; without a  *)
(* path g_dbus_connection_call refuses, and never calls back.              *)
current_service_enabled_cb(r, ok) ==
  IF ~ok THEN finish_set_configuration([r EXCEPT !.switched = NoPath], "error")
  ELSE IF path = NoPath THEN [r EXCEPT !.stage = "lost"]
  ELSE [r EXCEPT !.stage = "autoconnect", !.auto = path]

current_service_autoconnect_set_cb(r, ok) ==
  IF ~ok THEN finish_set_configuration([r EXCEPT !.auto = NoPath], "error")
  ELSE apply_pending_roamguard(r)

roamguard_set_cb(r, ok) ==
  finish_set_configuration([r EXCEPT !.roaming = IF ok THEN r.roamguard ELSE "none"],
                           IF ok THEN "ok" ELSE "error")

(* An answer, or the error that stands in for one; what is not a client's  *)
(* can be used again.                                                      *)
Reply(r, stage, callback(_, _)) ==
  /\ req[r].stage = stage
  /\ \E ok \in BOOLEAN :
       /\ ok => ~req[r].aborted
       /\ LET after == callback(req[r], ok)
          IN  req' = [req EXCEPT ![r] =
                        IF r \in Setup /\ ~InFlight(after) THEN Fresh ELSE after]
  /\ UNCHANGED <<service, connman_manager, roaming_allowed, connman, bounds>>

SwitchReply(r) == Reply(r, "switch", current_service_enabled_cb)
AutoConnectReply(r) == Reply(r, "autoconnect", current_service_autoconnect_set_cb)
RoamingReply(r) == Reply(r, "roaming", roamguard_set_cb)

(***************************************************************************)
(* The cellular service.                                                   *)
(***************************************************************************)
(* What becomes of the calls when ConnMan takes the services gone away.    *)
Aborted(gone) ==
  [r \in Request |->
     IF ConnManAborts /\ req[r].stage = "switch" /\ req[r].switched \in gone
     THEN [req[r] EXCEPT !.aborted = TRUE]
     ELSE req[r]]

(* They are left alone when p is only listed before their own services,    *)
(* which are still among those listed.                                     *)
Overtaken(p, listed) ==
  [r \in Request |->
     IF req[r].stage = "switch" /\ req[r].switched \in listed \ {p}
     THEN [Aborted(Path \ listed)[r] EXCEPT !.overtaken = TRUE]
     ELSE Aborted(Path \ listed)[r]]

release_current_cellular_service ==
  /\ path' = NoPath /\ heard' = heard \ {path}
  /\ UNCHANGED wan_disabled

(* The properties of the service are looked at: a service that is not yet  *)
(* a favorite is connected to once, by a request that no client waits for. *)
assign_current_cellular_service(p, favorite, up, bus, requests) ==
  /\ path' = p
  /\ heard' = (heard \ {path}) \cup {p}
  /\ wan_disabled' = ~up
  /\ IF favorite THEN req' = requests
     ELSE \E r \in Setup :
            /\ req[r].stage = "free"
            /\ LET after == switch_current_service_state(Fresh, bus, p)
               IN  req' = [requests EXCEPT ![r] = IF InFlight(after) THEN after ELSE Fresh]

(* p is the first cellular service on the list, whatever comes after it;   *)
(* listed is what ConnMan has.                                             *)
update_from_service_list(p, listed) ==
  \/ \E favorite, up, bus \in BOOLEAN :
       assign_current_cellular_service(p, favorite, up, bus, Overtaken(p, listed))
  \/ ProxiesFail /\ release_current_cellular_service /\ req' = Overtaken(p, listed)

News == news < MaxNews /\ news' = news + 1

services_added ==
  /\ proxy /\ News
  /\ path = NoPath
  /\ \E p \in Path : update_from_service_list(p, Path)
  /\ UNCHANGED <<connman_manager, roaming_allowed, connman, restarts>>

service_removed ==
  /\ proxy /\ News
  /\ path # NoPath
  /\ release_current_cellular_service
  /\ req' = Aborted({path})
  /\ UNCHANGED <<connman_manager, roaming_allowed, connman, restarts>>

(* A change of State on a service whose proxy is connected.                *)
current_service_changed ==
  /\ News
  /\ heard # {}
  /\ wan_disabled' = ~wan_disabled
  /\ UNCHANGED <<path, heard, connman_manager, roaming_allowed, connman, req, restarts>>

(***************************************************************************)
(* ConnMan's manager.                                                      *)
(***************************************************************************)
connman_appeared_cb ==
  /\ ~connman /\ restarts < MaxRestarts
  /\ connman' = TRUE /\ restarts' = restarts + 1 /\ creating' = creating + 1
  /\ UNCHANGED <<service, proxy, asked, roaming_allowed, req, news>>

connman_manager_proxy_connect_cb ==
  /\ creating > 0 /\ creating' = creating - 1
  /\ \E ok \in BOOLEAN :
       /\ proxy' = ok
       /\ asked' = IF ok THEN asked + 1 ELSE asked
  /\ UNCHANGED <<service, roaming_allowed, connman, req, bounds>>

(* An error leaves everything as it is.                                    *)
connman_manager_get_services_cb ==
  /\ asked > 0 /\ asked' = asked - 1
  /\ \/ \E listed \in SUBSET Path : \E p \in listed : update_from_service_list(p, listed)
     \/ release_current_cellular_service /\ req' = Aborted(Path)
     \/ UNCHANGED <<service, req>>
  /\ UNCHANGED <<proxy, creating, roaming_allowed, connman, bounds>>

(* The bus answers the calls that were waiting for ConnMan.                *)
connman_vanished_cb ==
  /\ connman /\ connman' = FALSE
  /\ proxy' = FALSE
  /\ release_current_cellular_service
  /\ req' = Aborted(Path)
  /\ UNCHANGED <<creating, asked, roaming_allowed, bounds>>

(***************************************************************************)
(* The connection manager, as WanStatus has it: it comes with roaming not  *)
(* allowed until its properties say more, and a call on it fails when it   *)
(* goes (OfonoBase).                                                       *)
(***************************************************************************)
ConnectionManager ==
  /\ News
  /\ \E to \in {"none", "barred", "allowed"} :
       /\ to # roaming_allowed /\ roaming_allowed' = to
       /\ req' = [r \in Request |-> [req[r] EXCEPT
                    !.aborted = @ \/ (to = "none" /\ req[r].stage = "roaming")]]
  /\ UNCHANGED <<service, connman_manager, connman, restarts>>

WanSetNext ==
  \/ \E s \in Set : set_configuration(s)
  \/ \E r \in Request : SwitchReply(r) \/ AutoConnectReply(r)
  \/ \E s \in Set : RoamingReply(s)
  \/ services_added \/ service_removed \/ current_service_changed
  \/ connman_appeared_cb \/ connman_manager_proxy_connect_cb
  \/ connman_manager_get_services_cb \/ connman_vanished_cb
  \/ ConnectionManager

WanSetSpec == WanSetInit /\ [][WanSetNext]_wanSetVars

(* A D-Bus call is always answered, by a timeout if by nothing else.       *)
WanSetFairness ==
  \A s \in Set : /\ WF_wanSetVars(SwitchReply(s))
                 /\ WF_wanSetVars(AutoConnectReply(s))
                 /\ WF_wanSetVars(RoamingReply(s))

-----------------------------------------------------------------------------
(* Every variable keeps its type; no request is answered twice or used     *)
(* after it is freed; and whatever ConnMan adds, removes and lists again,  *)
(* only the current service is heard: "a stale proxy left connected here   *)
(* kept feeding State changes of the old service into od->wan_disabled".   *)
WanSetTypeOK ==
  /\ path \in Path \cup {NoPath}
  /\ heard = {path} \ {NoPath}
  /\ {wan_disabled, proxy, connman} \subseteq BOOLEAN /\ {creating, asked} \subseteq Nat
  /\ roaming_allowed \in {"none", "barred", "allowed"}
  /\ \A r \in Request :
       /\ req[r].stage \in {"free", "switch", "autoconnect", "roaming", "done", "lost"}
       /\ req[r].answers = IF req[r].stage = "done" THEN 1 ELSE 0

(* A set that is answered with success has done what it was asked for:     *)
(* the service was connected or disconnected and its AutoConnect follows,  *)
(* on the same service, and ofono has taken the roam guard; either may be  *)
(* left out only for what was so already.  Not so for a set during which   *)
(* ConnMan lists a second cellular service first, which the code does not  *)
(* allow for: its AutoConnect goes to that one.                            *)
OkMeansDone ==
  \A s \in Set : req[s].result = "ok" => req[s].kept

(* "Every path through set_configuration ends here exactly once ... a      *)
(* branch that quietly returns without calling back leaves the client      *)
(* waiting forever": every set is answered, unless ConnMan listed a second *)
(* service first while its call on the old one was under way.              *)
EverySetIsAnswered ==
  \A s \in Set : InFlight(req[s]) ~> req[s].answers = 1 \/ req[s].overtaken

(* The same without that exception: the second call of a set is never left *)
(* without a service to go to, which would never call back.                *)
NoSetIsDropped ==
  \A s \in Set : req[s].stage # "lost"
=============================================================================
