------------------------------ MODULE StkAgent ------------------------------
(***************************************************************************)
(* One slot's SIM toolkit object, ofonostk.c, between ofono and the core.  *)
(* ofono is a process of its own: it holds our default agent or not, runs  *)
(* a session on our session agent, and has at most one agent call          *)
(* outstanding.  The two D-Bus directions are FIFO channels.  The core is  *)
(* reduced to the requests it keeps pending for this slot (see StkCore).   *)
(***************************************************************************)
EXTENDS Naturals, Sequences, FiniteSets, SequencesExt

CONSTANTS
  RetryMax,     (* retry_max_attempts                                      *)
  MaxRefusals,  (* bound: RegisterAgent calls ofono refuses for a reason   *)
                (* of its own, fewer than RetryMax for AgentComesBack      *)
  MaxChanges,   (* bound: times the modem's interfaces change, or it moves *)
  MaxCalls,     (* bound: agent calls, sessions and releases by ofono      *)
  MaxInstances  (* bound: ofono_stk objects created                        *)

ASSUME StkAgentAssumption ==
  /\ {RetryMax, MaxRefusals, MaxChanges, MaxCalls, MaxInstances} \subseteq Nat
  /\ RetryMax > 0

VARIABLES
  stk,               (* od->stk: 0 for NULL, else which object it is       *)
  agent_registered, register_pending, retry_source, retry_attempts,
  pending,           (* the requests the core keeps for this slot          *)
  instances,         (* objects created so far                             *)
  iface,             (* ofono has SimToolkit for the modem                 *)
  moved,             (* history: the modem has moved to another slot since *)
                     (* the daemon last heard of its interfaces            *)
  holds,             (* ofono holds our default agent                      *)
  session,           (* ofono runs a session on our session agent          *)
  call,              (* the agent call ofono waits for, or NoCall          *)
  refusals, changes, calls,
  toDaemon, toOfono

daemonVars == <<stk, agent_registered, register_pending, retry_source, retry_attempts,
                pending, instances>>
ofonoVars  == <<iface, moved, holds, session, call, refusals, changes, calls>>
agentVars  == <<daemonVars, ofonoVars, toDaemon, toOfono>>

(* A message: its kind, the call or object it is about, and a flag: the    *)
(* session agent's, the interface is there, the call succeeded.            *)
BusItem == [kind: {"interfaces", "register", "unregister", "registered", "select",
                   "call", "cancel", "release", "reply"},
            n: Nat, flag: BOOLEAN]
Msg(kind, n, flag) == [kind |-> kind, n |-> n, flag |-> flag]

AgentCall == [n: Nat, session: BOOLEAN]
NoCall == [n |-> 0, session |-> FALSE]

AgentInit ==
  /\ stk = 0 /\ instances = 0
  /\ agent_registered = FALSE /\ register_pending = FALSE /\ retry_source = FALSE
  /\ retry_attempts = 0
  /\ pending = {}
  /\ iface = FALSE /\ moved = FALSE /\ holds = FALSE /\ session = FALSE /\ call = NoCall
  /\ refusals = 0 /\ changes = 0 /\ calls = 0
  /\ toDaemon = <<>> /\ toOfono = <<>>

(***************************************************************************)
(* The daemon.                                                             *)
(***************************************************************************)
Arrives(kind) == toDaemon # <<>> /\ Head(toDaemon).kind = kind
Send(msgs) == toOfono' = toOfono \o msgs
Consume == toDaemon' = Tail(toDaemon)

(* stk_core_end_agent through callbacks.cancel: every one of them is       *)
(* replied to.                                                             *)
Of(sessions) == {r \in pending : r.session \in sessions}
Replies(requests) == SetToSeq({Msg("reply", r.n, FALSE) : r \in requests})


(* schedule_register, given what the caller has just assigned.             *)
schedule_register(registered, register_in_flight, attempts) ==
  IF retry_source \/ register_in_flight \/ registered \/ attempts >= RetryMax
  THEN retry_attempts' = attempts /\ UNCHANGED retry_source
  ELSE retry_attempts' = attempts + 1 /\ retry_source' = TRUE

ofono_stk_create ==
  /\ stk' = instances + 1
  /\ instances' = instances + 1
  /\ agent_registered' = FALSE /\ register_pending' = TRUE /\ retry_source' = FALSE
  /\ retry_attempts' = 0
  /\ Send(<<Msg("register", instances + 1, FALSE)>>)
  /\ UNCHANGED pending

ofono_stk_free ==
  /\ stk' = 0
  /\ agent_registered' = FALSE /\ register_pending' = FALSE /\ retry_source' = FALSE
  /\ retry_attempts' = 0
  /\ pending' = {}
  /\ Send((IF agent_registered THEN <<Msg("unregister", stk, FALSE)>> ELSE <<>>)
            \o Replies(pending))
  /\ UNCHANGED instances

(* modem_prop_changed_cb, for this interface.                              *)
InterfacesChanged ==
  /\ Arrives("interfaces")
  /\ Consume
  /\ \/ Head(toDaemon).flag /\ stk = 0 /\ instances < MaxInstances /\ ofono_stk_create
     \/ ~Head(toDaemon).flag /\ stk # 0 /\ ofono_stk_free
     \/ Head(toDaemon).flag = (stk # 0) /\ UNCHANGED <<daemonVars, toOfono>>
  /\ moved' = FALSE
  /\ UNCHANGED <<iface, holds, session, call, refusals, changes, calls>>

(* sim_data_detach: the modem moves to another slot, whose handler it gets *)
(* without being asked for its interfaces again.                           *)
Detach ==
  /\ stk # 0
  /\ changes < MaxChanges
  /\ changes' = changes + 1
  /\ moved' = TRUE
  /\ ofono_stk_free
  /\ UNCHANGED <<iface, holds, session, call, refusals, calls, toDaemon>>

\* Mutant: the next attempt is scheduled before the old one is over.
register_agent_cb_early ==
  /\ Arrives("registered")
  /\ Consume
  /\ IF Head(toDaemon).n # stk
     THEN UNCHANGED <<agent_registered, register_pending, retry_source, retry_attempts>>
     ELSE /\ register_pending' = FALSE
          /\ agent_registered' = Head(toDaemon).flag
          /\ IF Head(toDaemon).flag
             THEN retry_attempts' = 0 /\ UNCHANGED retry_source
             ELSE schedule_register(FALSE, register_pending, retry_attempts)
  /\ UNCHANGED <<stk, pending, instances, ofonoVars, toOfono>>

(* A reply to an object that is gone was cancelled.                        *)
register_agent_cb ==
  /\ Arrives("registered")
  /\ Consume
  /\ IF Head(toDaemon).n # stk
     THEN UNCHANGED <<agent_registered, register_pending, retry_source, retry_attempts>>
     ELSE /\ register_pending' = FALSE
          /\ agent_registered' = Head(toDaemon).flag
          /\ IF Head(toDaemon).flag
             THEN retry_attempts' = 0 /\ UNCHANGED retry_source
             ELSE schedule_register(FALSE, FALSE, retry_attempts)
  /\ UNCHANGED <<stk, pending, instances, ofonoVars, toOfono>>

retry_register_cb ==
  /\ retry_source
  /\ retry_source' = FALSE
  /\ IF agent_registered \/ register_pending
     THEN UNCHANGED <<register_pending, toOfono>>
     ELSE register_pending' = TRUE /\ Send(<<Msg("register", stk, FALSE)>>)
  /\ UNCHANGED <<stk, agent_registered, retry_attempts, pending, instances, ofonoVars, toDaemon>>

(* dispatch: the core ends what it still has for the slot and takes the    *)
(* request.  With the agents unexported GDBus answers with an error.       *)
dispatch ==
  /\ Arrives("call")
  /\ Consume
  /\ LET c == [n |-> Head(toDaemon).n, session |-> Head(toDaemon).flag]
     IN  IF stk = 0
         THEN Send(<<Msg("reply", c.n, FALSE)>>) /\ UNCHANGED pending
         ELSE Send(Replies(pending)) /\ pending' = {c}
  /\ UNCHANGED <<stk, agent_registered, register_pending, retry_source, retry_attempts,
                 instances, ofonoVars>>

\* Mutant: a Cancel ends the default agent's request, whichever agent got it.
handle_cancel_default ==
  /\ Arrives("cancel")
  /\ Consume
  /\ IF stk = 0
     THEN UNCHANGED <<pending, toOfono>>
     ELSE /\ pending' = pending \ Of({FALSE})
          /\ Send(Replies(Of({FALSE})))
  /\ UNCHANGED <<stk, agent_registered, register_pending, retry_source, retry_attempts,
                 instances, ofonoVars>>

handle_cancel ==
  /\ Arrives("cancel")
  /\ Consume
  /\ IF stk = 0
     THEN UNCHANGED <<pending, toOfono>>
     ELSE /\ pending' = pending \ Of({Head(toDaemon).flag})
          /\ Send(Replies(Of({Head(toDaemon).flag})))
  /\ UNCHANGED <<stk, agent_registered, register_pending, retry_source, retry_attempts,
                 instances, ofonoVars>>

\* Mutant: the session agent's Release is taken for the default agent's and
\* the other way round.
handle_release_swapped ==
  /\ Arrives("release")
  /\ Consume
  /\ IF stk = 0
     THEN UNCHANGED <<agent_registered, retry_source, retry_attempts, pending, toOfono>>
     ELSE /\ pending' = pending \ Of({Head(toDaemon).flag})
          /\ Send(Replies(Of({Head(toDaemon).flag})))
          /\ IF ~Head(toDaemon).flag
             THEN UNCHANGED <<agent_registered, retry_source, retry_attempts>>
             ELSE /\ agent_registered' = FALSE
                  /\ schedule_register(FALSE, register_pending, 0)
  /\ UNCHANGED <<stk, register_pending, instances, ofonoVars>>

handle_release ==
  /\ Arrives("release")
  /\ Consume
  /\ IF stk = 0
     THEN UNCHANGED <<agent_registered, retry_source, retry_attempts, pending, toOfono>>
     ELSE /\ pending' = pending \ Of({Head(toDaemon).flag})
          /\ Send(Replies(Of({Head(toDaemon).flag})))
          /\ IF Head(toDaemon).flag
             THEN UNCHANGED <<agent_registered, retry_source, retry_attempts>>
             ELSE /\ agent_registered' = FALSE
                  /\ schedule_register(FALSE, register_pending, 0)
  /\ UNCHANGED <<stk, register_pending, instances, ofonoVars>>

(* The user answers, or the core's timeout does.                           *)
Answer ==
  /\ \E r \in pending : pending' = pending \ {r} /\ Send(Replies({r}))
  /\ UNCHANGED <<stk, agent_registered, register_pending, retry_source, retry_attempts,
                 instances, ofonoVars, toDaemon>>

ofono_stk_select_item ==
  /\ stk # 0
  /\ calls < MaxCalls
  /\ calls' = calls + 1
  /\ Send(<<Msg("select", stk, FALSE)>>)
  /\ UNCHANGED <<daemonVars, iface, moved, holds, session, call, refusals, changes, toDaemon>>

(***************************************************************************)
(* ofono: external.                                                        *)
(***************************************************************************)
Reaches(kind) == toOfono # <<>> /\ Head(toOfono).kind = kind
Tell(msgs) == toDaemon' = toDaemon \o msgs

(* The interface comes; or it goes, and with it the agents.  Whether they  *)
(* are released first is ofono's affair.                                   *)
OfonoInterface ==
  /\ changes < MaxChanges
  /\ changes' = changes + 1
  /\ iface' = ~iface
  /\ holds' = FALSE /\ session' = FALSE /\ call' = NoCall
  /\ \E released \in BOOLEAN :
       Tell((IF released /\ holds THEN <<Msg("release", 0, FALSE)>> ELSE <<>>)
              \o (IF released /\ session THEN <<Msg("release", 0, TRUE)>> ELSE <<>>)
              \o <<Msg("interfaces", 0, ~iface)>>)
  /\ UNCHANGED <<daemonVars, moved, refusals, calls, toOfono>>

(* Another interface of the modem comes or goes: all are reported.         *)
OfonoOtherInterface ==
  /\ changes < MaxChanges
  /\ changes' = changes + 1
  /\ Tell(<<Msg("interfaces", 0, iface)>>)
  /\ UNCHANGED <<daemonVars, iface, moved, holds, session, call, refusals, calls, toOfono>>

OfonoRegister ==
  /\ Reaches("register")
  /\ toOfono' = Tail(toOfono)
  /\ \E ok \in BOOLEAN :
       /\ ok => iface /\ ~holds
       /\ ~ok => \/ ~iface \/ holds
                 \/ refusals < MaxRefusals
       /\ refusals' = IF ~ok /\ iface /\ ~holds THEN refusals + 1 ELSE refusals
       /\ holds' = (holds \/ ok)
       /\ Tell(<<Msg("registered", Head(toOfono).n, ok)>>)
  /\ UNCHANGED <<daemonVars, iface, moved, session, call, changes, calls>>

(* The rest of what the daemon sends.  A late reply is ignored.            *)
OfonoReceives ==
  /\ Reaches("unregister") \/ Reaches("select") \/ Reaches("reply")
  /\ toOfono' = Tail(toOfono)
  /\ holds' = (holds /\ ~Reaches("unregister"))
  /\ session' = (session \/ (Reaches("select") /\ iface))
  /\ call' = IF \/ Reaches("reply") /\ call.n = Head(toOfono).n
                \/ Reaches("unregister") /\ ~call.session
             THEN NoCall ELSE call
  /\ IF Reaches("unregister") /\ call.n # 0 /\ ~call.session
     THEN Tell(<<Msg("cancel", 0, FALSE)>>)
     ELSE UNCHANGED toDaemon
  /\ UNCHANGED <<daemonVars, iface, moved, refusals, changes, calls>>

OfonoCalls ==
  /\ call = NoCall
  /\ calls < MaxCalls
  /\ calls' = calls + 1
  /\ \E s \in (IF session THEN {TRUE} ELSE {}) \cup (IF holds THEN {FALSE} ELSE {}) :
       /\ call' = [n |-> calls + 1, session |-> s]
       /\ Tell(<<Msg("call", calls + 1, s)>>)
  /\ UNCHANGED <<daemonVars, iface, moved, holds, session, refusals, changes, toOfono>>

OfonoCancels ==
  /\ call # NoCall
  /\ call' = NoCall
  /\ Tell(<<Msg("cancel", 0, call.session)>>)
  /\ UNCHANGED <<daemonVars, iface, moved, holds, session, refusals, changes, calls, toOfono>>

(* The session ends, or ofono drops the default agent.                     *)
OfonoReleases ==
  /\ calls < MaxCalls
  /\ calls' = calls + 1
  /\ \E s \in (IF session THEN {TRUE} ELSE {}) \cup (IF holds THEN {FALSE} ELSE {}) :
       /\ session' = (session /\ ~s)
       /\ holds' = (holds /\ s)
       /\ call' = IF call.session = s THEN NoCall ELSE call
       /\ Tell(<<Msg("release", 0, s)>>)
  /\ UNCHANGED <<daemonVars, iface, moved, refusals, changes, toOfono>>

DaemonReceives ==
  InterfacesChanged \/ register_agent_cb \/ dispatch \/ handle_cancel \/ handle_release
OfonoHandles == OfonoRegister \/ OfonoReceives

AgentNext ==
  \/ DaemonReceives \/ Detach \/ retry_register_cb \/ Answer \/ ofono_stk_select_item
  \/ OfonoHandles \/ OfonoInterface \/ OfonoOtherInterface \/ OfonoCalls \/ OfonoCancels \/ OfonoReleases

AgentSpec == AgentInit /\ [][AgentNext]_agentVars

(* Both processes read their sockets, and GLib dispatches the retry timer. *)
AgentFairness ==
  /\ WF_agentVars(DaemonReceives) /\ WF_agentVars(OfonoHandles)
  /\ WF_agentVars(retry_register_cb)

-----------------------------------------------------------------------------
(* Every variable keeps its type.                                          *)
AgentTypeOK ==
  /\ stk \in 0..MaxInstances /\ instances \in stk..MaxInstances
  /\ agent_registered \in BOOLEAN /\ register_pending \in BOOLEAN /\ retry_source \in BOOLEAN
  /\ iface \in BOOLEAN /\ moved \in BOOLEAN /\ holds \in BOOLEAN /\ session \in BOOLEAN
  /\ retry_attempts \in 0..RetryMax
  /\ pending \subseteq AgentCall
  /\ call \in AgentCall
  /\ refusals \in 0..MaxRefusals /\ changes \in 0..MaxChanges /\ calls \in 0..MaxCalls
  /\ toDaemon \in Seq(BusItem) /\ toOfono \in Seq(BusItem)

Coming(kinds, flags) == \E i \in DOMAIN toDaemon : toDaemon[i].kind \in kinds
                                                   /\ toDaemon[i].flag \in flags

(* The agent that believes itself registered is held by ofono, or the news *)
(* that it is not is already on the way.                                   *)
BelievedHeld ==
  agent_registered => \/ holds
                      \/ Coming({"release"}, {FALSE})
                      \/ Coming({"interfaces"}, {FALSE})

InFlight(q, kind) == {i \in DOMAIN q : q[i].kind = kind /\ q[i].n = stk}
RegistersInFlight == Cardinality(InFlight(toOfono, "register"))
                       + Cardinality(InFlight(toDaemon, "registered"))

(* The object is always doing exactly one thing about its agent: it is     *)
(* registered, waits for ofono's answer to the one RegisterAgent in        *)
(* flight, waits for its retry timer, or has used up its attempts.         *)
NeverStuck ==
  stk # 0 =>
    /\ RegistersInFlight = IF register_pending THEN 1 ELSE 0
    /\ ~(register_pending /\ retry_source) /\ ~(agent_registered /\ retry_source)
    /\ ~(agent_registered /\ register_pending)
    /\ agent_registered \/ register_pending \/ retry_source \/ retry_attempts = RetryMax

(* No dialog for a call nobody waits for: ofono still waits for the answer *)
(* of a pending request, or its Cancel, Release or end is on the way.      *)
DialogsAreLive ==
  \A r \in pending :
    /\ stk # 0
    /\ \/ call.n = r.n
       \/ Coming({"cancel", "release"}, {r.session})
       \/ Coming({"interfaces"}, {FALSE})

=============================================================================
