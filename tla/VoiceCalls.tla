----------------------------- MODULE VoiceCalls -----------------------------
(***************************************************************************)
(* Voice calls of one SIM slot: dial, answer, ignore and hangup            *)
(* (telephonyservice_call.c, telephony.c) over the list of calls that the  *)
(* voice call manager keeps (ofonovoicecallmanager.c, ofonovoicecall.c).   *)
(* An operation names no call; the driver picks one by its state.  ofono   *)
(* is the environment, and what it sends arrives in order.                 *)
(***************************************************************************)
EXTENDS SlotRequests, FiniteSetsExt

CONSTANT
  MaxPath         (* ofono's names for calls: it gives them out again      *)

ASSUME VoiceCallsAssumption == MaxPath \in Nat

VARIABLES
  vm,             (* the slot has a voice call manager                     *)
  calls_fetched,  (* GetCalls: "no" call made yet, "asked", "failed",      *)
                  (* "done"; the code has a flag for not "no"              *)
  list,           (* the manager's calls: their paths and states           *)
  channel,        (* what ofono has sent and the daemon not yet handled    *)
  voice           (* the calls in ofono, by path, or "none"                *)

manager == <<vm, calls_fetched, list, channel>>
voiceOwn == <<manager, voice>>
voiceVars == <<slot, requests, moves, voiceOwn>>

Path == 1..MaxPath
NoPath == 0
(* ringing: incoming or waiting; other: dialing, alerting or held.         *)
State == {"active", "ringing", "other", "disconnected"}
(* A new call object is zeroed, which reads as active, until ofono has     *)
(* answered its GetProperties.                                             *)
Reads(entry) == IF entry.state = "unheard" THEN "active" ELSE entry.state

Operation == {"answer", "ignore", "hangup"}
VoiceCall == [who : Client, kind : {"list", "dial"} \cup Operation,
              op : Operation \cup {""}, path : Path \cup {NoPath}, lost : BOOLEAN]

Paths(l) == {l[n].path : n \in DOMAIN l}
Existing == {p \in Path : voice[p] # "none"}

(* One type for the state; the calls and requests match up.                *)
VoiceTypeOK ==
  /\ slot \in {"gone", "there", "ready"} /\ vm \in BOOLEAN
  /\ calls_fetched \in {"no", "asked", "failed", "done"}
  /\ list \in Seq([path : Path, state : State \cup {"unheard"}])
  /\ voice \in [Path -> State \cup {"none"}]
  /\ calls \subseteq VoiceCall /\ waiting = {k.who : k \in calls}

VoiceInit ==
  /\ slot = "gone" /\ vm = FALSE /\ calls_fetched = "no" /\ list = <<>> /\ channel = <<>>
  /\ voice = [p \in Path |-> "none"]
  /\ calls = {} /\ waiting = {} /\ moves = 0

(***************************************************************************)
(* Which call an operation is for.                                         *)
(***************************************************************************)
FirstIn(l, states) ==
  LET fit == {n \in DOMAIN l : Reads(l[n]) \in states}
  IN  IF fit = {} THEN NoPath ELSE l[Min(fit)].path

find_ringing_call(l) == FirstIn(l, {"ringing"})

\* Mutant: the first call that is not over is hung up.
find_live_call_first(l) == FirstIn(l, State \ {"disconnected"})

(* The established call, and only when there is none another one.          *)
find_live_call(l) ==
  IF FirstIn(l, {"active"}) # NoPath THEN FirstIn(l, {"active"})
  ELSE FirstIn(l, State \ {"disconnected"})

Target(op, l) == IF op = "hangup" THEN find_live_call(l) ELSE find_ringing_call(l)

Asked(g, kind, op, p) == [who |-> g, kind |-> kind, op |-> op, path |-> p, lost |-> FALSE]

(***************************************************************************)
(* The requests.                                                           *)
(***************************************************************************)
ofono_voicecall_manager_dial(g) == Ask(Asked(g, "dial", "", NoPath))

ofono_dial(g) == vm /\ ofono_voicecall_manager_dial(g)

dial(g) ==
  /\ Accepts(g) /\ ofono_dial(g)
  /\ UNCHANGED <<slot, moves, voiceOwn>>

(* ofono_voicecall_answer and ofono_voicecall_hangup, which stands for     *)
(* ignore, too; their answers outlive the call.                            *)
OnCall(k, op, p) == [k EXCEPT !.kind = op, !.op = "", !.path = p]

common_cb(k) == Answered(k)

(* The first operation asks for the calls; any other takes the list as it  *)
(* is, and is refused when no call on it will do.                          *)
ofono_voicecall_manager_get_calls(g, op) ==
  IF calls_fetched = "no"
  THEN Ask(Asked(g, "list", op, NoPath)) /\ calls_fetched' = "asked"
  ELSE /\ Target(op, list) # NoPath
       /\ Ask(OnCall(Asked(g, "list", op, NoPath), op, Target(op, list)))
       /\ UNCHANGED calls_fetched

start_call_op(g, op) == vm /\ ofono_voicecall_manager_get_calls(g, op)

answer_ignore_hangup(g) ==
  /\ Accepts(g) /\ \E op \in Operation : start_call_op(g, op)
  /\ UNCHANGED <<slot, moves, vm, list, channel, voice>>

(* With the calls at hand the request goes on to one of them.              *)
call_op_get_calls_cb(k, l) ==
  IF Target(k.op, l) = NoPath THEN Answered(k)
  ELSE calls' = (calls \ {k}) \cup {OnCall(k, k.op, Target(k.op, l))} /\ UNCHANGED waiting

call_op_result_cb(k) ==
  /\ k.kind \in Operation /\ common_cb(k)
  /\ UNCHANGED <<slot, moves, voiceOwn>>

(* The answer to Dial outlives the manager.                                *)
dial_cb(k) ==
  /\ k.kind = "dial" /\ Answered(k)
  /\ UNCHANGED <<slot, moves, voiceOwn>>

(* An error, or the manager was freed, which is then left alone.           *)
GetCallsFails(k) ==
  /\ k.kind = "list" /\ Answered(k)
  /\ calls_fetched' = IF k.lost THEN calls_fetched ELSE "failed"
  /\ k.lost \/ \A n \in DOMAIN channel : channel[n].type # "list"
  /\ UNCHANGED <<slot, moves, vm, list, channel, voice>>

(***************************************************************************)
(* What ofono sends.                                                       *)
(***************************************************************************)
Added(p) == [type |-> "added", path |-> p]
Removed(p) == [type |-> "removed", path |-> p]
StateOf(p, s) == [type |-> "state", path |-> p, state |-> s]
Listed(ps) == [type |-> "list", paths |-> ps]
(* A signal that nobody listens to, or an error that is only logged.       *)
Nothing == [type |-> "nothing"]

(* Signals of a call reach the object made for it, and none made later.    *)
Without(ps, ch) ==
  [n \in DOMAIN ch |-> IF ch[n].type = "state" /\ ch[n].path \in ps THEN Nothing ELSE ch[n]]

(* ofono_voicecall_create for each path: an object that hears its          *)
(* properties, if the call still exists, from GetProperties.               *)
New(paths) == [n \in DOMAIN paths |-> [path |-> paths[n], state |-> "unheard"]]
Answers(paths) ==
  [n \in DOMAIN paths |->
     IF paths[n] \in Existing THEN StateOf(paths[n], voice[paths[n]]) ELSE Nothing]
Heard(paths, ch) == Without(ToSet(paths), ch) \o Answers(paths)

\* Mutant: the list is taken as it comes, though signals have told of a call.
get_calls_cb_twice(ps) ==
  \E paths \in SetToSeqs(ps), k \in {c \in calls : c.kind = "list" /\ ~c.lost} :
    /\ list' = list \o New(paths) /\ calls_fetched' = "done"
    /\ channel' = Heard(paths, Tail(channel))
    /\ call_op_get_calls_cb(k, list')

(* Calls that a signal has told of before are on the list; the operation   *)
(* goes on at once, before the new calls' states are known.                *)
get_calls_cb(ps) ==
  \E paths \in SetToSeqs(ps \ Paths(list)), k \in {c \in calls : c.kind = "list" /\ ~c.lost} :
    /\ list' = list \o New(paths) /\ calls_fetched' = "done"
    /\ channel' = Heard(paths, Tail(channel))
    /\ call_op_get_calls_cb(k, list')

call_added_cb(p) ==
  IF p \in Paths(list)
  THEN list' = list /\ channel' = Tail(channel)
  ELSE list' = list \o New(<<p>>) /\ channel' = Heard(<<p>>, Tail(channel))

call_removed_cb(p) ==
  /\ list' = IF p \in Paths(list)
             THEN RemoveAt(list, Min({n \in DOMAIN list : list[n].path = p}))
             ELSE list
  /\ channel' = Without({p}, Tail(channel))

call_state_changed(m) ==
  /\ list' = [n \in DOMAIN list |->
                IF list[n].path = m.path THEN [list[n] EXCEPT !.state = m.state] ELSE list[n]]
  /\ channel' = Tail(channel)

manager_handles ==
  /\ channel # <<>>
  /\ LET m == Head(channel)
     IN  \/ m.type = "list" /\ get_calls_cb(m.paths)
         \/ /\ \/ m.type = "added" /\ call_added_cb(m.path)
               \/ m.type = "removed" /\ call_removed_cb(m.path)
               \/ m.type = "state" /\ call_state_changed(m)
               \/ m.type = "nothing" /\ list' = list /\ channel' = Tail(channel)
            /\ UNCHANGED <<calls_fetched, requests>>
  /\ UNCHANGED <<slot, moves, vm, voice>>

(* ofono answers GetCalls.                                                 *)
OfonoLists ==
  /\ calls_fetched = "asked" /\ \A n \in DOMAIN channel : channel[n].type # "list"
  /\ channel' = Append(channel, Listed(Existing))
  /\ UNCHANGED <<slot, requests, moves, vm, calls_fetched, list, voice>>

Sends(m) == channel' = IF vm THEN Append(channel, m) ELSE channel

(* A call comes in or goes out, changes its state, ends and is removed.    *)
OfonoChanges(p) ==
  /\ Move
  /\ \/ /\ voice[p] = "none" /\ voice' \in {[voice EXCEPT ![p] = s] : s \in {"ringing", "other"}}
        /\ Sends(Added(p))
     \/ /\ voice[p] \in {"ringing", "other", "active"}
        /\ \E s \in {"active", "other", "disconnected"} \ {voice[p]} :
             voice' = [voice EXCEPT ![p] = s] /\ Sends(StateOf(p, s))
     \/ /\ voice[p] = "disconnected" /\ voice' = [voice EXCEPT ![p] = "none"]
        /\ Sends(Removed(p))
  /\ UNCHANGED <<slot, requests, vm, calls_fetched, list>>

(***************************************************************************)
(* The manager and the modem.                                              *)
(***************************************************************************)
vm_create ==
  /\ slot # "gone" /\ ~vm
  /\ vm' = TRUE
  /\ UNCHANGED <<slot, requests, moves, calls_fetched, list, channel, voice>>

FreeManager ==
  /\ vm' = FALSE /\ calls_fetched' = "no" /\ list' = <<>> /\ channel' = <<>>
  /\ calls' = {IF k.kind = "list" THEN [k EXCEPT !.lost = TRUE] ELSE k : k \in calls}
  /\ UNCHANGED waiting

vm_free ==
  /\ vm /\ Move /\ FreeManager
  /\ UNCHANGED <<slot, voice>>

voice_modem_changed ==
  \/ modem_added /\ UNCHANGED <<voiceOwn, requests>>
  \/ (modem_replaced \/ modem_removed) /\ FreeManager /\ voice' = [p \in Path |-> "none"]

voice_available == modem_powered /\ UNCHANGED <<voiceOwn, requests>>

(* What is due: the answer to a call; signals and other callbacks.         *)
voice_answer(k) == dial_cb(k) \/ call_op_result_cb(k) \/ GetCallsFails(k)
voice_due == OfonoLists \/ manager_handles \/ voice_available

VoiceNext ==
  \/ \E g \in Client : dial(g) \/ answer_ignore_hangup(g)
  \/ \E p \in Path : OfonoChanges(p)
  \/ vm_create \/ vm_free \/ voice_modem_changed
  \/ \E k \in calls : voice_answer(k)
  \/ voice_due

VoiceSpec == VoiceInit /\ [][VoiceNext]_voiceVars

-----------------------------------------------------------------------------
(* Once the calls have been listed the manager's list is ofono's, as soon  *)
(* as everything ofono has sent is handled, however the list crosses with  *)
(* signals; and it never has a call twice.                                 *)
ListIsComplete ==
  /\ Cardinality(Paths(list)) = Len(list)
  /\ calls_fetched = "done" /\ channel = <<>> => Paths(list) = Existing

(* With nothing left to handle, an operation would reach a call that is    *)
(* right for it, or is refused because there is none: answer and ignore a  *)
(* ringing one, hangup the established one, or another if there is none.   *)
TargetIsRight ==
  LET right(op) ==
        IF op # "hangup" THEN {p \in Path : voice[p] = "ringing"}
        ELSE IF \E p \in Path : voice[p] = "active" THEN {p \in Path : voice[p] = "active"}
        ELSE Existing \ {p \in Path : voice[p] = "disconnected"}
  IN  calls_fetched = "done" /\ channel = <<>> =>
        \A op \in Operation :
          IF right(op) = {} THEN Target(op, list) = NoPath ELSE Target(op, list) \in right(op)
=============================================================================
