------------------------------ MODULE StkCore ------------------------------
(***************************************************************************)
(* The pending set of stkcore.c, with the calls it makes out of itself.    *)
(* The program is single threaded, but the core calls reply_fn and         *)
(* event_fn in the middle of its own loops, and both may call back into    *)
(* it.  So the C call stack is part of the state: one frame per activation *)
(* that still has something to do, the running one first.                  *)
(***************************************************************************)
EXTENDS StkTypes, Sequences

CONSTANTS
  Token,      (* D-Bus method invocations of the agent, one per request    *)
  Requests,   (* the requests ofono may send                               *)
  Answers,    (* the answers the user interface may give                   *)
  NoRequest,  (* req[t] before invocation t arrives                        *)
  NoToken,    (* the token of a frame that is not about one request        *)
  MaxId,      (* the largest request id: the width of next_id              *)
  Timeouts,   (* the values callers of stk_core_set_timeout turn it to     *)
  Reentrant   (* whether reply_fn and event_fn call back into the core     *)

ASSUME StkCoreAssumption ==
  /\ Requests \subseteq AnyRequest
  /\ Answers \subseteq AnyAnswer
  /\ NoRequest \notin Requests
  /\ NoToken \notin Token
  /\ MaxId \in Nat \ {0}
  /\ Timeouts \subseteq BOOLEAN
  /\ Reentrant \in BOOLEAN

VARIABLES
  alive,      (* FALSE once stk_core_free has returned                     *)
  pending,    (* the queue, as a set: order says which one is older        *)
  req,        (* req[t]: the request invocation t carries                  *)
  id,         (* id[t]: the request's id, 0 before it is submitted         *)
  order,      (* order[t]: its number among the submissions, 0 before      *)
  count,      (* how many submissions there were                           *)
  timer,      (* the requests whose timeout source is installed            *)
  freed,      (* the requests whose memory has been freed                  *)
  next_id,
  wrapped,    (* an id has been handed out a second time                   *)
  timeout_on, (* timeout_ms > 0                                            *)
  sent,       (* sent[t]: the replies given to invocation t                *)
  events,     (* events[t]: the events emitted about the request of t      *)
  stack

coreVars == <<alive, pending, req, id, order, count, timer, freed, next_id, wrapped,
              timeout_on, sent, events, stack>>

EndReason == {"answered", "timeout", "cancelled", "released", "superseded", "shutdown"}

(* Frames: inside reply_fn, inside event_fn after the end or the arrival   *)
(* of a request, at the head of end_matching's second loop, in             *)
(* stk_core_submit past its call of stk_core_end_sim, in stk_core_free.    *)
FrameOp == {"reply", "ended", "arrived", "ending", "submit", "free"}
Frame == [op: FrameOp, tok: Token \cup {NoToken}, batch: SUBSET Token, reason: EndReason]

CallFrame(op, t, reason)  == [op |-> op, tok |-> t, batch |-> {}, reason |-> reason]
LoopFrame(batch, reason)  == [op |-> "ending", tok |-> NoToken, batch |-> batch, reason |-> reason]

Push(f, s) == <<f>> \o s
Running(op) == stack # <<>> /\ Head(stack).op = op

Init ==
  /\ alive = TRUE
  /\ pending = {}
  /\ req = [t \in Token |-> NoRequest]
  /\ id = [t \in Token |-> 0]
  /\ order = [t \in Token |-> 0]
  /\ count = 0
  /\ timer = {}
  /\ freed = {}
  /\ next_id = 1
  /\ wrapped = FALSE
  /\ timeout_on = TRUE
  /\ sent = [t \in Token |-> <<>>]
  /\ events = [t \in Token |-> <<>>]
  /\ stack = <<>>

(***************************************************************************)
(* Helpers.                                                                *)
(***************************************************************************)
(* The main loop, or a callback of ours, is in control.                    *)
CallerRuns ==
  /\ alive
  /\ \/ stack = <<>>
     \/ Reentrant /\ (Running("reply") \/ Running("ended") \/ Running("arrived"))

Oldest(S) == {t \in S : \A u \in S : order[t] <= order[u]}

(* The first request in the queue with that id: a singleton or {}.         *)
find_pending(i) == Oldest({t \in pending : id[t] = i})

matches_agent(t, sim, sessions) == req[t].sim = sim /\ req[t].session \in sessions
Matching(sim, sessions) == {t \in pending : matches_agent(t, sim, sessions)}

\* Mutant: the timeout source is left installed.
end_pending_timed(t, reply, reason, below) ==
  /\ pending' = pending \ {t}
  /\ sent' = [sent EXCEPT ![t] = Append(@, reply)]
  /\ stack' = Push(CallFrame("reply", t, reason), below)
  /\ UNCHANGED <<alive, req, id, order, count, timer, freed, next_id, wrapped, timeout_on,
                 events>>

(* end_pending up to and including the call of reply_fn.                   *)
end_pending(t, reply, reason, below) ==
  /\ pending' = pending \ {t}
  /\ timer' = timer \ {t}
  /\ sent' = [sent EXCEPT ![t] = Append(@, reply)]
  /\ stack' = Push(CallFrame("reply", t, reason), below)
  /\ UNCHANGED <<alive, req, id, order, count, freed, next_id, wrapped, timeout_on, events>>

end_with_fallback(t, reason, below) == end_pending(t, fallback_reply(req[t]), reason, below)

(***************************************************************************)
(* Calls into the core.                                                    *)
(***************************************************************************)
\* Mutant: only the same agent's request is superseded.
Submit_same_agent(t, r) ==
  /\ CallerRuns
  /\ req[t] = NoRequest
  /\ req' = [req EXCEPT ![t] = r]
  /\ stack' = Push(LoopFrame(Matching(r.sim, {r.session}), "superseded"),
                   Push(CallFrame("submit", t, "answered"), stack))
  /\ UNCHANGED <<alive, pending, id, order, count, timer, freed, next_id, wrapped, timeout_on,
                 sent, events>>

(* stk_core_submit, as far as collecting what stk_core_end_sim will end.   *)
Submit(t, r) ==
  /\ CallerRuns
  /\ req[t] = NoRequest
  /\ req' = [req EXCEPT ![t] = r]
  /\ stack' = Push(LoopFrame(Matching(r.sim, BOOLEAN), "superseded"),
                   Push(CallFrame("submit", t, "answered"), stack))
  /\ UNCHANGED <<alive, pending, id, order, count, timer, freed, next_id, wrapped, timeout_on,
                 sent, events>>

Respond(i, action, a) ==
  /\ CallerRuns
  /\ \E t \in find_pending(i) :
       \E reply \in respond_reply(req[t], action, a) :
         end_pending(t, reply, "answered", stack)

(* stk_core_end_sim (both sessions) and stk_core_end_agent (one).  With    *)
(* nothing to end the call changes nothing.                                *)
EndAgent(sim, sessions, reason) ==
  /\ CallerRuns
  /\ Matching(sim, sessions) # {}
  /\ stack' = Push(LoopFrame(Matching(sim, sessions), reason), stack)
  /\ UNCHANGED <<alive, pending, req, id, order, count, timer, freed, next_id, wrapped, timeout_on,
                 sent, events>>

SetTimeout(on) ==
  /\ CallerRuns
  /\ timeout_on' = on
  /\ UNCHANGED <<alive, pending, req, id, order, count, timer, freed, next_id, wrapped,
                 sent, events, stack>>

(* stk_core_free is called from the main loop: it frees the core.          *)
Free ==
  /\ alive
  /\ stack = <<>>
  /\ stack' = <<CallFrame("free", NoToken, "shutdown")>>
  /\ UNCHANGED <<alive, pending, req, id, order, count, timer, freed, next_id, wrapped, timeout_on,
                 sent, events>>

(* pending_timeout_cb, dispatched by the main loop.                        *)
TimerFires(t) ==
  /\ stack = <<>>
  /\ t \in timer
  /\ end_with_fallback(t, "timeout", stack)

(***************************************************************************)
(* The core's own steps.                                                   *)
(***************************************************************************)
\* Mutant: the collected requests are ended without looking them up again.
EndNext_unlooked ==
  /\ Running("ending")
  /\ \E t \in Oldest(Head(stack).batch) :
       end_with_fallback(t, Head(stack).reason,
                         Push([Head(stack) EXCEPT !.batch = @ \ {t}], Tail(stack)))

\* Mutant: the queue is searched anew in each turn.
EndNext_rescan ==
  /\ Running("ending")
  /\ \E t \in Oldest(Head(stack).batch) :
       LET rest  == Push([Head(stack) EXCEPT !.batch = @ \ {t}], Tail(stack))
           again == Oldest(Matching(req[t].sim, BOOLEAN))
       IN  IF again = {}
           THEN /\ stack' = rest
                /\ UNCHANGED <<alive, pending, req, id, order, count, timer, freed, next_id,
                               wrapped, timeout_on, sent, events>>
           ELSE \E p \in again : end_with_fallback(p, Head(stack).reason, stack)

(* One turn of end_matching's loop over the collected ids; a request that  *)
(* went away meanwhile is skipped, the last turn leaves the loop.          *)
EndNext ==
  /\ Running("ending")
  /\ \E t \in Oldest(Head(stack).batch) :
       LET rest == Push([Head(stack) EXCEPT !.batch = @ \ {t}], Tail(stack))
       IN  IF find_pending(id[t]) = {}
           THEN /\ stack' = rest
                /\ UNCHANGED <<alive, pending, req, id, order, count, timer, freed, next_id,
                               wrapped, timeout_on, sent, events>>
           ELSE \E p \in find_pending(id[t]) : end_with_fallback(p, Head(stack).reason, rest)

EndDone ==
  /\ Running("ending")
  /\ Head(stack).batch = {}
  /\ stack' = Tail(stack)
  /\ UNCHANGED <<alive, pending, req, id, order, count, timer, freed, next_id, wrapped, timeout_on,
                 sent, events>>

\* Mutant: 0 is handed out after the wrap.
take_id_zero ==
  /\ next_id' = (next_id + 1) % (MaxId + 1)
  /\ wrapped' = (wrapped \/ next_id = MaxId)

(* The rest of stk_core_submit, up to its call of event_fn.                *)
take_id ==
  /\ next_id' = IF next_id = MaxId THEN 1 ELSE next_id + 1
  /\ wrapped' = (wrapped \/ \E t \in Token : id[t] = next_id)

\* Mutant: a request that arrives while another waits gets no timeout.
SubmitPush_first_timed ==
  /\ Running("submit")
  /\ LET t == Head(stack).tok
     IN  /\ id' = [id EXCEPT ![t] = next_id]
         /\ take_id
         /\ pending' = pending \cup {t}
         /\ order' = [order EXCEPT ![t] = count + 1]
         /\ count' = count + 1
         /\ timer' = IF timeout_on /\ pending = {} THEN timer \cup {t} ELSE timer
         /\ events' = [events EXCEPT ![t] = Append(@, "request")]
         /\ stack' = Push(CallFrame("arrived", t, "answered"), Tail(stack))
  /\ UNCHANGED <<alive, req, freed, timeout_on, sent>>

SubmitPush ==
  /\ Running("submit")
  /\ LET t == Head(stack).tok
     IN  /\ id' = [id EXCEPT ![t] = next_id]
         /\ take_id
         /\ pending' = pending \cup {t}
         /\ order' = [order EXCEPT ![t] = count + 1]
         /\ count' = count + 1
         /\ timer' = IF timeout_on THEN timer \cup {t} ELSE timer
         /\ events' = [events EXCEPT ![t] = Append(@, "request")]
         /\ stack' = Push(CallFrame("arrived", t, "answered"), Tail(stack))
  /\ UNCHANGED <<alive, req, freed, timeout_on, sent>>

\* Mutant: the end of a superseded request is not told.
ReplyReturns_silent ==
  /\ Running("reply")
  /\ events' = IF Head(stack).reason = "superseded" THEN events
               ELSE [events EXCEPT ![Head(stack).tok] = Append(@, Head(stack).reason)]
  /\ stack' = Push([Head(stack) EXCEPT !.op = "ended"], Tail(stack))
  /\ UNCHANGED <<alive, pending, req, id, order, count, timer, freed, next_id, wrapped,
                 timeout_on, sent>>

\* Mutant: the request is freed before event_fn is told of its end.
ReplyReturns_freed ==
  /\ Running("reply")
  /\ events' = [events EXCEPT ![Head(stack).tok] = Append(@, Head(stack).reason)]
  /\ freed' = freed \cup {Head(stack).tok}
  /\ stack' = Push([Head(stack) EXCEPT !.op = "ended"], Tail(stack))
  /\ UNCHANGED <<alive, pending, req, id, order, count, timer, next_id, wrapped,
                 timeout_on, sent>>

(* reply_fn returns: end_pending calls event_fn.                           *)
ReplyReturns ==
  /\ Running("reply")
  /\ events' = [events EXCEPT ![Head(stack).tok] = Append(@, Head(stack).reason)]
  /\ stack' = Push([Head(stack) EXCEPT !.op = "ended"], Tail(stack))
  /\ UNCHANGED <<alive, pending, req, id, order, count, timer, freed, next_id, wrapped, timeout_on,
                 sent>>

(* event_fn returns: end_pending frees the request, stk_core_submit reads  *)
(* its id and returns it.                                                  *)
EventReturns ==
  /\ Running("ended") \/ Running("arrived")
  /\ freed' = IF Running("ended") THEN freed \cup {Head(stack).tok} ELSE freed
  /\ stack' = Tail(stack)
  /\ UNCHANGED <<alive, pending, req, id, order, count, timer, next_id, wrapped, timeout_on,
                 sent, events>>

(* stk_core_free's loop: one turn, and the end of it.                      *)
FreeNext ==
  /\ Running("free")
  /\ \E t \in Oldest(pending) : end_with_fallback(t, "shutdown", stack)

FreeDone ==
  /\ Running("free")
  /\ pending = {}
  /\ alive' = FALSE
  /\ stack' = Tail(stack)
  /\ UNCHANGED <<pending, req, id, order, count, timer, freed, next_id, wrapped, timeout_on,
                 sent, events>>

Sims == {r.sim : r \in Requests}

Calls ==
  \/ \E t \in Token, r \in Requests : Submit(t, r)
  \/ \E i \in 1..MaxId, action \in Action, a \in Answers : Respond(i, action, a)
  \/ \E sim \in Sims, reason \in {"cancelled", "released"} :
       \E sessions \in {{TRUE}, {FALSE}, BOOLEAN} : EndAgent(sim, sessions, reason)
  \/ \E on \in Timeouts : SetTimeout(on)
  \/ Free

Steps == EndNext \/ EndDone \/ SubmitPush \/ ReplyReturns \/ EventReturns \/ FreeNext \/ FreeDone

(* The core is gone and nothing is left to do.                             *)
Stopped == ~alive /\ UNCHANGED coreVars

Next == Calls \/ Steps \/ Stopped \/ \E t \in Token : TimerFires(t)

Spec == Init /\ [][Next]_coreVars

(* A C function that was entered goes on, and GLib dispatches a due timer  *)
(* in the iteration that finds it due, whatever else is ready.             *)
FairSpec == Spec /\ WF_coreVars(Steps) /\ \A t \in Token : SF_coreVars(TimerFires(t))

-----------------------------------------------------------------------------
(***************************************************************************)
(* Correctness.                                                            *)
(***************************************************************************)
(* Every variable keeps its type, and every reply sent is a well-formed    *)
(* struct stk_reply.                                                       *)
TypeOK ==
  /\ alive \in BOOLEAN
  /\ pending \subseteq Token
  /\ req \in [Token -> Requests \cup {NoRequest}]
  /\ id \in [Token -> 0..MaxId]
  /\ order \in [Token -> Nat]
  /\ count \in Nat
  /\ timer \subseteq Token
  /\ freed \subseteq Token
  /\ next_id \in 1..MaxId
  /\ wrapped \in BOOLEAN
  /\ timeout_on \in BOOLEAN
  /\ sent \in [Token -> Seq(AnyReply)]
  /\ events \in [Token -> Seq({"request"} \cup EndReason)]
  /\ stack \in Seq(Frame)

(* Every call gets exactly one reply: a submitted invocation has none      *)
(* exactly while its request is pending, and never has two.                *)
ExactlyOneReply ==
  \A t \in Token :
    /\ Len(sent[t]) <= 1
    /\ t \in pending <=> (order[t] # 0 /\ sent[t] = <<>>)

(* A timeout source never outlives its request: pending_timeout_cb would   *)
(* run on freed memory.                                                    *)
TimerOnlyWhilePending == timer \subseteq pending

(* No request is freed while it is still in the queue, nor while it is     *)
(* being ended: reply_fn and event_fn are given one that is there, however *)
(* they call back.                                                         *)
EndedBeforeFreed ==
  /\ freed \cap pending = {}
  /\ \A i \in DOMAIN stack : stack[i].op \in {"reply", "ended"} => stack[i].tok \notin freed

(* Nor is it freed before stk_core_submit has read the id that it returns: *)
(* "The reply and event callbacks may look at, submit to or answer the     *)
(* core", also the one that stk_core_submit itself calls.                  *)
SubmittedStays ==
  \A i \in DOMAIN stack : stack[i].op = "arrived" => stack[i].tok \notin freed

(* Subscribers see each request arrive once and, unless it still waits,    *)
(* end once, in that order: whenever the main loop runs, replaying the     *)
(* events gives exactly the pending set.                                   *)
EventsTellPending ==
  /\ \A t \in Token : events[t] \in {<<>>, <<"request">>} \cup {<<"request", r>> : r \in EndReason}
  /\ stack = <<>> => pending = {t \in Token : events[t] = <<"request">>}

(* ofono takes every reply: otherwise it would drop the agent.             *)
RepliesAccepted ==
  \A t \in Token : \A i \in DOMAIN sent[t] : OfonoAccepts(req[t], sent[t][i])

(* For as long as the counter has not wrapped, ids are unique, so that an  *)
(* answer cannot be for another request; and at the end of every call a    *)
(* SIM has one request outstanding, when the callbacks do not call back.   *)
NoneConfused ==
  ~wrapped => \A t, u \in pending :
    t # u => /\ id[t] # id[u]
             /\ stack = <<>> /\ ~Reentrant => req[t].sim # req[u].sim

(* end_matching ends only what matched when it was called: a request       *)
(* submitted by a callback meanwhile stays.                                *)
NewcomersSpared ==
  [][\A t \in pending \ pending' :
       (Running("ending") /\ ~wrapped) => t \in Head(stack).batch]_coreVars

(***************************************************************************)
(* The core keeps the promise of StkPromise: in particular every call is   *)
(* answered in the end, by the user, by the next request for the SIM, by   *)
(* its timeout or by stk_core_free.                                        *)
(***************************************************************************)
PossibleReplies ==
  {fallback_reply(r) : r \in Requests}
    \cup UNION {respond_reply(r, action, a) : r \in Requests, action \in Action, a \in Answers}

Promise == INSTANCE StkPromise
             WITH open <- alive, asked <- req, wire <- sent, Replies <- PossibleReplies

KeepsPromise == Promise!Spec
=============================================================================
