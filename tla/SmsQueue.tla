------------------------------ MODULE SmsQueue ------------------------------
(***************************************************************************)
(* The queue of outgoing short messages, telephonyservice_sms.c, between   *)
(* the message database (db8), the activity manager whose watch on the     *)
(* database calls sendSmsFromDb, and the ofono driver with its watch of    *)
(* each message (telephony.c, ofonomessagewatch.c).  A message is its      *)
(* number, in the order of the timestamps.                                 *)
(***************************************************************************)
EXTENDS Integers, Sequences, FiniteSets

CONSTANTS
  MaxMessages,  (* bound: messages written to the outbox                   *)
  MaxTo,        (* bound: recipients of a message                          *)
  MaxSims,      (* slots                                                   *)
  MaxComings,   (* bound: times a slot's readiness is lost                 *)
  MaxCrashes,   (* bound: restarts of the daemon                           *)
  MaxOut,       (* bound: calls and answers between us and db8 that sendSmsFromDb finds   *)
  BusFaults,    (* whether calls out on the luna bus may fail              *)
  OfonoForgets  (* whether a message that ofono has taken may end with no  *)
                (* word of it: ofono or its modem has gone, or somebody    *)
                (* cancelled it                                            *)

ASSUME SmsQueueAssumption ==
  /\ {MaxMessages, MaxTo, MaxSims, MaxOut} \subseteq Nat \ {0}
  /\ {MaxComings, MaxCrashes} \subseteq Nat
  /\ {BusFaults, OfonoForgets} \subseteq BOOLEAN

VARIABLES
  tx_queue, tx_timeout, tx_active,
  sending,    (* the send_sms calls the driver has not reported on, each   *)
              (* at "call": SendMessage is in flight; at "watch": ofono    *)
              (* has the message; or at "lost"                             *)
  db,         (* status of each message in db8, "" before it is written    *)
  spec,       (* what the application wrote                                *)
  toDb,       (* our calls to db8, in order                                *)
  found,      (* db8's answers to our queries: the pending messages        *)
  armed,      (* the activity waits for a pending message                  *)
  slot,       (* slot[s]: gone, there, or initialized                      *)
  sends,      (* sends[m]: send_sms calls made for message m               *)
  delivered,  (* delivered[m]: those reported as sent                      *)
  db_late,    (* history: a timer fired with db8 still to answer           *)
  comings, crashes

outboxVars == <<tx_queue, tx_timeout, tx_active, sending>>
smsVars == <<outboxVars, db, spec, toDb, found, armed, slot, sends, delivered,
             db_late, comings, crashes>>

Message == 1..MaxMessages
Sim     == 0..(MaxSims - 1)
Status  == {"", "pending", "sending", "successful", "failed"}
Outgoing == [to: 1..MaxTo, sim: Sim \cup {-1}, inhibit: BOOLEAN, valid: BOOLEAN]

(* A query is numbered with the life of the daemon that waits for it.      *)
Merge(m, status) == [op |-> "merge", id |-> m, status |-> status]
Find == [op |-> "find", id |-> crashes, status |-> ""]
DbCall == [op: {"merge", "find"}, id: Nat, status: Status]

(* The messages of S, in the order of the timestamps.                      *)
InOrder(S) == {q \in [1..Cardinality(S) -> S] :
                 /\ \A i, j \in DOMAIN q : i < j => q[i] < q[j]
                 /\ \A m \in S : \E i \in DOMAIN q : q[i] = m}

SmsInit ==
  /\ tx_queue = <<>> /\ tx_timeout = "none" /\ tx_active = FALSE /\ sending = {}
  /\ db = [m \in Message |-> ""]
  /\ spec \in [Message -> {[to |-> 1, sim |-> -1, inhibit |-> FALSE, valid |-> TRUE]}]
  /\ toDb = <<>> /\ found = <<>> /\ armed = TRUE
  /\ slot = [s \in Sim |-> "gone"]
  /\ sends = [m \in Message |-> 0] /\ delivered = [m \in Message |-> 0]
  /\ db_late = FALSE /\ comings = 0 /\ crashes = 0

(***************************************************************************)
(* The daemon.                                                             *)
(***************************************************************************)
(* Whether the calls a handler makes go out.                               *)
BusWorks == IF BusFaults THEN BOOLEAN ELSE {TRUE}

(* update_message_status; active is tx_active as the caller leaves it.     *)
update_message_status(merges, active, goesOut) ==
  /\ toDb' = IF goesOut THEN toDb \o merges ELSE toDb
  /\ tx_active' = (active /\ (goesOut \/ merges = <<>>))

(* The activity calls sendSmsFromDb, once, until it is restarted.          *)
send_sms_from_db ==
  /\ armed /\ Len(toDb) + Len(found) < MaxOut
  /\ \E m \in Message : db[m] = "pending"
  /\ armed' = FALSE
  /\ \E ok \in BusWorks : toDb' = IF ok THEN Append(toDb, Find) ELSE toDb
  /\ UNCHANGED <<outboxVars, db, spec, found, slot, sends, delivered, comings, crashes, db_late>>

restart_activity == \E ok \in BusWorks : armed' = (armed \/ ok)

Valid(S) == {m \in S : spec[m].valid}

\* Mutant: the database is not told that a message has been queued.
query_pending_messages_cb_silent ==
  /\ found # <<>>
  /\ found' = Tail(found)
  /\ \E bad \in InOrder(Head(found) \ Valid(Head(found))), ok \in BusWorks :
       update_message_status([i \in DOMAIN bad |-> Merge(bad[i], "failed")], tx_active, ok)
  /\ \E good \in InOrder(Valid(Head(found))) : tx_queue' = tx_queue \o good
  /\ tx_timeout' = IF tx_timeout = "none" THEN "poll" ELSE tx_timeout
  /\ UNCHANGED <<sending, db, spec, armed, slot, sends, delivered, comings, crashes, db_late>>

Queued(m) == Merge(m, IF spec[m].valid THEN "sending" ELSE "failed")

\* Mutant: a timer is only started when there is something to send.
query_pending_messages_cb_lazy ==
  /\ found # <<>>
  /\ found' = Tail(found)
  /\ \E all \in InOrder(Head(found)), ok \in BusWorks :
       update_message_status([i \in DOMAIN all |-> Queued(all[i])], tx_active, ok)
  /\ \E good \in InOrder(Valid(Head(found))) : tx_queue' = tx_queue \o good
  /\ tx_timeout' = IF tx_timeout = "none" /\ tx_queue' # <<>> THEN "poll" ELSE tx_timeout
  /\ UNCHANGED <<sending, db, spec, armed, slot, sends, delivered, comings, crashes, db_late>>

(* Every valid message found is queued, the rest fails; a reply that is an *)
(* error is dropped.                                                       *)
query_pending_messages_cb ==
  /\ found # <<>>
  /\ found' = Tail(found)
  /\ \/ /\ \E all \in InOrder(Head(found)), ok \in BusWorks :
             update_message_status([i \in DOMAIN all |-> Queued(all[i])], tx_active, ok)
        /\ \E good \in InOrder(Valid(Head(found))) : tx_queue' = tx_queue \o good
        /\ tx_timeout' = IF tx_timeout = "none" THEN "poll" ELSE tx_timeout
     \/ BusFaults /\ UNCHANGED <<tx_queue, tx_timeout, tx_active, toDb>>
  /\ UNCHANGED <<sending, db, spec, armed, slot, sends, delivered, comings, crashes, db_late>>

default_sim == LET there == {s \in Sim : slot[s] # "gone"}
               IN  IF there = {} THEN -1 ELSE CHOOSE s \in there : \A t \in there : s <= t

resolve_sms_sim_id(m) ==
  IF spec[m].sim >= 0 /\ slot[spec[m].sim] # "gone" THEN spec[m].sim ELSE default_sim

SendMessage(m, left) == [id |-> m, left |-> left, at |-> "call"]

(* Without a slot, and in one without a message manager, the driver sends  *)
(* nothing.                                                                *)
ofono_send_sms(m, left, others) ==
  /\ resolve_sms_sim_id(m) # -1
  /\ sending' = others \cup {SendMessage(m, left)}

(* process_message: the next recipient's message goes to the driver, which *)
(* takes it, or reports at once that the slot cannot send (a failure, with *)
(* all that send_msg_cb does then).                                        *)
process_message(m, left, others) ==
  \/ /\ ofono_send_sms(m, left - 1, others)
     /\ sends' = [sends EXCEPT ![m] = @ + 1]
     /\ tx_active' = TRUE
     /\ UNCHANGED toDb
  \/ /\ sending' = others
     /\ \E ok \in BusWorks : update_message_status(<<Merge(m, "failed")>>, FALSE, ok)
     /\ UNCHANGED sends

\* Mutant: a failure for one recipient is forgotten when the next one follows.
send_msg_cb_forgets(c, success) ==
  /\ delivered' = [delivered EXCEPT ![c.id] = @ + (IF success THEN 1 ELSE 0)]
  /\ IF c.left > 0
     THEN process_message(c.id, c.left, sending \ {c})
     ELSE /\ sending' = sending \ {c}
          /\ \E ok \in BusWorks :
               update_message_status(
                 <<Merge(c.id, IF success THEN "successful" ELSE "failed")>>, FALSE, ok)
          /\ UNCHANGED sends

(* The driver reports on one recipient.                                    *)
send_msg_cb(c, success) ==
  /\ delivered' = [delivered EXCEPT ![c.id] = @ + (IF success THEN 1 ELSE 0)]
  /\ IF success /\ c.left > 0
     THEN process_message(c.id, c.left, sending \ {c})
     ELSE /\ sending' = sending \ {c}
          /\ \E ok \in BusWorks :
               update_message_status(
                 <<Merge(c.id, IF success THEN "successful" ELSE "failed")>>, FALSE, ok)
          /\ UNCHANGED sends

ofono_message_watch_create(c) == [c EXCEPT !.at = "watch"]

(* SendMessage is answered, also when the message manager has gone: with   *)
(* an error, or the message, which gets a watch.  Without one the message  *)
(* is reported as failed, though ofono has it.                             *)
send_sms_cb ==
  /\ \E c \in sending :
       /\ c.at = "call"
       /\ \/ send_msg_cb(c, FALSE)
          \/ /\ sending' = (sending \ {c}) \cup {ofono_message_watch_create(c)}
             /\ UNCHANGED <<tx_active, toDb, sends, delivered>>
  /\ UNCHANGED <<tx_queue, tx_timeout, db, spec, found, armed, slot, comings, crashes, db_late>>

(* The states of a message that its watch passes on, and that the driver   *)
(* acts on: sent and failed, in the answer to GetProperties or a signal.   *)
update_property(c, success) == c.at = "watch" /\ send_msg_cb(c, success)

message_status_cb ==
  /\ \E c \in sending :
       \/ \E success \in BOOLEAN : update_property(c, success)
       \/ /\ OfonoForgets /\ c.at = "watch"
          /\ sending' = (sending \ {c}) \cup {[c EXCEPT !.at = "lost"]}
          /\ UNCHANGED <<tx_active, toDb, sends, delivered>>
  /\ UNCHANGED <<tx_queue, tx_timeout, db, spec, found, armed, slot, comings, crashes, db_late>>

(* The timers take 0.1 to 5 seconds; db8 has usually answered by then.     *)
TimerFires ==
  db_late' = \/ db_late \/ found # <<>>
             \/ \E i \in DOMAIN toDb : toDb[i].op = "merge" \/ toDb[i] = Find

(* tx_timeout_cb, one action for each way out of it: a send is under way,  *)
(* nothing is queued, the slot is not ready, or a message goes.            *)
Polls == tx_timeout = "poll" /\ TimerFires

tx_wait ==
  /\ Polls /\ tx_active
  /\ UNCHANGED <<outboxVars, db, spec, toDb, found, armed, slot, sends, delivered, comings, crashes>>

tx_empty ==
  /\ Polls /\ ~tx_active /\ tx_queue = <<>>
  /\ tx_timeout' = "none"
  /\ restart_activity
  /\ UNCHANGED <<tx_queue, tx_active, sending, db, spec, toDb, found, slot, sends, delivered,
                 comings, crashes>>

Ready(m) == resolve_sms_sim_id(m) # -1 /\ slot[resolve_sms_sim_id(m)] = "initialized"

tx_not_ready ==
  /\ Polls /\ ~tx_active /\ tx_queue # <<>>
  /\ ~Ready(Head(tx_queue))
  /\ tx_timeout' = "restart"
  /\ restart_activity
  /\ UNCHANGED <<tx_queue, tx_active, sending, db, spec, toDb, found, slot, sends, delivered,
                 comings, crashes>>

\* Mutant: a send under way does not keep the next one back.
tx_send_eager ==
  /\ Polls /\ tx_queue # <<>>
  /\ Ready(Head(tx_queue))
  /\ tx_queue' = Tail(tx_queue)
  /\ IF spec[Head(tx_queue)].inhibit
     THEN /\ \E ok \in BusWorks :
               update_message_status(<<Merge(Head(tx_queue), "successful")>>, FALSE, ok)
          /\ UNCHANGED <<sending, sends>>
     ELSE process_message(Head(tx_queue), spec[Head(tx_queue)].to, sending)
  /\ UNCHANGED <<tx_timeout, db, spec, found, armed, slot, delivered, comings, crashes>>

tx_send ==
  /\ Polls /\ ~tx_active /\ tx_queue # <<>>
  /\ Ready(Head(tx_queue))
  /\ tx_queue' = Tail(tx_queue)
  /\ IF spec[Head(tx_queue)].inhibit
     THEN /\ \E ok \in BusWorks :
               update_message_status(<<Merge(Head(tx_queue), "successful")>>, FALSE, ok)
          /\ UNCHANGED <<sending, sends>>
     ELSE process_message(Head(tx_queue), spec[Head(tx_queue)].to, sending)
  /\ UNCHANGED <<tx_timeout, db, spec, found, armed, slot, delivered, comings, crashes>>

restart_tx_queue_cb ==
  /\ tx_timeout = "restart" /\ TimerFires
  /\ tx_timeout' = "poll"
  /\ UNCHANGED <<tx_queue, tx_active, sending, db, spec, toDb, found, armed, slot, sends,
                 delivered, comings, crashes>>

(* The daemon dies and starts again.  What it had called had gone out; the *)
(* answers are lost; telephonyservice_sms_setup restarts the activity.     *)
Crash ==
  /\ crashes < MaxCrashes
  /\ crashes' = crashes + 1
  /\ tx_queue' = <<>> /\ tx_timeout' = "none" /\ tx_active' = FALSE /\ sending' = {}
  /\ found' = <<>>
  /\ restart_activity
  /\ UNCHANGED <<toDb, db, spec, slot, sends, delivered, comings, db_late>>

(***************************************************************************)
(* The others: external.                                                   *)
(***************************************************************************)
(* The application writes its next message to the outbox.  With one slot   *)
(* it makes no difference whether the message names it.                    *)
Write ==
  /\ \E m \in Message, o \in Outgoing :
       /\ db[m] = "" /\ \A k \in 1..(m - 1) : db[k] # ""
       /\ ~o.valid => o.sim = -1 /\ ~o.inhibit /\ o.to = 1
       /\ o.inhibit => o.to = 1
       /\ MaxSims = 1 => o.sim = -1
       /\ db' = [db EXCEPT ![m] = "pending"]
       /\ spec' = [spec EXCEPT ![m] = o]
  /\ UNCHANGED <<outboxVars, toDb, found, armed, slot, sends, delivered, comings, crashes, db_late>>

(* db8 takes our next call.  Nobody reads the answer to an earlier life.   *)
DbHandles ==
  /\ toDb # <<>>
  /\ toDb' = Tail(toDb)
  /\ IF Head(toDb).op = "find"
     THEN /\ found' = IF Head(toDb) = Find
                      THEN Append(found, {m \in Message : db[m] = "pending"}) ELSE found
          /\ UNCHANGED db
     ELSE /\ \E ok \in BusWorks :
               db' = IF ok THEN [db EXCEPT ![Head(toDb).id] = Head(toDb).status] ELSE db
          /\ UNCHANGED found
  /\ UNCHANGED <<outboxVars, spec, armed, slot, sends, delivered, comings, crashes, db_late>>

SlotComesUp ==
  /\ \E s \in Sim : slot[s] # "initialized" /\ slot' = [slot EXCEPT ![s] = "initialized"]
  /\ UNCHANGED <<outboxVars, db, spec, toDb, found, armed, sends, delivered, comings, crashes, db_late>>

SlotGoesDown ==
  /\ comings < MaxComings
  /\ comings' = comings + 1
  /\ \E s \in Sim, to \in {"gone", "there"} :
       slot[s] # to /\ slot' = [slot EXCEPT ![s] = to]
  /\ UNCHANGED <<outboxVars, db, spec, toDb, found, armed, sends, delivered, crashes, db_late>>

Daemon ==
  \/ query_pending_messages_cb \/ send_sms_cb \/ message_status_cb
  \/ tx_empty \/ tx_not_ready \/ tx_send \/ restart_tx_queue_cb

SmsNext ==
  Daemon \/ send_sms_from_db \/ DbHandles \/ tx_wait \/ Write \/ SlotComesUp \/ SlotGoesDown
         \/ Crash

SmsSpec == SmsInit /\ [][SmsNext]_smsVars

(* The main loop dispatches timers and replies; the activity manager, db8  *)
(* and ofono answer.  The slot comes up again: that is asked for where the *)
(* outbox is run.                                                          *)
SmsFairness ==
  /\ WF_smsVars(query_pending_messages_cb)
  /\ WF_smsVars(send_sms_cb) /\ WF_smsVars(message_status_cb)
  /\ WF_smsVars(tx_empty \/ tx_not_ready \/ tx_send \/ restart_tx_queue_cb)
  /\ WF_smsVars(send_sms_from_db) /\ WF_smsVars(DbHandles)

-----------------------------------------------------------------------------
(* Every variable keeps its type; nobody gets more messages than written.  *)
SmsTypeOK ==
  /\ tx_queue \in Seq(Message) /\ tx_timeout \in {"none", "poll", "restart"}
  /\ tx_active \in BOOLEAN
  /\ sending \subseteq [id: Message, left: 0..(MaxTo - 1), at: {"call", "watch", "lost"}]
  /\ db \in [Message -> Status] /\ spec \in [Message -> Outgoing]
  /\ toDb \in Seq(DbCall) /\ found \in Seq(SUBSET Message)
  /\ armed \in BOOLEAN /\ slot \in [Sim -> {"gone", "there", "initialized"}]
  /\ sends \in [Message -> Nat] /\ delivered \in [Message -> Nat]
  /\ comings \in 0..MaxComings /\ crashes \in 0..MaxCrashes

(* No recipient is sent a message twice, whether the daemon restarts or    *)
(* the activity fires while the queue is being worked on, provided db8     *)
(* answers before the next timer: see the README for when it does not.     *)
AtMostOnce == ~db_late => \A m \in Message : sends[m] <= spec[m].to

(* "block others from sending at the same time": the driver has one        *)
(* send_sms call to report on at most.                                     *)
OneAtATime == Cardinality(sending) <= 1

(* The status in the database tells what happened: "successful" when every *)
(* recipient was sent the message, "failed" only when one was not.         *)
StatusIsTrue ==
  ~db_late => \A m \in Message :
    /\ db[m] = "successful" => spec[m].inhibit \/ delivered[m] = spec[m].to
    /\ db[m] = "failed" => ~spec[m].valid \/ delivered[m] < spec[m].to

(* A message that is still pending when the last restart is over, with no  *)
(* call of the earlier life under way, ends up sent or failed.             *)
Untouched(m) == db[m] = "pending" /\ toDb = <<>>
Settled(m) == db[m] \in {"successful", "failed"}

EveryMessageSettles ==
  \A m \in Message : (crashes = MaxCrashes /\ Untouched(m)) ~> Settled(m)
=============================================================================
