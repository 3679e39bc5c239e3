----------------------------- MODULE WanStatus -----------------------------
(***************************************************************************)
(* com.palm.wan/getstatus (wanservice.c): the modem that packet data runs  *)
(* on, its connection manager and contexts, and the status made of them    *)
(* for a client that asks and for those that have subscribed (wan.c,       *)
(* ofonoconnectionmanager.c, ofonoconnectioncontext.c).  ofono is the      *)
(* environment.  wan_disabled is WanSet's.  The properties of a connection *)
(* manager, of a network registration and of a context are one bit each.   *)
(***************************************************************************)
EXTENDS WanData, FiniteSetsExt

CONSTANTS
  MaxModem,       (* modems are 0..MaxModem, in the order of their paths   *)
  Context,        (* the contexts of a modem                               *)
  Client,         (* clients that ask for the status                       *)
  MaxMoves        (* bound: changes of ofono, of the modems, of their      *)
                  (* interfaces and of the data SIM                        *)

ASSUME WanStatusAssumption ==
  /\ {MaxModem, MaxMoves} \subseteq Nat
  /\ "update" \notin Client

VARIABLES
  manager,        (* ofono_manager is there                                *)
  modems,         (* the modems on its list                                *)
  interfaces,     (* what each modem's object has heard of its interfaces  *)
  handled,        (* modems with modem_prop_changed_cb as their handler    *)
  data_sim_id,
  modem,          (* the modem followed, or NoModem                        *)
  cm,             (* its connection manager, or NoCm                       *)
  netreg,         (* "none", or whether its registration tells a network   *)
  status_update_pending,
  calls,          (* GetContexts calls in flight                           *)
  waiting,        (* clients not yet answered                              *)
  told,           (* the last status the subscribers have been sent        *)
  moves

choice == <<manager, modems, interfaces, handled, data_sim_id, modem>>
status == <<cm, status_update_pending, calls, told>>
wanStatusVars == <<choice, status, netreg, wan_disabled, waiting, moves>>

Modem == 0..MaxModem
NoModem == -1
Interface == {"cm", "netreg"}

(* heard: its properties have been reported.  fetch: GetContexts has not   *)
(* been called ("no"), is in flight, has failed, or has been answered, to  *)
(* an update or to a client.  watched: contexts whose changes are handled. *)
NoCm == [of |-> NoModem, heard |-> FALSE, attached |-> FALSE, fetch |-> "no",
         contexts |-> {}, active |-> {}, watched |-> {}]
NewCm(m) == [NoCm EXCEPT !.of = m]

NoStatus == [attached |-> FALSE, network |-> "none", disabled |-> FALSE,
             contexts |-> {}, active |-> {}]

WanStatusInit ==
  /\ manager = FALSE /\ modems = {} /\ interfaces = [m \in Modem |-> {}] /\ handled = {}
  /\ data_sim_id = 0 /\ modem = NoModem
  /\ cm = NoCm /\ netreg = "none" /\ wan_disabled = FALSE
  /\ status_update_pending = FALSE /\ calls = {} /\ waiting = {} /\ told = NoStatus
  /\ moves = 0

(***************************************************************************)
(* The status.  c, n and d are cm, netreg and wan_disabled with the change *)
(* that led to it, k the calls in flight.                                  *)
(***************************************************************************)
StatusOf(c, n, d) ==
  [attached |-> c.attached, network |-> IF n = "lte" THEN "lte" ELSE "none",
   disabled |-> d, contexts |-> c.contexts, active |-> c.active]

(* get_contexts_cb takes on the changes of every context it is given.      *)
Reported(c) == [c EXCEPT !.watched = c.contexts]

AtOnce(c) == c = NoCm \/ c.fetch # "no"

(* One at a time; without a connection manager the answer is an error,     *)
(* which the subscribers are not told.                                     *)
send_status_update_cb(c, n, d, k) ==
  IF status_update_pending
  THEN cm' = c /\ calls' = k /\ UNCHANGED <<status_update_pending, told>>
  ELSE /\ status_update_pending' = ~AtOnce(c)
       /\ calls' = IF AtOnce(c) THEN k ELSE k \cup {[who |-> "update", lost |-> FALSE]}
       /\ cm' = IF c = NoCm THEN c
                ELSE IF AtOnce(c) THEN Reported(c) ELSE [c EXCEPT !.fetch = "asked"]
       /\ told' = IF c # NoCm /\ AtOnce(c) THEN StatusOf(c, n, d) ELSE told

(* A client that subscribes is answered with the status, or an error.      *)
getstatus(g) ==
  /\ g \notin waiting
  /\ IF AtOnce(cm)
     THEN cm' = (IF cm = NoCm THEN cm ELSE Reported(cm)) /\ UNCHANGED <<calls, waiting>>
     ELSE /\ waiting' = waiting \cup {g}
          /\ calls' = calls \cup {[who |-> g, lost |-> FALSE]}
          /\ cm' = [cm EXCEPT !.fetch = "asked"]
  /\ UNCHANGED <<choice, status_update_pending, told, netreg, wan_disabled, moves>>

(* Whoever asked is answered, be it with an error.                         *)
Answered(k) ==
  /\ calls' = calls \ {k}
  /\ status_update_pending' = (status_update_pending /\ k.who # "update")
  /\ waiting' = waiting \ {k.who}

\* Mutant: a call that was cancelled is not answered.
GetContextsFails_silently(k) ==
  /\ IF k.lost THEN calls' = calls \ {k} /\ UNCHANGED <<cm, status_update_pending, waiting>>
     ELSE Answered(k) /\ cm' = [cm EXCEPT !.fetch = "failed"]
  /\ UNCHANGED <<choice, told, netreg, wan_disabled, moves>>

(* The answer of a call that was cancelled does not touch the manager.     *)
GetContextsFails(k) ==
  /\ Answered(k)
  /\ cm' = IF k.lost THEN cm ELSE [cm EXCEPT !.fetch = "failed"]
  /\ UNCHANGED <<choice, told, netreg, wan_disabled, moves>>

(* A cancelled call is answered from the main loop, before anything that   *)
(* ofono sends to a later connection manager.                              *)
NothingLost == \A k \in calls : ~k.lost

GetContextsReply(k) ==
  /\ NothingLost
  /\ Answered(k)
  /\ \E new \in SUBSET Context :
       LET c == Reported([cm EXCEPT !.contexts = @ \cup new,
                            !.fetch = IF k.who = "update" THEN "update" ELSE "client"])
       IN  /\ cm' = c
           /\ told' = IF k.who = "update" THEN StatusOf(c, netreg, wan_disabled) ELSE told
  /\ UNCHANGED <<choice, netreg, wan_disabled, moves>>

(***************************************************************************)
(* What changes the status.                                                *)
(***************************************************************************)
manager_property_changed_cb ==
  /\ cm # NoCm /\ NothingLost
  /\ \E v \in BOOLEAN :
       send_status_update_cb([cm EXCEPT !.heard = TRUE, !.attached = v],
                             netreg, wan_disabled, calls)
  /\ UNCHANGED <<choice, netreg, wan_disabled, waiting, moves>>

network_prop_changed_cb ==
  /\ netreg # "none"
  /\ netreg' \in {"unknown", "lte"}
  /\ send_status_update_cb(cm, netreg', wan_disabled, calls)
  /\ UNCHANGED <<choice, wan_disabled, waiting, moves>>

(* A context is not handled before a status with it has been made.         *)
context_prop_changed_cb ==
  /\ NothingLost
  /\ \E x \in cm.contexts, on \in BOOLEAN :
       LET c == [cm EXCEPT !.active = IF on THEN @ \cup {x} ELSE @ \ {x}]
       IN  IF x \in cm.watched
           THEN send_status_update_cb(c, netreg, wan_disabled, calls)
           ELSE cm' = c /\ UNCHANGED <<status_update_pending, calls, told>>
  /\ UNCHANGED <<choice, netreg, wan_disabled, waiting, moves>>

\* Mutant: nobody is told.
context_added_cb_silent ==
  /\ cm # NoCm /\ NothingLost
  /\ \E x \in Context \ cm.contexts : cm' = [cm EXCEPT !.contexts = @ \cup {x}]
  /\ UNCHANGED <<status_update_pending, calls, told, choice, netreg, wan_disabled, waiting, moves>>

context_added_cb ==
  /\ cm # NoCm /\ NothingLost
  /\ \E x \in Context \ cm.contexts :
       send_status_update_cb([cm EXCEPT !.contexts = @ \cup {x}], netreg, wan_disabled, calls)
  /\ UNCHANGED <<choice, netreg, wan_disabled, waiting, moves>>

(* The subscribers are told even of a context that was not known.          *)
context_removed_cb ==
  /\ cm # NoCm /\ NothingLost
  /\ \E x \in Context :
       send_status_update_cb([cm EXCEPT !.contexts = @ \ {x}, !.active = @ \ {x},
                                        !.watched = @ \ {x}], netreg, wan_disabled, calls)
  /\ UNCHANGED <<choice, netreg, wan_disabled, waiting, moves>>

(* The current cellular service goes up or down.                           *)
handle_current_service_property ==
  /\ wan_disabled' = ~wan_disabled
  /\ send_status_update_cb(cm, netreg, wan_disabled', calls)
  /\ UNCHANGED <<choice, netreg, waiting, moves>>

(***************************************************************************)
(* The modem.                                                              *)
(***************************************************************************)
Moves == moves < MaxMoves /\ moves' = moves + 1

(* What becomes of the calls of a connection manager that is freed.        *)
Lost == {[k EXCEPT !.lost = TRUE] : k \in calls}

(* The handler knows which modem it is for only as the one followed.       *)
modem_prop_changed_cb(m, known) ==
  LET has == IF m = NoModem THEN {} ELSE known[m]
      c == IF cm = NoCm /\ "cm" \in has THEN NewCm(m)
           ELSE IF "cm" \notin has THEN NoCm ELSE cm
      k == IF c = NoCm THEN Lost ELSE calls
  IN  IF netreg # "none" /\ "netreg" \notin has
      THEN netreg' = "none" /\ send_status_update_cb(c, "none", wan_disabled, k)
      ELSE /\ netreg' = IF netreg = "none" /\ "netreg" \in has THEN "unknown" ELSE netreg
           /\ cm' = c /\ calls' = k /\ UNCHANGED <<status_update_pending, told>>

interfaces_changed ==
  /\ Moves
  /\ \E m \in modems, now \in SUBSET Interface :
       /\ interfaces' = [interfaces EXCEPT ![m] = now]
       /\ IF m \in handled THEN modem_prop_changed_cb(modem, interfaces')
          ELSE UNCHANGED <<status, netreg>>
  /\ UNCHANGED <<manager, modems, handled, data_sim_id, modem, wan_disabled, waiting>>

(* The nth modem of the list, or the first.                                *)
DataModem(list, n) ==
  IF list = {} THEN NoModem
  ELSE IF \E m \in list : Cardinality({x \in list : x < m}) = n
       THEN CHOOSE m \in list : Cardinality({x \in list : x < m}) = n
       ELSE Min(list)

\* Mutant: what the last modem had is kept.
select_data_modem_keeps(list, n, known) ==
  /\ modem' = DataModem(list, n)
  /\ handled' = (handled \cap list) \cup ({modem'} \ {NoModem})
  /\ UNCHANGED <<status, netreg>>

(* detach_from_modem frees what belongs to the modem; the update that      *)
(* follows finds no connection manager.  What the new one has told before  *)
(* is not asked for.                                                       *)
select_data_modem(list, n, known) ==
  /\ modem' = DataModem(list, n)
  /\ handled' = (handled \cap list) \cup ({modem'} \ {NoModem})
  /\ IF modem' = modem
     THEN UNCHANGED <<status, netreg>>
     ELSE netreg' = "none" /\ send_status_update_cb(NoCm, "none", wan_disabled, Lost)

(* ModemAdded and ModemRemoved say one, GetModems may add several.         *)
modems_changed_cb ==
  /\ manager /\ Moves
  /\ \E list \in SUBSET Modem :
       /\ \/ modems \subseteq list
          \/ list \subseteq modems /\ Cardinality(modems \ list) = 1
       /\ list # modems
       /\ modems' = list
       /\ interfaces' = [m \in Modem |-> IF m \in modems \cap list THEN interfaces[m] ELSE {}]
       /\ select_data_modem(list, data_sim_id, interfaces')
  /\ UNCHANGED <<manager, data_sim_id, wan_disabled, waiting>>

ofono_wan_set_data_sim ==
  /\ Moves
  /\ \E n \in Modem :
       /\ n # data_sim_id /\ data_sim_id' = n
       /\ IF manager THEN select_data_modem(modems, n, interfaces)
          ELSE UNCHANGED <<status, netreg, handled, modem>>
  /\ UNCHANGED <<manager, modems, interfaces, wan_disabled, waiting>>

service_appeared_cb ==
  /\ ~manager /\ manager' = TRUE
  /\ UNCHANGED <<modems, interfaces, handled, data_sim_id, modem, status, netreg,
                 wan_disabled, waiting, moves>>

service_vanished_cb ==
  /\ manager /\ Moves
  /\ manager' = FALSE /\ modems' = {} /\ interfaces' = [m \in Modem |-> {}] /\ handled' = {}
  /\ modem' = NoModem /\ cm' = NoCm /\ netreg' = "none" /\ calls' = Lost
  /\ UNCHANGED <<data_sim_id, wan_disabled, status_update_pending, waiting, told>>

WanStatusNext ==
  \/ \E g \in Client : getstatus(g)
  \/ \E k \in calls : GetContextsReply(k) \/ GetContextsFails(k)
  \/ manager_property_changed_cb \/ network_prop_changed_cb
  \/ context_prop_changed_cb \/ context_added_cb \/ context_removed_cb
  \/ handle_current_service_property
  \/ interfaces_changed \/ modems_changed_cb \/ ofono_wan_set_data_sim
  \/ service_appeared_cb \/ service_vanished_cb

WanStatusSpec == WanStatusInit /\ [][WanStatusNext]_wanStatusVars

-----------------------------------------------------------------------------
(* Every variable keeps its type; a connection manager has one call of its *)
(* own in flight at most.                                                  *)
WanStatusTypeOK ==
  /\ {manager, wan_disabled, status_update_pending} \subseteq BOOLEAN
  /\ modems \subseteq Modem /\ handled \subseteq modems /\ data_sim_id \in Modem
  /\ interfaces \in [Modem -> SUBSET Interface]
  /\ cm.fetch \in {"no", "asked", "failed", "update", "client"}
  /\ cm.watched \subseteq cm.contexts /\ cm.active \subseteq cm.contexts
  /\ netreg \in {"none", "unknown", "lte"} /\ waiting \subseteq Client
  /\ Cardinality({k \in calls : ~k.lost}) = IF cm.fetch = "asked" THEN 1 ELSE 0

(* The marker that holds back updates, and the clients that wait, are      *)
(* there exactly as long as a call in flight will answer them, also when   *)
(* the modem, its interface or ofono goes: "the caller is always answered  *)
(* so pending requests further up are released".                           *)
NobodyWaitsForNothing ==
  /\ status_update_pending <=> \E k \in calls : k.who = "update"
  /\ waiting = {k.who : k \in calls} \ {"update"}

(* What is told is of the modem that packet data is to run on, and of no   *)
(* other.                                                                  *)
FollowsTheDataSim ==
  /\ modem = DataModem(modems, data_sim_id)
  /\ cm # NoCm => cm.of = modem

(* Although a change that comes while an update is being made is not told  *)
(* again, the subscribers have been told what holds now, unless GetContexts*)
(* has failed; the contexts, unless a client was the first to ask.         *)
StatusIsCurrent ==
  cm.heard /\ ~status_update_pending /\ cm.fetch # "failed" =>
    LET now == StatusOf(cm, netreg, wan_disabled)
    IN  /\ \A f \in {"attached", "network", "disabled"} : told[f] = now[f]
        /\ cm.fetch # "client" => told = now
=============================================================================
