----------------------------- MODULE WanProofs -----------------------------
(***************************************************************************)
(* Proofs about the data connection, for any modems, contexts, clients,    *)
(* sets and services.  WanStatus: what is told of the status, and that     *)
(* whoever waits for it is answered.  WanSet: what the success of a set    *)
(* means.                                                                  *)
(***************************************************************************)
EXTENDS WanSet, WanStatus, FiniteSetTheorems, WellFoundedInduction, TLAPS

-----------------------------------------------------------------------------
(* The invariant of WanStatus, of the calls k in flight and of a           *)
(* connection manager c of the modem m, which a step may be about to set.  *)

ContextsCall == [who : Client \cup {"update"}, lost : BOOLEAN]

(* A caller has one call; whoever waits is a caller.                       *)
Callers(k, pending) ==
  /\ k \subseteq ContextsCall /\ pending \in BOOLEAN
  /\ \A i, j \in k : i.who = j.who => i = j
  /\ pending <=> \E j \in k : j.who = "update"

WaitersCall(k, clients) == clients = {j.who : j \in k} \ {"update"}

Cm == [of : Modem \cup {NoModem}, heard : BOOLEAN, attached : BOOLEAN,
       fetch : {"no", "asked", "failed", "update", "client"},
       contexts : SUBSET Context, active : SUBSET Context, watched : SUBSET Context]

(* The connection manager is of the modem followed, and has the one call   *)
(* that is not lost; while there are lost ones it has heard nothing.       *)
CmMatches(c, k, m) ==
  /\ c \in Cm /\ c.watched \subseteq c.contexts /\ c.active \subseteq c.contexts
  /\ c = NoCm \/ (c.of = m /\ m \in Modem)
  /\ \A i, j \in k : ~i.lost /\ ~j.lost => i = j
  /\ c.fetch = "asked" <=> \E j \in k : ~j.lost
  /\ (\E j \in k : j.lost) => ~c.heard /\ c.contexts = {}

(* Without an update under way everything was watched and told, unless a   *)
(* client was the first to ask.                                            *)
CmIsTold ==
  /\ cm.heard => cm.fetch # "no"
  /\ cm.fetch = "no" => cm.contexts = {}
  /\ ~status_update_pending /\ cm.fetch \notin {"failed", "client"} => cm.watched = cm.contexts
  /\ StatusIsCurrent

ModemMatches ==
  /\ {manager, wan_disabled} \subseteq BOOLEAN /\ netreg \in {"none", "unknown", "lte"}
  /\ modems \subseteq Modem /\ handled \subseteq modems /\ data_sim_id \in Modem
  /\ interfaces \in [Modem -> SUBSET Interface]
  /\ modem = DataModem(modems, data_sim_id)
  /\ ~manager => modems = {}

StatusInv ==
  /\ ModemMatches /\ Callers(calls, status_update_pending) /\ WaitersCall(calls, waiting)
  /\ CmMatches(cm, calls, modem) /\ CmIsTold

-----------------------------------------------------------------------------
(* The modem that is followed is on the list, if that is not empty.        *)
LEMMA DataModemIsListed ==
  ASSUME NEW list \in SUBSET Modem, NEW n
  PROVE  DataModem(list, n) \in list \cup {NoModem}
<1>1. CASE list = {}
  BY <1>1 DEF DataModem
<1>2. CASE \E m \in list : Cardinality({x \in list : x < m}) = n
  BY <1>2 DEF DataModem
<1>3. CASE list # {} /\ ~ \E m \in list : Cardinality({x \in list : x < m}) = n
  <2>. DEFINE less == {ss \in Nat \X Nat : ss[1] < ss[2]}
  <2>1. less = OpToRel(<, Nat)
    BY Zenon DEF OpToRel
  <2>. HIDE DEF less
  <2>2. IsWellFoundedOn(less, Nat)
    BY <2>1, NatLessThanWellFounded, Zenon
  <2>3. list \subseteq Nat
    BY WanStatusAssumption DEF Modem
  <2>4. PICK m \in list : \A k \in list : ~ (<<k, m>> \in less)
    BY <1>3, <2>2, <2>3, WFMin
  <2>5. ASSUME NEW k \in list, ~(m =< k) PROVE FALSE
    <3>1. k < m /\ k \in Nat /\ m \in Nat
      BY <2>3, <2>5
    <3>2. <<k, m>> \in less
      BY <3>1 DEF less
    <3>. QED
      BY <2>4, <3>2
  <2>6. Min(list) \in list
    BY <2>5 DEF Min
  <2>. QED
    BY <1>3, <2>6 DEF DataModem
<1>. QED
  BY <1>1, <1>2, <1>3

(* Nothing is a connection manager that has nothing.                       *)
LEMMA NoCmIsCm ==
  /\ NoCm \in Cm /\ NoCm.fetch = "no" /\ NoCm.contexts = {} /\ NoCm.watched = {}
  /\ NoCm.active = {} /\ ~NoCm.heard /\ NoCm.of = NoModem
BY DEF NoCm, Cm

(* Calls that are lost are still of the same callers.                      *)
LEMMA LostMatches ==
  ASSUME Callers(calls, status_update_pending), WaitersCall(calls, waiting), NEW m
  PROVE  /\ Callers(Lost, status_update_pending) /\ WaitersCall(Lost, waiting)
         /\ CmMatches(NoCm, Lost, m)
<1>. DEFINE lose(k) == [k EXCEPT !.lost = TRUE]
<1>1. Lost = {lose(k) : k \in calls}
  BY DEF Lost
<1>2. \A k \in calls : lose(k) \in ContextsCall /\ lose(k).who = k.who /\ lose(k).lost = TRUE
  BY DEF Callers, ContextsCall
<1>. HIDE DEF lose
<1>3. \A k \in Lost : k.lost = TRUE
  BY <1>1, <1>2
<1>4. \A j, k \in calls : lose(j).who = lose(k).who => lose(j) = lose(k)
  BY <1>2 DEF Callers
<1>5. Callers(Lost, status_update_pending)
  BY <1>1, <1>2, <1>4 DEF Callers
<1>6. WaitersCall(Lost, waiting)
  BY <1>1, <1>2 DEF WaitersCall
<1>7. CmMatches(NoCm, Lost, m)
  BY <1>3, NoCmIsCm DEF CmMatches
<1>. QED
  BY <1>5, <1>6, <1>7

(* Making an update: whatever connection manager and calls it starts from, *)
(* the subscribers are told, or will be by the call in flight.             *)
LEMMA UpdateKeeps ==
  ASSUME NEW c, NEW n, NEW d, NEW k, send_status_update_cb(c, n, d, k),
         Callers(k, status_update_pending), WaitersCall(k, waiting), CmMatches(c, k, modem'),
         netreg' = n, wan_disabled' = d, UNCHANGED waiting
  PROVE  /\ Callers(calls', status_update_pending') /\ WaitersCall(calls', waiting')
         /\ CmMatches(cm', calls', modem') /\ CmIsTold'
<1>. USE DEF send_status_update_cb
<1>1. CASE status_update_pending
  <2>1. cm' = c /\ calls' = k /\ status_update_pending' = TRUE
    BY <1>1 DEF Callers
  <2>2. c.heard \/ c.contexts # {} => c.fetch = "asked"
    BY <1>1 DEF Callers, CmMatches
  <2>3. CmIsTold'
    BY <2>1, <2>2 DEF CmIsTold, StatusIsCurrent
  <2>. QED
    BY <1>1, <2>1, <2>3
<1>2. CASE ~status_update_pending /\ AtOnce(c)
  <2>1. status_update_pending' = FALSE /\ calls' = k
    BY <1>2
  <2>2. CASE c = NoCm
    BY <1>2, <2>1, <2>2, NoCmIsCm DEF CmIsTold, StatusIsCurrent, Callers
  <2>3. CASE c # NoCm
    <3>1. cm' = Reported(c) /\ told' = StatusOf(c, n, d) /\ c.fetch # "no"
      BY <1>2, <2>3 DEF AtOnce
    <3>2. /\ Reported(c) \in Cm /\ Reported(c).watched = c.contexts
          /\ Reported(c).contexts = c.contexts /\ Reported(c).active = c.active
          /\ Reported(c).of = c.of /\ Reported(c).heard = c.heard
          /\ Reported(c).attached = c.attached /\ Reported(c).fetch = c.fetch
      BY DEF Reported, CmMatches, Cm
    <3>. HIDE DEF Reported
    <3>3. CmMatches(cm', calls', modem')
      BY <2>1, <2>3, <3>1, <3>2, NoCmIsCm DEF CmMatches
    <3>4. told' = StatusOf(cm', netreg', wan_disabled')
      BY <3>1, <3>2 DEF StatusOf
    <3>5. CmIsTold'
      BY <3>1, <3>2, <3>4 DEF CmIsTold, StatusIsCurrent
    <3>6. Callers(calls', status_update_pending') /\ WaitersCall(calls', waiting')
      BY <1>2, <2>1 DEF Callers
    <3>. QED
      BY <3>3, <3>5, <3>6
  <2>. QED
    BY <2>2, <2>3
<1>3. CASE ~status_update_pending /\ ~AtOnce(c)
  <2>. DEFINE call == [who |-> "update", lost |-> FALSE]
  <2>1. /\ status_update_pending' = TRUE /\ calls' = k \cup {call}
        /\ cm' = [c EXCEPT !.fetch = "asked"]
    BY <1>3 DEF AtOnce
  <2>2. call \in ContextsCall /\ call.who = "update" /\ ~call.lost
    BY DEF ContextsCall
  <2>3. c # NoCm /\ c.fetch = "no"
    BY <1>3 DEF AtOnce
  <2>4. \A j \in k : j.lost /\ j.who # "update"
    BY <1>3, <2>3 DEF CmMatches, Callers
  <2>. HIDE DEF call
  <2>5. Callers(calls', status_update_pending') /\ WaitersCall(calls', waiting')
    BY <2>1, <2>2, <2>4 DEF Callers, WaitersCall
  <2>6. /\ cm' \in Cm /\ cm'.fetch = "asked" /\ cm'.contexts = c.contexts
        /\ cm'.watched = c.watched /\ cm'.active = c.active /\ cm'.of = c.of /\ cm'.heard = c.heard
    BY <2>1 DEF CmMatches, Cm
  <2>7. CmMatches(cm', calls', modem')
    BY <2>1, <2>2, <2>3, <2>4, <2>6 DEF CmMatches
  <2>8. CmIsTold'
    BY <2>1, <2>6 DEF CmIsTold, StatusIsCurrent
  <2>. QED
    BY <2>5, <2>7, <2>8
<1>. QED
  BY <1>1, <1>2, <1>3

-----------------------------------------------------------------------------
(* Nothing is known, and nobody waits.                                     *)
LEMMA StatusInitHolds == WanStatusInit => StatusInv
<1>. SUFFICES ASSUME WanStatusInit PROVE StatusInv
  OBVIOUS
<1>1. ModemMatches
  <2>1. interfaces \in [Modem -> SUBSET Interface]
    BY DEF WanStatusInit
  <2>2. modem = DataModem(modems, data_sim_id)
    BY DEF WanStatusInit, DataModem
  <2>3. data_sim_id \in Modem
    BY WanStatusAssumption DEF WanStatusInit, Modem
  <2>. QED
    BY <2>1, <2>2, <2>3 DEF WanStatusInit, ModemMatches
<1>2. Callers(calls, status_update_pending) /\ WaitersCall(calls, waiting)
  BY DEF WanStatusInit, Callers, WaitersCall
<1>3. CmMatches(cm, calls, modem)
  BY NoCmIsCm DEF WanStatusInit, CmMatches
<1>4. CmIsTold
  BY NoCmIsCm DEF WanStatusInit, CmIsTold, StatusIsCurrent
<1>. QED
  BY <1>1, <1>2, <1>3, <1>4 DEF StatusInv

(* A client that asks is answered, or waits with a call of its own.        *)
LEMMA GetstatusKeeps ==
  ASSUME StatusInv, NEW g \in Client, getstatus(g)
  PROVE  StatusInv'
<1>. USE DEF StatusInv, getstatus
<1>1. ModemMatches' /\ UNCHANGED <<modem, status_update_pending, netreg, wan_disabled, told>>
  BY DEF ModemMatches, choice
<1>2. g # "update"
  BY WanStatusAssumption
<1>3. CASE AtOnce(cm)
  <2>1. UNCHANGED <<calls, waiting>>
    BY <1>3
  <2>2. CASE cm = NoCm
    BY <1>1, <1>3, <2>1, <2>2 DEF CmIsTold, StatusIsCurrent
  <2>3. CASE cm # NoCm
    <3>1. cm' = Reported(cm)
      BY <1>3, <2>3
    <3>2. /\ cm' \in Cm /\ cm'.watched = cm.contexts
          /\ cm'.contexts = cm.contexts /\ cm'.active = cm.active /\ cm'.of = cm.of
          /\ cm'.heard = cm.heard /\ cm'.attached = cm.attached /\ cm'.fetch = cm.fetch
      BY <3>1 DEF Reported, CmMatches, Cm
    <3>3. CmMatches(cm', calls', modem')
      BY <1>1, <2>1, <2>3, <3>2 DEF CmMatches
    <3>4. StatusOf(cm, netreg, wan_disabled)' = StatusOf(cm, netreg, wan_disabled)
      BY <1>1, <3>2 DEF StatusOf
    <3>5. CmIsTold'
      BY <1>1, <3>2, <3>4 DEF CmIsTold, StatusIsCurrent
    <3>. QED
      BY <1>1, <2>1, <3>3, <3>5
  <2>. QED
    BY <2>2, <2>3
<1>4. CASE ~AtOnce(cm)
  <2>. DEFINE call == [who |-> g, lost |-> FALSE]
  <2>1. /\ waiting' = waiting \cup {g} /\ calls' = calls \cup {call}
        /\ cm' = [cm EXCEPT !.fetch = "asked"]
    BY <1>4
  <2>2. call \in ContextsCall /\ call.who = g /\ ~call.lost
    BY DEF ContextsCall
  <2>3. cm # NoCm /\ cm.fetch = "no"
    BY <1>4 DEF AtOnce
  <2>4. \A j \in calls : j.lost /\ j.who # g
    BY <1>2, <2>3 DEF CmMatches, WaitersCall
  <2>. HIDE DEF call
  <2>5. Callers(calls', status_update_pending') /\ WaitersCall(calls', waiting')
    BY <1>1, <1>2, <2>1, <2>2, <2>4 DEF Callers, WaitersCall
  <2>6. /\ cm' \in Cm /\ cm'.fetch = "asked" /\ cm'.contexts = cm.contexts
        /\ cm'.watched = cm.watched /\ cm'.active = cm.active /\ cm'.of = cm.of
        /\ cm'.heard = cm.heard
    BY <2>1 DEF CmMatches, Cm
  <2>7. CmMatches(cm', calls', modem')
    BY <1>1, <2>1, <2>2, <2>3, <2>4, <2>6 DEF CmMatches
  <2>8. ~cm.heard /\ cm.contexts = {}
    BY <2>3 DEF CmIsTold
  <2>9. CmIsTold'
    BY <2>6, <2>8 DEF CmIsTold, StatusIsCurrent, CmMatches
  <2>. QED
    BY <1>1, <2>5, <2>7, <2>9
<1>. QED
  BY <1>3, <1>4

(* A call that ends leaves the others, and those who wait for them.        *)
LEMMA AnsweredKeeps ==
  ASSUME Callers(calls, status_update_pending), WaitersCall(calls, waiting),
         NEW k \in calls, Answered(k)
  PROVE  Callers(calls', status_update_pending') /\ WaitersCall(calls', waiting')
<1>. USE DEF Answered
<1>1. /\ calls' = calls \ {k} /\ waiting' = waiting \ {k.who}
      /\ status_update_pending' = (status_update_pending /\ k.who # "update")
      /\ \A i, j \in calls : i.who = j.who => i = j
  BY DEF Callers
<1>2. calls' \subseteq ContextsCall /\ status_update_pending' \in BOOLEAN
  BY <1>1 DEF Callers
<1>3. status_update_pending' <=> \E j \in calls' : j.who = "update"
  <2>1. CASE k.who = "update"
    BY <1>1, <2>1
  <2>2. CASE k.who # "update"
    BY <1>1, <2>2 DEF Callers
  <2>. QED
    BY <2>1, <2>2
<1>4. Callers(calls', status_update_pending')
  BY <1>1, <1>2, <1>3 DEF Callers
<1>5. WaitersCall(calls', waiting')
  BY <1>1 DEF WaitersCall
<1>. QED
  BY <1>4, <1>5

(* A failure is answered as well; the contexts stay unknown.               *)
LEMMA GetContextsFailsKeeps ==
  ASSUME StatusInv, NEW k \in calls, GetContextsFails(k)
  PROVE  StatusInv'
<1>. USE DEF StatusInv, GetContextsFails
<1>1. ModemMatches' /\ UNCHANGED <<modem, netreg, wan_disabled, told>>
  BY DEF ModemMatches, choice
<1>2. Callers(calls', status_update_pending') /\ WaitersCall(calls', waiting')
  BY AnsweredKeeps
<1>3. calls' = calls \ {k} /\ k.lost \in BOOLEAN
  BY DEF Answered, Callers, ContextsCall
<1>4. CASE k.lost
  <2>1. cm' = cm
    BY <1>4
  <2>2. CmMatches(cm', calls', modem')
    BY <1>1, <1>3, <1>4, <2>1 DEF CmMatches
  <2>3. cm.contexts = {} /\ ~cm.heard /\ cm.watched = {}
    BY <1>4 DEF CmMatches
  <2>4. CmIsTold'
    BY <2>1, <2>3 DEF CmIsTold, StatusIsCurrent
  <2>. QED
    BY <1>1, <1>2, <2>2, <2>4
<1>5. CASE ~k.lost
  <2>1. /\ cm' \in Cm /\ cm'.fetch = "failed" /\ cm'.contexts = cm.contexts
        /\ cm'.watched = cm.watched /\ cm'.active = cm.active /\ cm'.of = cm.of
        /\ cm'.heard = cm.heard
    BY <1>5 DEF CmMatches, Cm
  <2>2. cm.fetch = "asked" /\ cm # NoCm
    BY <1>5, NoCmIsCm DEF CmMatches
  <2>3. CmMatches(cm', calls', modem')
    BY <1>1, <1>3, <1>5, <2>1, <2>2 DEF CmMatches
  <2>4. CmIsTold'
    BY <2>1 DEF CmIsTold, StatusIsCurrent
  <2>. QED
    BY <1>1, <1>2, <2>3, <2>4
<1>. QED
  BY <1>3, <1>4, <1>5

(* With the contexts the subscribers are told, if it was an update that    *)
(* asked for them.                                                         *)
LEMMA GetContextsReplyKeeps ==
  ASSUME StatusInv, NEW k \in calls, GetContextsReply(k)
  PROVE  StatusInv'
<1>. USE DEF StatusInv
<1>1. ModemMatches' /\ UNCHANGED <<modem, netreg, wan_disabled>>
  BY DEF ModemMatches, choice, GetContextsReply
<1>2. Callers(calls', status_update_pending') /\ WaitersCall(calls', waiting')
  BY AnsweredKeeps DEF GetContextsReply
<1>. DEFINE how == IF k.who = "update" THEN "update" ELSE "client"
            got(new) == Reported([cm EXCEPT !.contexts = @ \cup new, !.fetch = how])
<1>3. PICK new \in SUBSET Context :
        /\ cm' = got(new)
        /\ told' = IF k.who = "update" THEN StatusOf(got(new), netreg, wan_disabled) ELSE told
  BY DEF GetContextsReply
<1>4. cm.fetch = "asked" /\ cm # NoCm /\ calls' = calls \ {k} /\ ~k.lost /\ calls' = {}
  BY NoCmIsCm DEF GetContextsReply, NothingLost, CmMatches, Answered
<1>5. /\ cm' \in Cm /\ cm'.fetch = how /\ cm'.contexts = cm.contexts \cup new
      /\ cm'.watched = cm'.contexts /\ cm'.active = cm.active /\ cm'.of = cm.of
      /\ cm'.heard = cm.heard /\ cm'.attached = cm.attached
  BY <1>3 DEF CmMatches, Cm, Reported
<1>6. CmMatches(cm', calls', modem')
  BY <1>1, <1>4, <1>5 DEF CmMatches
<1>7. CmIsTold'
  <2>1. CASE k.who = "update"
    BY <1>1, <1>3, <1>5, <2>1 DEF CmIsTold, StatusIsCurrent
  <2>2. CASE k.who # "update"
    <3>1. told' = told /\ cm'.fetch = "client" /\ cm.fetch = "asked"
      BY <1>3, <1>4, <1>5, <2>2
    <3>2. status_update_pending' = FALSE /\ status_update_pending = FALSE
      BY <1>2, <1>4, <2>2 DEF Callers, GetContextsReply, Answered
    <3>3. cm.heard => /\ told.attached = cm.attached
                      /\ told.network = IF netreg = "lte" THEN "lte" ELSE "none"
                      /\ told.disabled = wan_disabled
      BY <3>1, <3>2 DEF CmIsTold, StatusIsCurrent, StatusOf
    <3>4. cm'.heard => \A f \in {"attached", "network", "disabled"} :
                          told'[f] = StatusOf(cm', netreg', wan_disabled')[f]
      BY <1>1, <1>5, <3>1, <3>3 DEF StatusOf
    <3>. QED
      BY <1>5, <3>1, <3>2, <3>4 DEF CmIsTold, StatusIsCurrent
  <2>. QED
    BY <2>1, <2>2
<1>. QED
  BY <1>1, <1>2, <1>6, <1>7

(* A change of what is told, with the modem still the same.                *)
LEMMA ChangeKeeps ==
  ASSUME StatusInv, UNCHANGED <<choice, waiting>>,
         NEW c, CmMatches(c, calls, modem), netreg' \in {"none", "unknown", "lte"},
         wan_disabled' \in BOOLEAN, send_status_update_cb(c, netreg', wan_disabled', calls)
  PROVE  StatusInv'
<1>1. ModemMatches' /\ modem' = modem
  BY DEF StatusInv, ModemMatches, choice
<1>2. CmMatches(c, calls, modem')
  BY <1>1
<1>. QED
  BY <1>1, <1>2, UpdateKeeps DEF StatusInv

(* The manager reports its properties, which makes it heard.               *)
LEMMA ManagerChangedKeeps ==
  ASSUME StatusInv, manager_property_changed_cb
  PROVE  StatusInv'
<1>1. PICK v \in BOOLEAN :
        send_status_update_cb([cm EXCEPT !.heard = TRUE, !.attached = v],
                              netreg, wan_disabled, calls)
  BY DEF manager_property_changed_cb
<1>. DEFINE c == [cm EXCEPT !.heard = TRUE, !.attached = v]
<1>2. /\ cm \in Cm /\ c \in Cm /\ c.contexts = cm.contexts /\ c.watched = cm.watched
      /\ c.active = cm.active /\ c.of = cm.of /\ c.fetch = cm.fetch
  BY DEF StatusInv, CmMatches, Cm
<1>3. cm # NoCm /\ \A k \in calls : ~k.lost
  BY DEF manager_property_changed_cb, NothingLost
<1>. HIDE DEF c
<1>4. CmMatches(c, calls, modem)
  BY <1>2, <1>3 DEF StatusInv, CmMatches
<1>5. send_status_update_cb(c, netreg, wan_disabled, calls)
  BY <1>1 DEF c
<1>. QED
  BY <1>4, <1>5, ChangeKeeps DEF manager_property_changed_cb, StatusInv, ModemMatches

(* The registration tells another network.                                 *)
LEMMA NetworkChangedKeeps ==
  ASSUME StatusInv, network_prop_changed_cb
  PROVE  StatusInv'
<1>1. wan_disabled' = wan_disabled /\ wan_disabled \in BOOLEAN
  BY DEF network_prop_changed_cb, StatusInv, ModemMatches
<1>. QED
  BY <1>1, ChangeKeeps DEF network_prop_changed_cb, StatusInv

(* The current service goes up or down.                                    *)
LEMMA ServiceChangedKeeps ==
  ASSUME StatusInv, handle_current_service_property
  PROVE  StatusInv'
<1>1. netreg' = netreg /\ netreg \in {"none", "unknown", "lte"} /\ wan_disabled' \in BOOLEAN
  BY DEF handle_current_service_property, StatusInv, ModemMatches
<1>. QED
  BY <1>1, ChangeKeeps DEF handle_current_service_property, StatusInv

(* A context changes: of one that is not watched the subscribers will be   *)
(* told by the update under way, unless a client was the first to ask.     *)
LEMMA ContextChangedKeeps ==
  ASSUME StatusInv, context_prop_changed_cb
  PROVE  StatusInv'
<1>1. PICK x \in cm.contexts, on \in BOOLEAN :
        LET c == [cm EXCEPT !.active = IF on THEN @ \cup {x} ELSE @ \ {x}]
        IN  IF x \in cm.watched
            THEN send_status_update_cb(c, netreg, wan_disabled, calls)
            ELSE cm' = c /\ UNCHANGED <<status_update_pending, calls, told>>
  BY DEF context_prop_changed_cb
<1>. DEFINE c == [cm EXCEPT !.active = IF on THEN @ \cup {x} ELSE @ \ {x}]
<1>2. /\ cm \in Cm /\ c \in Cm /\ c.contexts = cm.contexts /\ c.watched = cm.watched
      /\ c.active \subseteq cm.active \cup {x} /\ c.of = cm.of /\ c.fetch = cm.fetch
      /\ c.heard = cm.heard /\ c.attached = cm.attached
  BY DEF StatusInv, CmMatches, Cm
<1>3. cm # NoCm /\ \A k \in calls : ~k.lost
  BY NoCmIsCm DEF context_prop_changed_cb, NothingLost
<1>4. CmMatches(c, calls, modem)
  <2>. HIDE DEF c
  <2>. QED
    BY <1>2, <1>3 DEF StatusInv, CmMatches
<1>5. CASE x \in cm.watched
  <2>1. send_status_update_cb(c, netreg, wan_disabled, calls)
    BY <1>1, <1>5
  <2>. QED
    BY <1>4, <2>1, ChangeKeeps DEF context_prop_changed_cb, StatusInv, ModemMatches
<1>6. CASE x \notin cm.watched
  <2>1. cm' = c /\ UNCHANGED <<status_update_pending, calls, told>>
    BY <1>1, <1>6
  <2>. HIDE DEF c
  <2>2. UNCHANGED <<netreg, wan_disabled, waiting, modem>> /\ ModemMatches'
    BY DEF context_prop_changed_cb, StatusInv, ModemMatches, choice
  <2>3. status_update_pending \/ cm.fetch \in {"failed", "client"}
    BY <1>6 DEF StatusInv, CmIsTold
  <2>4. \A f \in {"attached", "network", "disabled"} :
          StatusOf(cm', netreg', wan_disabled')[f] = StatusOf(cm, netreg, wan_disabled)[f]
    BY <1>2, <2>1, <2>2 DEF StatusOf
  <2>5. CmIsTold'
    BY <1>2, <2>1, <2>2, <2>3, <2>4 DEF StatusInv, CmIsTold, StatusIsCurrent
  <2>. QED
    BY <1>4, <2>1, <2>2, <2>5 DEF StatusInv
<1>. QED
  BY <1>5, <1>6

(* A context comes.                                                        *)
LEMMA ContextAddedKeeps ==
  ASSUME StatusInv, context_added_cb
  PROVE  StatusInv'
<1>1. PICK x \in Context :
        send_status_update_cb([cm EXCEPT !.contexts = @ \cup {x}], netreg, wan_disabled, calls)
  BY DEF context_added_cb
<1>. DEFINE c == [cm EXCEPT !.contexts = @ \cup {x}]
<1>2. /\ cm \in Cm /\ c \in Cm /\ c.contexts = cm.contexts \cup {x} /\ c.watched = cm.watched
      /\ c.active = cm.active /\ c.of = cm.of /\ c.fetch = cm.fetch /\ c.heard = cm.heard
  BY DEF StatusInv, CmMatches, Cm
<1>3. cm # NoCm /\ \A k \in calls : ~k.lost
  BY DEF context_added_cb, NothingLost
<1>. HIDE DEF c
<1>4. CmMatches(c, calls, modem)
  BY <1>2, <1>3 DEF StatusInv, CmMatches
<1>5. send_status_update_cb(c, netreg, wan_disabled, calls)
  BY <1>1 DEF c
<1>. QED
  BY <1>4, <1>5, ChangeKeeps DEF context_added_cb, StatusInv, ModemMatches

(* A context goes.                                                         *)
LEMMA ContextRemovedKeeps ==
  ASSUME StatusInv, context_removed_cb
  PROVE  StatusInv'
<1>1. PICK x \in Context :
        send_status_update_cb([cm EXCEPT !.contexts = @ \ {x}, !.active = @ \ {x},
                                         !.watched = @ \ {x}], netreg, wan_disabled, calls)
  BY DEF context_removed_cb
<1>. DEFINE c == [cm EXCEPT !.contexts = @ \ {x}, !.active = @ \ {x}, !.watched = @ \ {x}]
<1>2. /\ cm \in Cm /\ c \in Cm /\ c.contexts = cm.contexts \ {x}
      /\ c.watched = cm.watched \ {x} /\ c.active = cm.active \ {x}
      /\ c.of = cm.of /\ c.fetch = cm.fetch /\ c.heard = cm.heard
  BY DEF StatusInv, CmMatches, Cm
<1>3. cm # NoCm
  BY DEF context_removed_cb
<1>. HIDE DEF c
<1>4. CmMatches(c, calls, modem)
  BY <1>2, <1>3 DEF StatusInv, CmMatches
<1>5. send_status_update_cb(c, netreg, wan_disabled, calls)
  BY <1>1 DEF c
<1>. QED
  BY <1>4, <1>5, ChangeKeeps DEF context_removed_cb, StatusInv, ModemMatches

(* An object of ofono's comes or goes with its interface.                  *)
LEMMA ModemPropChangedKeeps ==
  ASSUME StatusInv, NEW known \in [Modem -> SUBSET Interface],
         modem_prop_changed_cb(modem, known), UNCHANGED <<modem, wan_disabled, waiting>>
  PROVE  /\ netreg' \in {"none", "unknown", "lte"}
         /\ Callers(calls', status_update_pending') /\ WaitersCall(calls', waiting')
         /\ CmMatches(cm', calls', modem') /\ CmIsTold'
<1>. DEFINE has == IF modem = NoModem THEN {} ELSE known[modem]
            c == IF cm = NoCm /\ "cm" \in has THEN NewCm(modem)
                 ELSE IF "cm" \notin has THEN NoCm ELSE cm
            k == IF c = NoCm THEN Lost ELSE calls
<1>. USE DEF StatusInv
<1>1. modem \in Modem \cup {NoModem}
  BY DataModemIsListed DEF ModemMatches
<1>2. Callers(k, status_update_pending) /\ WaitersCall(k, waiting) /\ CmMatches(c, k, modem')
  <2>1. CASE cm = NoCm /\ "cm" \in has
    <3>1. modem \in Modem
      BY <1>1, <2>1
    <3>2. modem # NoModem
      BY <2>1
    <3>3. /\ c \in Cm /\ c.of = modem /\ c.fetch = "no" /\ c.contexts = {}
          /\ c.watched = {} /\ c.active = {} /\ ~c.heard
      BY <2>1, <3>1, NoCmIsCm DEF NewCm, Cm
    <3>4. c # NoCm
      BY <3>2, <3>3, NoCmIsCm
    <3>5. k = calls
      BY <3>4
    <3>6. ~ \E j \in calls : ~j.lost
      BY <2>1, NoCmIsCm DEF CmMatches
    <3>. HIDE DEF c, k
    <3>. QED
      BY <3>1, <3>3, <3>5, <3>6 DEF CmMatches
  <2>2. CASE c = NoCm
    <3>1. k = Lost
      BY <2>2
    <3>. HIDE DEF k, c
    <3>. QED
      BY <2>2, <3>1, LostMatches
  <2>3. CASE c = cm /\ c # NoCm
    <3>1. k = calls
      BY <2>3
    <3>. HIDE DEF k, c
    <3>. QED
      BY <2>3, <3>1
  <2>. QED
    BY <2>1, <2>2, <2>3
<1>3. CASE netreg # "none" /\ "netreg" \notin has
  <2>1. netreg' = "none" /\ send_status_update_cb(c, "none", wan_disabled, k)
    BY <1>3 DEF modem_prop_changed_cb
  <2>. HIDE DEF c, k, has
  <2>2. netreg' = "none" /\ wan_disabled' = wan_disabled
    BY <2>1
  <2>. QED
    BY <1>2, <2>1, <2>2, UpdateKeeps
<1>4. CASE ~(netreg # "none" /\ "netreg" \notin has)
  <2>1. /\ netreg' = IF netreg = "none" /\ "netreg" \in has THEN "unknown" ELSE netreg
        /\ cm' = c /\ calls' = k /\ UNCHANGED <<status_update_pending, told>>
    BY <1>4 DEF modem_prop_changed_cb
  <2>2. netreg' \in {"none", "unknown", "lte"}
    BY <2>1 DEF ModemMatches
  <2>3. c = cm \/ (~c.heard /\ c.contexts = {} /\ c.watched = {})
    BY <1>1, NoCmIsCm DEF NewCm, Cm
  <2>. HIDE DEF c, k, has
  <2>4. CASE c = cm
    <3>1. cm' = cm
      BY <2>1, <2>4
    <3>2. StatusOf(cm', netreg', wan_disabled') = StatusOf(cm, netreg, wan_disabled)
      BY <2>1, <3>1 DEF StatusOf
    <3>3. CmIsTold'
      BY <2>1, <3>1, <3>2 DEF CmIsTold, StatusIsCurrent
    <3>. QED
      BY <1>2, <2>1, <2>2, <3>3
  <2>5. CASE ~c.heard /\ c.contexts = {} /\ c.watched = {}
    <3>1. CmIsTold'
      BY <2>1, <2>5 DEF CmIsTold, StatusIsCurrent
    <3>. QED
      BY <1>2, <2>1, <2>2, <3>1
  <2>. QED
    BY <2>3, <2>4, <2>5
<1>. QED
  BY <1>3, <1>4

(* A modem's interfaces change.                                            *)
LEMMA InterfacesChangedKeeps ==
  ASSUME StatusInv, interfaces_changed
  PROVE  StatusInv'
<1>1. PICK m \in modems, now \in SUBSET Interface :
        /\ interfaces' = [interfaces EXCEPT ![m] = now]
        /\ IF m \in handled THEN modem_prop_changed_cb(modem, interfaces')
           ELSE UNCHANGED <<status, netreg>>
  BY DEF interfaces_changed
<1>2. interfaces' \in [Modem -> SUBSET Interface]
  BY <1>1 DEF StatusInv, ModemMatches
<1>3. UNCHANGED <<manager, modems, handled, data_sim_id, modem, wan_disabled, waiting>>
  BY DEF interfaces_changed
<1>4. /\ netreg' \in {"none", "unknown", "lte"}
      /\ Callers(calls', status_update_pending') /\ WaitersCall(calls', waiting')
      /\ CmMatches(cm', calls', modem') /\ CmIsTold'
  <2>1. CASE m \in handled
    <3>1. modem_prop_changed_cb(modem, interfaces')
      BY <1>1, <2>1
    <3>. DEFINE known == interfaces'
    <3>2. known \in [Modem -> SUBSET Interface] /\ modem_prop_changed_cb(modem, known)
      BY <1>2, <3>1
    <3>. HIDE DEF known
    <3>. QED
      BY <1>3, <3>2, ModemPropChangedKeeps
  <2>2. CASE m \notin handled
    BY <1>1, <1>3, <2>2 DEF StatusInv, ModemMatches, CmIsTold, StatusIsCurrent, status
  <2>. QED
    BY <2>1, <2>2
<1>5. ModemMatches'
  BY <1>2, <1>3, <1>4 DEF StatusInv, ModemMatches
<1>. QED
  BY <1>4, <1>5 DEF StatusInv

(* Another modem is followed, or the same.                                 *)
LEMMA SelectKeeps ==
  ASSUME StatusInv, NEW list \in SUBSET Modem, NEW n, NEW known,
         select_data_modem(list, n, known), UNCHANGED <<wan_disabled, waiting>>
  PROVE  /\ modem' = DataModem(list, n) /\ handled' \subseteq list
         /\ netreg' \in {"none", "unknown", "lte"}
         /\ Callers(calls', status_update_pending') /\ WaitersCall(calls', waiting')
         /\ CmMatches(cm', calls', modem') /\ CmIsTold'
<1>. USE DEF StatusInv
<1>1. modem' = DataModem(list, n) /\ handled' \subseteq list
  BY DataModemIsListed DEF select_data_modem
<1>2. CASE modem' = modem
  BY <1>1, <1>2 DEF select_data_modem, ModemMatches, CmIsTold, StatusIsCurrent, status
<1>3. CASE modem' # modem
  <2>1. netreg' = "none" /\ send_status_update_cb(NoCm, "none", wan_disabled, Lost)
    BY <1>3 DEF select_data_modem
  <2>2. /\ Callers(Lost, status_update_pending) /\ WaitersCall(Lost, waiting)
        /\ CmMatches(NoCm, Lost, modem')
    BY LostMatches
  <2>3. /\ Callers(calls', status_update_pending') /\ WaitersCall(calls', waiting')
        /\ CmMatches(cm', calls', modem') /\ CmIsTold'
    BY <2>1, <2>2, UpdateKeeps
  <2>. QED
    BY <1>1, <2>1, <2>3
<1>. QED
  BY <1>2, <1>3

(* Modems come and go.                                                     *)
LEMMA ModemsChangedKeeps ==
  ASSUME StatusInv, modems_changed_cb
  PROVE  StatusInv'
<1>1. PICK list \in SUBSET Modem :
        /\ modems' = list
        /\ interfaces' = [m \in Modem |-> IF m \in modems \cap list THEN interfaces[m] ELSE {}]
        /\ select_data_modem(list, data_sim_id, interfaces')
  BY DEF modems_changed_cb
<1>2. UNCHANGED <<manager, data_sim_id, wan_disabled, waiting>> /\ manager
  BY DEF modems_changed_cb
<1>3. interfaces' \in [Modem -> SUBSET Interface]
  BY <1>1 DEF StatusInv, ModemMatches
<1>. DEFINE known == interfaces'
<1>4. select_data_modem(list, data_sim_id, known)
  BY <1>1
<1>. HIDE DEF known
<1>5. /\ modem' = DataModem(list, data_sim_id) /\ handled' \subseteq list
      /\ netreg' \in {"none", "unknown", "lte"}
      /\ Callers(calls', status_update_pending') /\ WaitersCall(calls', waiting')
      /\ CmMatches(cm', calls', modem') /\ CmIsTold'
  BY <1>2, <1>4, SelectKeeps
<1>6. ModemMatches'
  BY <1>1, <1>2, <1>3, <1>5 DEF StatusInv, ModemMatches, DataModem
<1>. QED
  BY <1>5, <1>6 DEF StatusInv

(* Another slot is to be used for data.                                    *)
LEMMA SetDataSimKeeps ==
  ASSUME StatusInv, ofono_wan_set_data_sim
  PROVE  StatusInv'
<1>1. PICK n \in Modem :
        /\ data_sim_id' = n
        /\ IF manager THEN select_data_modem(modems, n, interfaces)
           ELSE UNCHANGED <<status, netreg, handled, modem>>
  BY DEF ofono_wan_set_data_sim
<1>2. UNCHANGED <<manager, modems, interfaces, wan_disabled, waiting>>
  BY DEF ofono_wan_set_data_sim
<1>3. modems \in SUBSET Modem
  BY DEF StatusInv, ModemMatches
<1>4. CASE manager
  <2>1. select_data_modem(modems, n, interfaces)
    BY <1>1, <1>4
  <2>2. /\ modem' = DataModem(modems, n) /\ handled' \subseteq modems
        /\ netreg' \in {"none", "unknown", "lte"}
        /\ Callers(calls', status_update_pending') /\ WaitersCall(calls', waiting')
        /\ CmMatches(cm', calls', modem') /\ CmIsTold'
    BY <1>2, <1>3, <2>1, SelectKeeps
  <2>3. ModemMatches'
    BY <1>1, <1>2, <2>2 DEF StatusInv, ModemMatches, DataModem
  <2>. QED
    BY <2>2, <2>3 DEF StatusInv
<1>5. CASE ~manager
  <2>1. UNCHANGED <<cm, status_update_pending, calls, told, netreg, handled, modem>>
    BY <1>1, <1>5 DEF status
  <2>2. modems = {}
    BY <1>5 DEF StatusInv, ModemMatches
  <2>3. modem' = DataModem(modems', data_sim_id')
    BY <1>2, <2>1, <2>2 DEF StatusInv, ModemMatches, DataModem
  <2>4. ModemMatches'
    BY <1>1, <1>2, <2>1, <2>2, <2>3 DEF StatusInv, ModemMatches
  <2>. QED
    BY <1>2, <2>1, <2>4 DEF StatusInv, CmIsTold, StatusIsCurrent
<1>. QED
  BY <1>4, <1>5

(* ofono comes.                                                            *)
LEMMA ServiceAppearedKeeps ==
  ASSUME StatusInv, service_appeared_cb
  PROVE  StatusInv'
BY DEF StatusInv, service_appeared_cb, ModemMatches, DataModem, status, CmIsTold, StatusIsCurrent

(* ofono goes, with all it had; the calls are still answered.              *)
LEMMA ServiceVanishedKeeps ==
  ASSUME StatusInv, service_vanished_cb
  PROVE  StatusInv'
<1>. USE DEF StatusInv, service_vanished_cb
<1>1. interfaces' \in [Modem -> SUBSET Interface]
  OBVIOUS
<1>2. modem' = DataModem(modems', data_sim_id')
  BY DEF DataModem
<1>3. ModemMatches'
  BY <1>1, <1>2 DEF ModemMatches
<1>4. Callers(calls', status_update_pending') /\ WaitersCall(calls', waiting')
      /\ CmMatches(cm', calls', modem')
  BY LostMatches
<1>5. CmIsTold'
  BY NoCmIsCm DEF CmIsTold, StatusIsCurrent
<1>. QED
  BY <1>3, <1>4, <1>5

(* Every step keeps the invariant.                                         *)
LEMMA StatusStepKeeps == StatusInv /\ [WanStatusNext]_wanStatusVars => StatusInv'
<1>. SUFFICES ASSUME StatusInv, [WanStatusNext]_wanStatusVars PROVE StatusInv'
  OBVIOUS
<1>1. CASE UNCHANGED wanStatusVars
  BY <1>1 DEF StatusInv, ModemMatches, DataModem, CmIsTold, StatusIsCurrent,
              wanStatusVars, choice, status
<1>2. ASSUME NEW g \in Client, getstatus(g) PROVE StatusInv'
  BY <1>2, GetstatusKeeps
<1>3. ASSUME NEW k \in calls, GetContextsReply(k) PROVE StatusInv'
  BY <1>3, GetContextsReplyKeeps
<1>4. ASSUME NEW k \in calls, GetContextsFails(k) PROVE StatusInv'
  BY <1>4, GetContextsFailsKeeps
<1>. QED
  BY <1>1, <1>2, <1>3, <1>4, ManagerChangedKeeps, NetworkChangedKeeps, ContextChangedKeeps,
     ContextAddedKeeps, ContextRemovedKeeps, ServiceChangedKeeps, InterfacesChangedKeeps,
     ModemsChangedKeeps, SetDataSimKeeps, ServiceAppearedKeeps, ServiceVanishedKeeps
  DEF WanStatusNext

(* The invariant holds throughout.                                         *)
LEMMA StatusInvHolds == WanStatusSpec => []StatusInv
BY StatusInitHolds, StatusStepKeeps, PTL DEF WanStatusSpec

(* A connection manager has at most one call that is not lost, so that     *)
(* counting them says whether the contexts have been asked for.            *)
LEMMA StatusInvGives ==
  ASSUME StatusInv
  PROVE  WanStatusTypeOK /\ NobodyWaitsForNothing /\ FollowsTheDataSim /\ StatusIsCurrent
<1>. USE DEF StatusInv
<1>. DEFINE live == {k \in calls : ~k.lost}
<1>1. Cardinality(live) = IF cm.fetch = "asked" THEN 1 ELSE 0
  <2>1. CASE cm.fetch = "asked"
    <3>1. PICK k \in calls : live = {k}
      BY <2>1 DEF CmMatches
    <3>. HIDE DEF live
    <3>. QED
      BY <2>1, <3>1, FS_Singleton
  <2>2. CASE cm.fetch # "asked"
    <3>1. live = {}
      BY <2>2 DEF CmMatches
    <3>. HIDE DEF live
    <3>. QED
      BY <2>2, <3>1, FS_EmptySet
  <2>. QED
    BY <2>1, <2>2
<1>2. waiting \subseteq Client
  BY DEF WaitersCall, Callers, ContextsCall
<1>3. cm.fetch \in {"no", "asked", "failed", "update", "client"}
  BY DEF CmMatches, Cm
<1>4. /\ {manager, wan_disabled, status_update_pending} \subseteq BOOLEAN
      /\ modems \subseteq Modem /\ handled \subseteq modems /\ data_sim_id \in Modem
      /\ interfaces \in [Modem -> SUBSET Interface] /\ netreg \in {"none", "unknown", "lte"}
  BY DEF ModemMatches, Callers
<1>5. cm.watched \subseteq cm.contexts /\ cm.active \subseteq cm.contexts
  BY DEF CmMatches
<1>6. WanStatusTypeOK
  BY <1>1, <1>2, <1>3, <1>4, <1>5 DEF WanStatusTypeOK
<1>7. NobodyWaitsForNothing
  BY DEF NobodyWaitsForNothing, Callers, WaitersCall
<1>8. FollowsTheDataSim
  BY DEF FollowsTheDataSim, ModemMatches, CmMatches
<1>. QED
  BY <1>6, <1>7, <1>8 DEF CmIsTold

(* Every variable of the status keeps its type, with one call in flight    *)
(* for a connection manager at most.                                       *)
THEOREM StatusIsWellTyped == WanStatusSpec => []WanStatusTypeOK
BY StatusInvHolds, StatusInvGives, PTL

(* The update marker and every waiting client have a call that will answer *)
(* them, whatever ofono, the modem or its interfaces do meanwhile.         *)
THEOREM WaitersAreAnswered == WanStatusSpec => []NobodyWaitsForNothing
BY StatusInvHolds, StatusInvGives, PTL

(* The modem followed is the one chosen for data, and what is told is its. *)
THEOREM DataSimIsFollowed == WanStatusSpec => []FollowsTheDataSim
BY StatusInvHolds, StatusInvGives, PTL

(* Whenever no update is under way the subscribers know the status.        *)
THEOREM SubscribersAreCurrent == WanStatusSpec => []StatusIsCurrent
BY StatusInvHolds, StatusInvGives, PTL

-----------------------------------------------------------------------------
(* The invariant of WanSet.  Its first part, the types, needs nothing of   *)
(* ConnMan; the second does: that the answer to a call on a service shows  *)
(* whether the service was still there.  A request whose service is still  *)
(* there, but behind another on the list, is marked.                       *)

Req ==
  [stage : {"free", "switch", "autoconnect", "roaming", "done", "lost"}, aborted : BOOLEAN,
   answers : Nat, result : {"none", "ok", "error"},
   disablewan : {"unset", "on", "off"}, roamguard : {"unset", "enable", "disable"},
   found : BOOLEAN, guarded : {"none", "barred", "allowed"},
   switched : Path \cup {NoPath}, auto : Path \cup {NoPath}, overtaken : BOOLEAN,
   roaming : {"none", "unset", "enable", "disable"}, kept : BOOLEAN]

Typed(r) == r \in Req /\ r.answers = IF r.stage = "done" THEN 1 ELSE 0

(* The half of Kept that is about disablewan.                              *)
DisablewanKept(r) ==
  r.disablewan # "unset" /\ (r.disablewan = "on") # r.found
    => r.switched # NoPath /\ r.auto # NoPath /\ (r.auto = r.switched \/ r.overtaken)

(* What a request has behind it at each of its stages, while the service   *)
(* p is the current one.                                                   *)
Chain(r, p) ==
  /\ r.stage = "switch" => /\ r.switched # NoPath
                           /\ r.aborted \/ r.overtaken \/ r.switched = p
  /\ r.stage = "autoconnect" => /\ r.switched # NoPath /\ r.auto # NoPath
                                /\ r.auto = r.switched \/ r.overtaken
  /\ r.stage = "roaming" => DisablewanKept(r)
  /\ r.stage # "done" => r.result = "none"
  /\ r.result = "ok" => r.kept

AllTyped(requests) ==
  requests \in [Request -> Req] /\ \A r \in Request : Typed(requests[r])

AllChained(requests, p) == \A r \in Request : Chain(requests[r], p)

(* What WanSet keeps beside the requests.                                  *)
ServiceTyped ==
  /\ path \in Path \cup {NoPath} /\ heard = {path} \ {NoPath}
  /\ wan_disabled \in BOOLEAN /\ proxy \in BOOLEAN /\ connman \in BOOLEAN
  /\ creating \in Nat /\ asked \in Nat
  /\ roaming_allowed \in {"none", "barred", "allowed"}

SetInv == ServiceTyped /\ AllTyped(req)

-----------------------------------------------------------------------------
(* A request that has not begun is of every type and chain.                *)
LEMMA FreshIs == Fresh \in Req /\ Typed(Fresh) /\ \A p : Chain(Fresh, p)
BY DEF Fresh, Req, Typed, Chain

(* A request ends answered once, with what was kept noted.                 *)
LEMMA FinishIs ==
  ASSUME NEW r \in Req, r.answers = 0, NEW result \in {"ok", "error"},
         NEW a, a = finish_set_configuration(r, result)
  PROVE  Typed(a) /\ a.stage = "done" /\ a.result = result /\ a.kept = Kept(r)
<1>1. Kept(r) \in BOOLEAN
  BY DEF Kept
<1>. DEFINE kept == Kept(r)
<1>2. a = [Fresh EXCEPT !.stage = "done", !.answers = 1, !.result = result, !.kept = kept]
  BY DEF finish_set_configuration
<1>3. kept \in BOOLEAN
  BY <1>1
<1>. HIDE DEF kept
<1>4. a = [stage |-> "done", aborted |-> FALSE, answers |-> 1, result |-> result,
           disablewan |-> "unset", roamguard |-> "unset", found |-> FALSE, guarded |-> "none",
           switched |-> NoPath, auto |-> NoPath, overtaken |-> FALSE, roaming |-> "none", kept |-> kept]
  BY <1>2 DEF Fresh
<1>5. a \in Req /\ a.stage = "done" /\ a.answers = 1 /\ a.result = result /\ a.kept = kept
  BY <1>3, <1>4 DEF Req
<1>. QED
  BY <1>5 DEF Typed, kept

(* After disablewan the roam guard: it is as asked already, or ofono is    *)
(* called, or there is no connection manager to call.                      *)
LEMMA RoamguardIs ==
  ASSUME NEW r \in Req, r.answers = 0, r.stage # "done", ServiceTyped,
         NEW a, a = apply_pending_roamguard(r)
  PROVE  /\ Typed(a)
         /\ DisablewanKept(r) /\ r.result = "none" => \A p : Chain(a, p)
<1>1. CASE r.roamguard = "unset"
  <2>1. a = finish_set_configuration(r, "ok")
    BY <1>1 DEF apply_pending_roamguard
  <2>2. DisablewanKept(r) => Kept(r)
    BY <1>1 DEF Kept, DisablewanKept
  <2>. QED
    BY <2>1, <2>2, FinishIs DEF Chain
<1>2. CASE r.roamguard # "unset" /\ roaming_allowed = "none"
  <2>1. a = finish_set_configuration(r, "error")
    BY <1>2 DEF apply_pending_roamguard
  <2>. QED
    BY <2>1, FinishIs DEF Chain
<1>3. CASE /\ r.roamguard # "unset" /\ roaming_allowed # "none"
           /\ (r.roamguard = "enable") # (roaming_allowed = "allowed")
  <2>. DEFINE g == [r EXCEPT !.guarded = roaming_allowed]
  <2>1. a = finish_set_configuration(g, "ok")
    BY <1>3 DEF apply_pending_roamguard
  <2>2. /\ g \in Req /\ g.answers = 0 /\ g.guarded = roaming_allowed
        /\ g.roamguard = r.roamguard /\ g.disablewan = r.disablewan /\ g.found = r.found
        /\ g.switched = r.switched /\ g.auto = r.auto /\ g.overtaken = r.overtaken
    BY DEF Req, ServiceTyped
  <2>. HIDE DEF g
  <2>3. g.guarded = IF g.roamguard = "enable" THEN "barred" ELSE "allowed"
    BY <1>3, <2>2 DEF ServiceTyped
  <2>4. DisablewanKept(r) => DisablewanKept(g)
    BY <2>2 DEF DisablewanKept
  <2>5. DisablewanKept(r) => Kept(g)
    BY <2>3, <2>4 DEF Kept, DisablewanKept
  <2>. QED
    BY <2>1, <2>2, <2>5, FinishIs DEF Chain
<1>4. CASE /\ r.roamguard # "unset" /\ roaming_allowed # "none"
           /\ ~((r.roamguard = "enable") # (roaming_allowed = "allowed"))
  <2>1. a = [r EXCEPT !.stage = "roaming", !.guarded = roaming_allowed]
    BY <1>4 DEF apply_pending_roamguard
  <2>2. /\ a \in Req /\ a.answers = 0 /\ a.stage = "roaming" /\ a.result = r.result
        /\ a.disablewan = r.disablewan /\ a.found = r.found
        /\ a.switched = r.switched /\ a.auto = r.auto /\ a.overtaken = r.overtaken
    BY <2>1, ZenonT(60) DEF Req, ServiceTyped
  <2>. QED
    BY <2>2 DEF Typed, Chain, DisablewanKept
<1>. QED
  BY <1>1, <1>2, <1>3, <1>4

(* A service is called, or the bus cannot be had.                          *)
LEMMA SwitchIs ==
  ASSUME NEW r \in Req, r.answers = 0, r.stage # "done", NEW bus \in BOOLEAN,
         NEW p \in Path, NEW a, a = switch_current_service_state(r, bus, p)
  PROVE  Typed(a) /\ (r.result = "none" /\ ~r.aborted => Chain(a, p))
<1>1. p # NoPath
  BY WanSetAssumption
<1>2. CASE bus
  <2>1. a = [r EXCEPT !.stage = "switch", !.switched = p]
    BY <1>2 DEF switch_current_service_state
  <2>2. /\ a \in Req /\ a.answers = 0 /\ a.stage = "switch" /\ a.switched = p
        /\ a.result = r.result
    BY <2>1 DEF Req
  <2>. QED
    BY <1>1, <2>2 DEF Typed, Chain
<1>3. CASE ~bus
  <2>1. a = finish_set_configuration(r, "error")
    BY <1>3 DEF switch_current_service_state
  <2>. QED
    BY <2>1, FinishIs DEF Chain
<1>. QED
  BY <1>2, <1>3

(* The service was switched: AutoConnect of the current one is set, which  *)
(* is the same as long as the first call was not aborted or overtaken.     *)
LEMMA SwitchedIs ==
  ASSUME NEW r, Typed(r), r.stage = "switch", NEW ok \in BOOLEAN, ServiceTyped,
         NEW a, a = current_service_enabled_cb(r, ok)
  PROVE  Typed(a) /\ (Chain(r, path) /\ (ok => ~r.aborted) => Chain(a, path))
<1>1. r \in Req /\ r.answers = 0
  BY DEF Typed
<1>2. CASE ~ok
  <2>. DEFINE g == [r EXCEPT !.switched = NoPath]
  <2>1. a = finish_set_configuration(g, "error")
    BY <1>2 DEF current_service_enabled_cb
  <2>2. g \in Req /\ g.answers = 0
    BY <1>1 DEF Req
  <2>. HIDE DEF g
  <2>. QED
    BY <2>1, <2>2, FinishIs DEF Chain
<1>3. CASE ok /\ path = NoPath
  <2>1. a = [r EXCEPT !.stage = "lost"]
    BY <1>3 DEF current_service_enabled_cb
  <2>2. a \in Req /\ a.answers = 0 /\ a.stage = "lost" /\ a.result = r.result
    BY <1>1, <2>1 DEF Req
  <2>. QED
    BY <2>2 DEF Typed, Chain
<1>4. CASE ok /\ path # NoPath
  <2>1. a = [r EXCEPT !.stage = "autoconnect", !.auto = path]
    BY <1>4 DEF current_service_enabled_cb
  <2>2. /\ a \in Req /\ a.answers = 0 /\ a.stage = "autoconnect" /\ a.result = r.result
        /\ a.auto = path /\ a.switched = r.switched /\ a.overtaken = r.overtaken
    BY <1>1, <2>1 DEF Req, ServiceTyped
  <2>. QED
    BY <1>4, <2>2 DEF Typed, Chain
<1>. QED
  BY <1>2, <1>3, <1>4

(* AutoConnect was set: on to the roam guard.                              *)
LEMMA AutoConnectedIs ==
  ASSUME NEW r, Typed(r), r.stage = "autoconnect", NEW ok \in BOOLEAN, ServiceTyped,
         NEW a, a = current_service_autoconnect_set_cb(r, ok)
  PROVE  Typed(a) /\ (Chain(r, path) => Chain(a, path))
<1>1. r \in Req /\ r.answers = 0
  BY DEF Typed
<1>2. CASE ~ok
  <2>. DEFINE g == [r EXCEPT !.auto = NoPath]
  <2>1. a = finish_set_configuration(g, "error")
    BY <1>2 DEF current_service_autoconnect_set_cb
  <2>2. g \in Req /\ g.answers = 0
    BY <1>1 DEF Req
  <2>. HIDE DEF g
  <2>. QED
    BY <2>1, <2>2, FinishIs DEF Chain
<1>3. CASE ok
  <2>1. a = apply_pending_roamguard(r)
    BY <1>3 DEF current_service_autoconnect_set_cb
  <2>2. Chain(r, path) => DisablewanKept(r) /\ r.result = "none"
    BY DEF Chain, DisablewanKept
  <2>. QED
    BY <1>1, <2>1, <2>2, RoamguardIs
<1>. QED
  BY <1>2, <1>3

(* ofono has taken the roam guard, or has not.                             *)
LEMMA RoamguardSetIs ==
  ASSUME NEW r, Typed(r), r.stage = "roaming", NEW ok \in BOOLEAN,
         NEW a, a = roamguard_set_cb(r, ok)
  PROVE  Typed(a) /\ (Chain(r, path) => Chain(a, path))
<1>. DEFINE g == [r EXCEPT !.roaming = IF ok THEN r.roamguard ELSE "none"]
            result == IF ok THEN "ok" ELSE "error"
<1>1. r \in Req /\ r.answers = 0
  BY DEF Typed
<1>2. /\ g \in Req /\ g.answers = 0 /\ (ok => g.roaming = g.roamguard)
      /\ g.disablewan = r.disablewan /\ g.found = r.found
      /\ g.switched = r.switched /\ g.auto = r.auto /\ g.overtaken = r.overtaken
  BY <1>1 DEF Req
<1>3. a = finish_set_configuration(g, result) /\ result \in {"ok", "error"}
  BY DEF roamguard_set_cb
<1>4. result = "ok" => ok
  OBVIOUS
<1>. HIDE DEF g, result
<1>5. Chain(r, path) /\ ok => Kept(g)
  BY <1>2 DEF Chain, DisablewanKept, Kept
<1>6. Typed(a) /\ a.stage = "done" /\ a.result = result /\ a.kept = Kept(g)
  BY <1>2, <1>3, FinishIs
<1>. QED
  BY <1>4, <1>5, <1>6 DEF Chain

-----------------------------------------------------------------------------
(* What a step does for the chains of the requests, given what ConnMan     *)
(* does and that proxies can be created.                                   *)
ChainsKept ==
  ConnManAborts /\ ~ProxiesFail /\ AllChained(req, path) => AllChained(req', path')

(* One request takes its next step.                                        *)
LEMMA PutKeeps ==
  ASSUME NEW requests, AllTyped(requests), NEW r \in Request, NEW a, Typed(a),
         NEW after, after = [requests EXCEPT ![r] = a]
  PROVE  AllTyped(after) /\ \A p : AllChained(requests, p) /\ Chain(a, p) => AllChained(after, p)
<1>1. a \in Req
  BY DEF Typed
<1>2. after \in [Request -> Req] /\ \A q \in Request : after[q] = IF q = r THEN a ELSE requests[q]
  BY <1>1 DEF AllTyped
<1>. QED
  BY <1>2 DEF AllTyped, AllChained

(* What becomes of a request when services go, or are listed behind p: it  *)
(* may get a mark or two, and nothing else about it changes.               *)
Marked(a, r) ==
  /\ a \in Req /\ Typed(a) /\ a.stage = r.stage /\ a.switched = r.switched /\ a.auto = r.auto
  /\ a.disablewan = r.disablewan /\ a.found = r.found
  /\ a.result = r.result /\ a.kept = r.kept
  /\ (r.aborted => a.aborted) /\ (r.overtaken => a.overtaken)

LEMMA AbortedIs ==
  ASSUME SetInv, NEW gone, NEW r \in Request
  PROVE  /\ Marked(Aborted(gone)[r], req[r])
         /\ ConnManAborts /\ req[r].stage = "switch" /\ req[r].switched \in gone
              => Aborted(gone)[r].aborted
<1>. DEFINE goes == ConnManAborts /\ req[r].stage = "switch" /\ req[r].switched \in gone
            a == Aborted(gone)[r]
<1>1. req[r] \in Req /\ Typed(req[r])
  BY DEF SetInv, AllTyped
<1>2. CASE goes
  <2>1. a = [req[r] EXCEPT !.aborted = TRUE]
    BY <1>2 DEF Aborted
  <2>. HIDE DEF a, goes
  <2>2. /\ a \in Req /\ a.stage = req[r].stage /\ a.answers = req[r].answers
        /\ a.switched = req[r].switched /\ a.auto = req[r].auto
        /\ a.disablewan = req[r].disablewan /\ a.found = req[r].found
        /\ a.result = req[r].result /\ a.kept = req[r].kept
        /\ a.overtaken = req[r].overtaken /\ a.aborted = TRUE
    BY <1>1, <2>1, ZenonT(60) DEF Req
  <2>3. Marked(a, req[r]) /\ a.aborted
    BY <1>1, <2>2 DEF Marked, Typed
  <2>. QED
    BY <2>3 DEF a
<1>3. CASE ~goes
  <2>1. a = req[r]
    BY <1>3 DEF Aborted
  <2>. HIDE DEF a
  <2>2. Marked(a, req[r])
    BY <1>1, <2>1 DEF Marked
  <2>. QED
    BY <1>3, <2>2 DEF a
<1>. QED
  BY <1>2, <1>3

(* A mark keeps the chain, if the request is marked that needs one.        *)
LEMMA MarkedKeeps ==
  ASSUME NEW requests, requests = [r \in Request |-> requests[r]], SetInv,
         \A r \in Request : Marked(requests[r], req[r]),
         NEW p
  PROVE  /\ AllTyped(requests)
         /\ /\ AllChained(req, path)
            /\ \A r \in Request : req[r].stage = "switch" /\ req[r].switched # NoPath
                 => requests[r].aborted \/ requests[r].overtaken \/ req[r].switched = p
            => AllChained(requests, p)
<1>1. AllTyped(requests)
  BY DEF AllTyped, Marked
<1>2. ASSUME NEW r \in Request, Chain(req[r], path),
             req[r].stage = "switch" /\ req[r].switched # NoPath
               => requests[r].aborted \/ requests[r].overtaken \/ req[r].switched = p
      PROVE  Chain(requests[r], p)
  <2>1. Marked(requests[r], req[r])
    OBVIOUS
  <2>. QED
    BY <1>2, <2>1 DEF Marked, Chain, DisablewanKept
<1>. QED
  BY <1>1, <1>2 DEF AllChained

(* A service that goes takes the calls on it along, so that no request is  *)
(* left that still believes in it, whatever becomes the current one.       *)
LEMMA AbortedKeeps ==
  ASSUME SetInv, NEW gone, path \in gone \cup {NoPath}
  PROVE  /\ AllTyped(Aborted(gone))
         /\ ConnManAborts /\ AllChained(req, path) => \A p : AllChained(Aborted(gone), p)
<1>1. Aborted(gone) = [r \in Request |-> Aborted(gone)[r]]
  BY DEF Aborted
<1>2. \A r \in Request : Marked(Aborted(gone)[r], req[r])
  BY AbortedIs
<1>3. AllTyped(Aborted(gone))
  BY <1>1, <1>2, MarkedKeeps
<1>4. ASSUME ConnManAborts, AllChained(req, path), NEW p PROVE AllChained(Aborted(gone), p)
  <2>1. ASSUME NEW r \in Request, req[r].stage = "switch", req[r].switched # NoPath
        PROVE  Aborted(gone)[r].aborted \/ Aborted(gone)[r].overtaken
    <3>1. req[r].aborted \/ req[r].overtaken \/ req[r].switched = path
      BY <1>4, <2>1 DEF AllChained, Chain
    <3>2. req[r].switched = path => Aborted(gone)[r].aborted
      BY <1>4, <2>1, AbortedIs
    <3>. QED
      BY <1>2, <3>1, <3>2 DEF Marked
  <2>. QED
    BY <1>1, <1>2, <1>4, <2>1, MarkedKeeps
<1>. QED
  BY <1>3, <1>4

(* With p the first of those listed a request is on p, is marked as        *)
(* overtaken by it, or was on a service that is gone.                      *)
LEMMA OvertakenKeeps ==
  ASSUME SetInv, NEW listed \in SUBSET Path, NEW p \in listed
  PROVE  /\ AllTyped(Overtaken(p, listed))
         /\ ConnManAborts /\ AllChained(req, path) => AllChained(Overtaken(p, listed), p)
<1>. DEFINE gone == Path \ listed
            o == Overtaken(p, listed)
            Passed(r) == req[r].stage = "switch" /\ req[r].switched \in listed \ {p}
<1>1. o = [r \in Request |-> o[r]]
  BY DEF Overtaken
<1>2. ASSUME NEW r \in Request
      PROVE  /\ Marked(o[r], req[r])
             /\ Passed(r) => o[r].overtaken
             /\ ~Passed(r) => o[r] = Aborted(gone)[r]
  <2>1. Marked(Aborted(gone)[r], req[r])
    BY AbortedIs
  <2>2. CASE Passed(r)
    <3>. DEFINE b == Aborted(gone)[r]
                a == o[r]
    <3>1. a = [b EXCEPT !.overtaken = TRUE]
      BY <2>2 DEF Overtaken
    <3>2. b \in Req /\ Marked(b, req[r])
      BY <2>1 DEF Marked
    <3>. HIDE DEF a, b
    <3>3. /\ a \in Req /\ a.stage = b.stage /\ a.answers = b.answers
          /\ a.switched = b.switched /\ a.auto = b.auto
          /\ a.disablewan = b.disablewan /\ a.found = b.found
          /\ a.result = b.result /\ a.kept = b.kept
          /\ a.aborted = b.aborted /\ a.overtaken = TRUE
      BY <3>1, <3>2, ZenonT(60) DEF Req
    <3>4. Marked(a, req[r]) /\ a.overtaken
      BY <3>2, <3>3 DEF Marked, Typed
    <3>. QED
      BY <2>2, <3>4 DEF a
  <2>3. CASE ~Passed(r)
    <3>1. o[r] = Aborted(gone)[r]
      BY <2>3 DEF Overtaken
    <3>. QED
      BY <2>1, <2>3, <3>1
  <2>. QED
    BY <2>2, <2>3
<1>3. ASSUME ConnManAborts, NEW r \in Request, req[r].stage = "switch", req[r].switched # NoPath
      PROVE  o[r].aborted \/ o[r].overtaken \/ req[r].switched = p
  <2>1. req[r].switched \in Path
    BY <1>3 DEF SetInv, AllTyped, Req
  <2>2. Passed(r) \/ req[r].switched = p \/ req[r].switched \in gone
    BY <1>3, <2>1
  <2>3. req[r].switched \in gone => Aborted(gone)[r].aborted
    BY <1>3, AbortedIs
  <2>. HIDE DEF o, Passed, gone
  <2>. QED
    BY <1>2, <2>2, <2>3
<1>. HIDE DEF o, Passed
<1>4. AllTyped(o)
  BY <1>1, <1>2, MarkedKeeps
<1>5. ConnManAborts /\ AllChained(req, path) => AllChained(o, p)
  BY <1>1, <1>2, <1>3, MarkedKeeps
<1>. QED
  BY <1>4, <1>5 DEF o

(* The first service found to be the current one, or none.                 *)
LEMMA ReleaseKeeps ==
  ASSUME SetInv, release_current_cellular_service,
         UNCHANGED <<proxy, creating, asked, connman, roaming_allowed>>
  PROVE  ServiceTyped'
BY DEF SetInv, ServiceTyped, release_current_cellular_service

(* The services ConnMan lists: the first of them is the current one.       *)
LEMMA ServiceListKeeps ==
  ASSUME SetInv, NEW listed \in SUBSET Path, NEW p \in listed,
         update_from_service_list(p, listed)
  PROVE  /\ path' \in Path \cup {NoPath} /\ heard' = {path'} \ {NoPath} /\ wan_disabled' \in BOOLEAN
         /\ AllTyped(req') /\ ChainsKept
<1>. USE DEF SetInv
<1>. DEFINE requests == Overtaken(p, listed)
<1>1. \/ \E favorite, up, bus \in BOOLEAN :
             assign_current_cellular_service(p, favorite, up, bus, requests)
      \/ ProxiesFail /\ release_current_cellular_service /\ req' = requests
  BY DEF update_from_service_list
<1>2. p \in Path
  OBVIOUS
<1>3. AllTyped(requests)
  BY OvertakenKeeps
<1>4. ConnManAborts /\ AllChained(req, path) => AllChained(requests, p)
  BY OvertakenKeeps
<1>. HIDE DEF requests
<1>5. ASSUME NEW favorite \in BOOLEAN, NEW up \in BOOLEAN, NEW bus \in BOOLEAN,
             assign_current_cellular_service(p, favorite, up, bus, requests)
      PROVE  /\ path' \in Path \cup {NoPath} /\ heard' = {path'} \ {NoPath}
             /\ wan_disabled' \in BOOLEAN /\ AllTyped(req') /\ ChainsKept
  <2>1. path' = p /\ heard' = (heard \ {path}) \cup {p} /\ wan_disabled' = ~up
    BY <1>5 DEF assign_current_cellular_service
  <2>2. heard' = {path'} \ {NoPath} /\ path' \in Path \cup {NoPath} /\ wan_disabled' \in BOOLEAN
    BY <1>2, <2>1, WanSetAssumption DEF ServiceTyped
  <2>3. CASE favorite
    <3>1. req' = requests
      BY <1>5, <2>3 DEF assign_current_cellular_service
    <3>. QED
      BY <1>3, <1>4, <2>1, <2>2, <3>1 DEF ChainsKept
  <2>4. CASE ~favorite
    <3>. DEFINE after == switch_current_service_state(Fresh, bus, p)
                a == IF InFlight(after) THEN after ELSE Fresh
    <3>1. PICK r \in Setup : req' = [requests EXCEPT ![r] = a]
      BY <1>5, <2>4 DEF assign_current_cellular_service
    <3>2. Fresh.answers = 0 /\ Fresh.stage # "done" /\ Fresh.result = "none" /\ ~Fresh.aborted
      BY DEF Fresh
    <3>3. Typed(after) /\ Chain(after, p)
      BY <1>2, <3>2, SwitchIs, FreshIs
    <3>. HIDE DEF after
    <3>4. Typed(a) /\ Chain(a, p)
      BY <3>3, FreshIs
    <3>. HIDE DEF a
    <3>5. AllTyped(req') /\ (AllChained(requests, p) => AllChained(req', p))
      BY <1>3, <3>1, <3>4, PutKeeps DEF Request
    <3>. QED
      BY <1>4, <2>1, <2>2, <3>5 DEF ChainsKept
  <2>. QED
    BY <2>3, <2>4
<1>6. CASE ProxiesFail /\ release_current_cellular_service /\ req' = requests
  BY <1>3, <1>6 DEF release_current_cellular_service, ServiceTyped, ChainsKept
<1>. QED
  BY <1>1, <1>5, <1>6

(* A client's request begins.                                              *)
LEMMA SetConfigurationKeeps ==
  ASSUME SetInv, NEW s \in Set, set_configuration(s)
  PROVE  SetInv' /\ ChainsKept
<1>. USE DEF SetInv
<1>1. ServiceTyped' /\ path' = path
  BY DEF set_configuration, service, connman_manager, ServiceTyped
<1>2. PICK c \in Configuration, bus \in BOOLEAN :
        LET r == [Fresh EXCEPT !.disablewan = c.disablewan, !.roamguard = c.roamguard,
                               !.found = wan_disabled]
        IN  req' = [req EXCEPT ![s] =
              IF ~Switches(r) THEN apply_pending_roamguard(r)
              ELSE IF path = NoPath THEN finish_set_configuration(r, "error")
              ELSE switch_current_service_state(r, bus, path)]
  BY DEF set_configuration
<1>. DEFINE r == [Fresh EXCEPT !.disablewan = c.disablewan, !.roamguard = c.roamguard,
                               !.found = wan_disabled]
            a == IF ~Switches(r) THEN apply_pending_roamguard(r)
                 ELSE IF path = NoPath THEN finish_set_configuration(r, "error")
                 ELSE switch_current_service_state(r, bus, path)
<1>3. req' = [req EXCEPT ![s] = a]
  BY <1>2
<1>4. /\ r \in Req /\ r.answers = 0 /\ r.stage = "free" /\ r.result = "none" /\ ~r.aborted
      /\ r.found = wan_disabled
  BY DEF Fresh, Req, Configuration, ServiceTyped
<1>. HIDE DEF r
<1>5. Typed(a) /\ Chain(a, path)
  <2>1. CASE ~Switches(r)
    <3>1. DisablewanKept(r)
      BY <1>4, <2>1 DEF Switches, DisablewanKept
    <3>2. a = apply_pending_roamguard(r)
      BY <2>1
    <3>. HIDE DEF a
    <3>. QED
      BY <1>4, <3>1, <3>2, RoamguardIs
  <2>2. CASE Switches(r) /\ path = NoPath
    <3>1. a = finish_set_configuration(r, "error")
      BY <2>2
    <3>. HIDE DEF a
    <3>. QED
      BY <1>4, <3>1, FinishIs DEF Chain
  <2>3. CASE Switches(r) /\ path # NoPath
    <3>1. a = switch_current_service_state(r, bus, path) /\ path \in Path
      BY <2>3 DEF ServiceTyped
    <3>. HIDE DEF a
    <3>. QED
      BY <1>4, <3>1, SwitchIs
  <2>. QED
    BY <2>1, <2>2, <2>3
<1>. HIDE DEF a
<1>6. AllTyped(req') /\ (AllChained(req, path) => AllChained(req', path))
  BY <1>3, <1>5, PutKeeps DEF Request
<1>. QED
  BY <1>1, <1>6 DEF ChainsKept

(* What an answer makes of a request is put back, or freed.                *)
LEMMA ReplyKeeps ==
  ASSUME SetInv, NEW r \in Request, NEW after, Typed(after),
         Chain(req[r], path) => Chain(after, path),
         req' = [req EXCEPT ![r] = IF r \in Setup /\ ~InFlight(after) THEN Fresh ELSE after],
         UNCHANGED <<service, connman_manager, roaming_allowed, connman, bounds>>
  PROVE  SetInv' /\ ChainsKept
<1>. DEFINE a == IF r \in Setup /\ ~InFlight(after) THEN Fresh ELSE after
<1>1. Typed(a) /\ (Chain(req[r], path) => Chain(a, path)) /\ req' = [req EXCEPT ![r] = a]
  BY FreshIs
<1>. HIDE DEF a
<1>2. AllTyped(req') /\ (AllChained(req, path) /\ Chain(a, path) => AllChained(req', path))
  BY <1>1, PutKeeps DEF SetInv
<1>3. AllChained(req, path) => Chain(req[r], path)
  BY DEF AllChained
<1>4. ServiceTyped' /\ path' = path
  BY DEF SetInv, ServiceTyped, service, connman_manager
<1>. QED
  BY <1>1, <1>2, <1>3, <1>4 DEF SetInv, ChainsKept

(* The answers of the two calls on the service, and of ofono.              *)
LEMMA AnswersKeep ==
  ASSUME SetInv, NEW r \in Request, SwitchReply(r) \/ AutoConnectReply(r) \/ RoamingReply(r)
  PROVE  SetInv' /\ ChainsKept
<1>. USE DEF SetInv
<1>1. Typed(req[r])
  BY DEF AllTyped
<1>2. CASE SwitchReply(r)
  <2>1. PICK ok \in BOOLEAN :
          /\ ok => ~req[r].aborted
          /\ LET after == current_service_enabled_cb(req[r], ok)
             IN  req' = [req EXCEPT ![r] =
                           IF r \in Setup /\ ~InFlight(after) THEN Fresh ELSE after]
    BY <1>2 DEF SwitchReply, Reply
  <2>2. req[r].stage = "switch"
        /\ UNCHANGED <<service, connman_manager, roaming_allowed, connman, bounds>>
    BY <1>2 DEF SwitchReply, Reply
  <2>. DEFINE after == current_service_enabled_cb(req[r], ok)
  <2>3. Typed(after) /\ (Chain(req[r], path) => Chain(after, path))
    BY <1>1, <2>1, <2>2, SwitchedIs
  <2>4. req' = [req EXCEPT ![r] = IF r \in Setup /\ ~InFlight(after) THEN Fresh ELSE after]
    BY <2>1
  <2>. HIDE DEF after
  <2>. QED
    BY <2>2, <2>3, <2>4, ReplyKeeps
<1>3. CASE AutoConnectReply(r)
  <2>1. PICK ok \in BOOLEAN :
          LET after == current_service_autoconnect_set_cb(req[r], ok)
          IN  req' = [req EXCEPT ![r] =
                        IF r \in Setup /\ ~InFlight(after) THEN Fresh ELSE after]
    BY <1>3 DEF AutoConnectReply, Reply
  <2>2. req[r].stage = "autoconnect"
        /\ UNCHANGED <<service, connman_manager, roaming_allowed, connman, bounds>>
    BY <1>3 DEF AutoConnectReply, Reply
  <2>. DEFINE after == current_service_autoconnect_set_cb(req[r], ok)
  <2>3. Typed(after) /\ (Chain(req[r], path) => Chain(after, path))
    BY <1>1, <2>2, AutoConnectedIs
  <2>4. req' = [req EXCEPT ![r] = IF r \in Setup /\ ~InFlight(after) THEN Fresh ELSE after]
    BY <2>1
  <2>. HIDE DEF after
  <2>. QED
    BY <2>2, <2>3, <2>4, ReplyKeeps
<1>4. CASE RoamingReply(r)
  <2>1. PICK ok \in BOOLEAN :
          LET after == roamguard_set_cb(req[r], ok)
          IN  req' = [req EXCEPT ![r] =
                        IF r \in Setup /\ ~InFlight(after) THEN Fresh ELSE after]
    BY <1>4 DEF RoamingReply, Reply
  <2>2. req[r].stage = "roaming"
        /\ UNCHANGED <<service, connman_manager, roaming_allowed, connman, bounds>>
    BY <1>4 DEF RoamingReply, Reply
  <2>. DEFINE after == roamguard_set_cb(req[r], ok)
  <2>3. Typed(after) /\ (Chain(req[r], path) => Chain(after, path))
    BY <1>1, <2>2, RoamguardSetIs
  <2>4. req' = [req EXCEPT ![r] = IF r \in Setup /\ ~InFlight(after) THEN Fresh ELSE after]
    BY <2>1
  <2>. HIDE DEF after
  <2>. QED
    BY <2>2, <2>3, <2>4, ReplyKeeps
<1>. QED
  BY <1>2, <1>3, <1>4

(* The connection manager comes, changes or goes; a call on it fails then. *)
LEMMA ConnectionManagerKeeps ==
  ASSUME SetInv, ConnectionManager
  PROVE  SetInv' /\ ChainsKept
<1>. USE DEF SetInv
<1>1. PICK to \in {"none", "barred", "allowed"} :
        /\ roaming_allowed' = to
        /\ req' = [r \in Request |-> [req[r] EXCEPT
                     !.aborted = @ \/ (to = "none" /\ req[r].stage = "roaming")]]
  BY DEF ConnectionManager
<1>2. ServiceTyped' /\ path' = path
  BY <1>1 DEF ConnectionManager, service, connman_manager, ServiceTyped
<1>. DEFINE one(r) == [req[r] EXCEPT
                         !.aborted = @ \/ (to = "none" /\ req[r].stage = "roaming")]
<1>3. ASSUME NEW r \in Request
      PROVE  /\ one(r) \in Req /\ Typed(one(r)) /\ one(r).stage = req[r].stage
             /\ one(r).switched = req[r].switched /\ one(r).auto = req[r].auto
             /\ one(r).disablewan = req[r].disablewan /\ one(r).found = req[r].found
             /\ one(r).result = req[r].result /\ one(r).kept = req[r].kept
             /\ (~one(r).aborted => ~req[r].aborted) /\ one(r).overtaken = req[r].overtaken
  <2>1. req[r] \in Req /\ Typed(req[r])
    BY DEF AllTyped
  <2>2. one(r) = [req[r] EXCEPT
                    !.aborted = req[r].aborted \/ (to = "none" /\ req[r].stage = "roaming")]
    BY <2>1 DEF Req
  <2>. DEFINE now == req[r].aborted \/ (to = "none" /\ req[r].stage = "roaming")
  <2>3. now \in BOOLEAN /\ (~now => ~req[r].aborted) /\ one(r) = [req[r] EXCEPT !.aborted = now]
    BY <2>2
  <2>. HIDE DEF now, one
  <2>4. /\ one(r) \in Req /\ one(r).stage = req[r].stage /\ one(r).answers = req[r].answers
        /\ one(r).switched = req[r].switched /\ one(r).auto = req[r].auto
        /\ one(r).disablewan = req[r].disablewan /\ one(r).found = req[r].found
        /\ one(r).result = req[r].result /\ one(r).kept = req[r].kept
        /\ one(r).aborted = now /\ one(r).overtaken = req[r].overtaken
    BY <2>1, <2>3 DEF Req
  <2>. QED
    BY <2>1, <2>3, <2>4 DEF Typed
<1>4. req' = [r \in Request |-> one(r)]
  BY <1>1
<1>. HIDE DEF one
<1>5. AllTyped(req')
  BY <1>3, <1>4 DEF AllTyped
<1>6. ASSUME NEW r \in Request, Chain(req[r], path) PROVE Chain(one(r), path)
  BY <1>3, <1>6 DEF Chain, DisablewanKept
<1>7. AllChained(req, path) => AllChained(req', path)
  BY <1>4, <1>6 DEF AllChained
<1>. QED
  BY <1>2, <1>5, <1>7 DEF ChainsKept

(* ConnMan's list of services.                                             *)
LEMMA ServicesChangedKeeps ==
  ASSUME SetInv, services_added \/ service_removed \/ connman_manager_get_services_cb
                 \/ connman_vanished_cb
  PROVE  SetInv' /\ ChainsKept
<1>. USE DEF SetInv
<1>1. CASE services_added
  <2>1. PICK p \in Path : update_from_service_list(p, Path)
    BY <1>1 DEF services_added
  <2>2. UNCHANGED <<proxy, creating, asked, roaming_allowed, connman>>
    BY <1>1 DEF services_added, connman_manager
  <2>3. /\ path' \in Path \cup {NoPath} /\ heard' = {path'} \ {NoPath}
        /\ wan_disabled' \in BOOLEAN /\ AllTyped(req') /\ ChainsKept
    BY <2>1, ServiceListKeeps
  <2>. QED
    BY <2>2, <2>3 DEF ServiceTyped
<1>2. CASE service_removed
  <2>1. /\ UNCHANGED <<proxy, creating, asked, roaming_allowed, connman>>
        /\ release_current_cellular_service /\ req' = Aborted({path})
    BY <1>2 DEF service_removed, connman_manager
  <2>. QED
    BY <2>1, ReleaseKeeps, AbortedKeeps DEF ChainsKept
<1>3. CASE connman_manager_get_services_cb
  <2>1. /\ UNCHANGED <<proxy, creating, roaming_allowed, connman>>
        /\ asked > 0 /\ asked' = asked - 1
    BY <1>3 DEF connman_manager_get_services_cb
  <2>2. asked' \in Nat
    BY <2>1 DEF ServiceTyped
  <2>3. CASE UNCHANGED <<service, req>>
    BY <2>1, <2>2, <2>3 DEF service, ServiceTyped, ChainsKept
  <2>4. CASE release_current_cellular_service /\ req' = Aborted(Path)
    <3>1. path \in Path \cup {NoPath}
      BY DEF ServiceTyped
    <3>2. AllTyped(req') /\ ChainsKept
      BY <2>4, <3>1, AbortedKeeps DEF ChainsKept
    <3>. QED
      BY <2>1, <2>2, <2>4, <3>2 DEF release_current_cellular_service, ServiceTyped
  <2>5. ASSUME NEW listed \in SUBSET Path, NEW p \in listed, update_from_service_list(p, listed)
        PROVE  SetInv' /\ ChainsKept
    <3>1. /\ path' \in Path \cup {NoPath} /\ heard' = {path'} \ {NoPath}
          /\ wan_disabled' \in BOOLEAN /\ AllTyped(req') /\ ChainsKept
      BY <2>5, ServiceListKeeps
    <3>. QED
      BY <2>1, <2>2, <3>1 DEF ServiceTyped
  <2>. QED
    BY <1>3, <2>3, <2>4, <2>5 DEF connman_manager_get_services_cb
<1>4. CASE connman_vanished_cb
  <2>1. /\ UNCHANGED <<creating, asked, roaming_allowed>> /\ proxy' = FALSE /\ connman' = FALSE
        /\ release_current_cellular_service /\ req' = Aborted(Path) /\ path \in Path \cup {NoPath}
    BY <1>4 DEF connman_vanished_cb, ServiceTyped
  <2>2. ServiceTyped'
    BY <2>1 DEF ServiceTyped, release_current_cellular_service
  <2>. QED
    BY <2>1, <2>2, AbortedKeeps DEF ChainsKept
<1>. QED
  BY <1>1, <1>2, <1>3, <1>4

(* What touches no request.                                                *)
LEMMA OthersKeep ==
  ASSUME SetInv, current_service_changed \/ connman_appeared_cb
                 \/ connman_manager_proxy_connect_cb \/ UNCHANGED wanSetVars
  PROVE  SetInv' /\ ChainsKept
<1>1. UNCHANGED <<req, path>>
  BY DEF current_service_changed, connman_appeared_cb, connman_manager_proxy_connect_cb,
         wanSetVars, service
<1>2. AllTyped(req')
  BY <1>1 DEF SetInv
<1>3. ServiceTyped'
  <2>. USE DEF SetInv, ServiceTyped
  <2>1. CASE current_service_changed
    BY <2>1 DEF current_service_changed, connman_manager
  <2>2. CASE connman_appeared_cb
    BY <2>2 DEF connman_appeared_cb, service
  <2>3. CASE connman_manager_proxy_connect_cb
    BY <2>3 DEF connman_manager_proxy_connect_cb, service
  <2>4. CASE UNCHANGED wanSetVars
    BY <2>4 DEF wanSetVars, service, connman_manager
  <2>. QED
    BY <2>1, <2>2, <2>3, <2>4
<1>. QED
  BY <1>1, <1>2, <1>3 DEF SetInv, ChainsKept

(* Every step keeps the types, and with them the chains.                   *)
LEMMA SetStepKeeps == SetInv /\ [WanSetNext]_wanSetVars => SetInv' /\ ChainsKept
<1>. SUFFICES ASSUME SetInv, [WanSetNext]_wanSetVars PROVE SetInv' /\ ChainsKept
  OBVIOUS
<1>1. ASSUME NEW s \in Set, set_configuration(s) PROVE SetInv' /\ ChainsKept
  BY <1>1, SetConfigurationKeeps
<1>2. ASSUME NEW r \in Request, SwitchReply(r) \/ AutoConnectReply(r) PROVE SetInv' /\ ChainsKept
  BY <1>2, AnswersKeep
<1>3. ASSUME NEW s \in Set, RoamingReply(s) PROVE SetInv' /\ ChainsKept
  BY <1>3, AnswersKeep DEF Request
<1>. QED
  BY <1>1, <1>2, <1>3, ConnectionManagerKeeps, ServicesChangedKeeps, OthersKeep DEF WanSetNext

(* No request has begun.                                                   *)
LEMMA SetInitHolds == WanSetInit => SetInv /\ AllChained(req, path)
<1>. SUFFICES ASSUME WanSetInit PROVE SetInv /\ AllChained(req, path)
  OBVIOUS
<1>1. req = [r \in Request |-> Fresh]
  BY DEF WanSetInit
<1>2. AllTyped(req) /\ AllChained(req, path)
  BY <1>1, FreshIs DEF AllTyped, AllChained
<1>3. ServiceTyped
  BY DEF WanSetInit, ServiceTyped
<1>. QED
  BY <1>2, <1>3 DEF SetInv

(* Every variable of the sets keeps its type; no request is answered twice *)
(* and only the current service is heard, whatever ConnMan lists.          *)
THEOREM SetsAreWellTyped == WanSetSpec => []WanSetTypeOK
<1>1. SetInv => WanSetTypeOK
  BY DEF SetInv, ServiceTyped, AllTyped, Typed, Req, WanSetTypeOK
<1>. QED
  BY <1>1, SetInitHolds, SetStepKeeps, PTL DEF WanSetSpec

(* A set that is answered with success has done all it was asked to do, on *)
(* one service unless ConnMan listed another before it meanwhile, if       *)
(* ConnMan fails the calls on a service it removes, and a proxy can always *)
(* be created.                                                             *)
THEOREM SuccessMeansDone ==
  ASSUME ConnManAborts, ~ProxiesFail
  PROVE  WanSetSpec => []OkMeansDone
<1>1. AllChained(req, path) => OkMeansDone
  BY DEF AllChained, Chain, OkMeansDone, Request
<1>2. SetInv /\ AllChained(req, path) /\ [WanSetNext]_wanSetVars
        => (SetInv /\ AllChained(req, path))'
  BY SetStepKeeps DEF ChainsKept
<1>. QED
  BY <1>1, <1>2, SetInitHolds, PTL DEF WanSetSpec
=============================================================================
