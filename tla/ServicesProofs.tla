-------------------------- MODULE ServicesProofs --------------------------
(***************************************************************************)
(* Proofs about the services of a SIM slot, for any clients: Network,      *)
(* VoiceCalls, and the part of SimLock that is kept from what ofono sends. *)
(* All three keep a copy of what ofono has up to date from a sequence of   *)
(* messages.  In Network and SimLock the last message that names a         *)
(* property says what holds of it; in VoiceCalls what the list and the     *)
(* states of its calls will be, once all on its way is handled, is what    *)
(* they are in ofono.  And about SimTable: what the settings hold, what    *)
(* the service holds and what the user last chose are the same at every    *)
(* moment; with that the choice follows its card through swaps, moved      *)
(* modems and restarts.                                                    *)
(***************************************************************************)
EXTENDS Network, VoiceCalls, SimLock, SimTable, FiniteSetTheorems, SequenceTheorems,
        WellFoundedInduction, TLAPS

-----------------------------------------------------------------------------
(* A set of numbers that is not empty has a least one.                     *)
LEMMA LeastIsMember ==
  ASSUME NEW S \in SUBSET Nat, S # {}
  PROVE  Min(S) \in S
<1>. DEFINE less == {ss \in Nat \X Nat : ss[1] < ss[2]}
<1>1. less = OpToRel(<, Nat)
  BY Zenon DEF OpToRel
<1>. HIDE DEF less
<1>2. IsWellFoundedOn(less, Nat)
  BY <1>1, NatLessThanWellFounded, Zenon
<1>3. PICK n \in S : \A k \in S : ~ (<<k, n>> \in less)
  BY <1>2, WFMin
<1>4. ASSUME NEW k \in S, ~(n <= k) PROVE FALSE
  <2>1. k < n /\ k \in Nat /\ n \in Nat
    BY <1>4
  <2>2. <<k, n>> \in less
    BY <2>1 DEF less
  <2>. QED
    BY <1>3, <2>2
<1>. QED
  BY <1>4 DEF Min

-----------------------------------------------------------------------------
(* The invariant of Network.                                               *)

(* Every client that waits has one call.                                   *)
CallsMatch ==
  /\ calls \subseteq NetworkCall /\ waiting = {k.who : k \in calls}
  /\ \A j, k \in calls : j.who = k.who => j = k

(* A scan that was not cancelled can be; and with a registration, or with  *)
(* one to cancel, there is no other.                                       *)
OneScan ==
  LET scans == {k \in calls : k.kind = "scan"}
  IN  /\ network_status_query_pending => scans # {}
      /\ \A k \in scans : ~k.lost => k.who = network_scan_cancellable
      /\ network_scan_cancellable # NoScan => \E k \in scans : k.who = network_scan_cancellable
      /\ netreg \/ network_scan_cancellable # NoScan =>
           \A k \in scans : k.who = network_scan_cancellable

ScanInv ==
  /\ slot \in {"gone", "there", "ready"}
  /\ {network_status_query_pending, netreg} \subseteq BOOLEAN
  /\ network_scan_cancellable \in Client \cup {NoScan}
  /\ CallsMatch /\ OneScan
  /\ slot = "gone" =>
       ~netreg /\ ~network_status_query_pending /\ network_scan_cancellable = NoScan

(* What ofono may send: all properties, or some.                           *)
Message == UNION {[P -> 0..1] : P \in SUBSET Property}

(* What holds of a property is what was heard of it, or what the last      *)
(* message on its way that names it says.                                  *)
WireEndsWithTruth ==
  \A p \in Property :
    /\ (\A n \in 1..Len(wire) : p \notin DOMAIN wire[n]) => heard[p] = network[p]
    /\ \A n \in 1..Len(wire) :
         p \in DOMAIN wire[n] /\ (\A m \in n + 1..Len(wire) : p \notin DOMAIN wire[m])
           => wire[n][p] = network[p]

ToldAsHeard == \A p \in Property \ untold : told[p] = IF netreg THEN heard[p] ELSE 0

StatusInv ==
  /\ {heard, network, told} \subseteq [Property -> 0..1] /\ untold \subseteq Property
  /\ wire \in Seq(Message) /\ ToldAsHeard
  /\ IF netreg THEN WireEndsWithTruth ELSE wire = <<>> /\ heard = None
  /\ slot = "gone" => untold = Property \/ told = None

NetworkInv == {power_off_pending, rs} \subseteq BOOLEAN /\ ScanInv /\ StatusInv

-----------------------------------------------------------------------------
(* The scan.                                                               *)

(* A step that leaves the calls, the slot and the registration alone.      *)
LEMMA ScanUntouched ==
  ASSUME ScanInv, UNCHANGED <<slot, netreg, scanning, requests>>
  PROVE  ScanInv'
BY DEF ScanInv, CallsMatch, OneScan, scanning, requests

(* A request makes a call of its own.                                      *)
LEMMA AskingMatches ==
  ASSUME CallsMatch, NEW g \in Client \ waiting,
         NEW kind \in {"scan", "operators", "register"}, AskNetwork(g, kind)
  PROVE  /\ CallsMatch'
         /\ calls' = calls \cup {[who |-> g, kind |-> kind, lost |-> FALSE]}
<1>. DEFINE new == [who |-> g, kind |-> kind, lost |-> FALSE]
<1>1. calls' = calls \cup {new} /\ waiting' = waiting \cup {g}
  BY DEF AskNetwork, Ask
<1>2. new \in NetworkCall /\ new.who = g
  BY DEF NetworkCall
<1>3. \A k \in calls : k.who # g
  BY DEF CallsMatch
<1>. HIDE DEF new
<1>4. CallsMatch'
  BY <1>1, <1>2, <1>3 DEF CallsMatch
<1>. QED
  BY <1>1, <1>4 DEF new

(* An answer takes the call and the client that waits for it.              *)
LEMMA AnsweringMatches ==
  ASSUME CallsMatch, NEW k \in calls, Answered(k)
  PROVE  CallsMatch'
BY DEF CallsMatch, Answered

(* A cancelled scan is the same call of the same client.                   *)
LEMMA CancellingMatches ==
  ASSUME CallsMatch, calls' = Cancelled, UNCHANGED waiting
  PROVE  /\ CallsMatch'
         /\ \A j \in calls : \E k \in calls' : k.who = j.who /\ k.kind = j.kind
         /\ \A k \in calls' : \E j \in calls :
              /\ k.who = j.who /\ k.kind = j.kind
              /\ ~k.lost => ~j.lost /\ ~(j.kind = "scan" /\ j.who = network_scan_cancellable)
<1>. DEFINE mark(k) == IF k.kind = "scan" /\ k.who = network_scan_cancellable
                       THEN [k EXCEPT !.lost = TRUE] ELSE k
<1>1. calls' = {mark(k) : k \in calls}
  BY DEF Cancelled
<1>2. ASSUME NEW k \in calls
      PROVE  /\ mark(k) \in NetworkCall /\ mark(k).who = k.who /\ mark(k).kind = k.kind
             /\ ~mark(k).lost =>
                  ~k.lost /\ ~(k.kind = "scan" /\ k.who = network_scan_cancellable)
  BY DEF CallsMatch, NetworkCall
<1>. HIDE DEF mark
<1>3. CallsMatch'
  BY <1>1, <1>2 DEF CallsMatch
<1>. QED
  BY <1>1, <1>2, <1>3

(* A scan that is accepted is the only one, and the one to cancel.         *)
LEMMA ScanStarts ==
  ASSUME ScanInv, NEW g \in Client, network_list_query(g)
  PROVE  ScanInv'
<1>. USE DEF network_list_query, ofono_network_list_query
<1>1. /\ CallsMatch' /\ calls' = calls \cup {[who |-> g, kind |-> "scan", lost |-> FALSE]}
  BY AskingMatches DEF ScanInv, Accepts
<1>2. \A k \in calls : k.kind # "scan"
  BY NetworkAssumption DEF ScanInv, OneScan, CallsMatch, NetworkCall
<1>3. /\ network_scan_cancellable' = g /\ netreg' = netreg
      /\ \E k \in calls' : k.kind = "scan" /\ k.who = g
  <2>1. [who |-> g, kind |-> "scan", lost |-> FALSE] \in calls'
    BY <1>1
  <2>. QED
    BY <2>1 DEF status
<1>4. \A k \in calls' : k.kind = "scan" => k.who = g
  BY <1>1, <1>2
<1>5. OneScan'
  BY <1>3, <1>4 DEF OneScan
<1>. QED
  BY <1>1, <1>5 DEF ScanInv, Accepts, status

(* Another request leaves the scan alone.                                  *)
LEMMA OtherRequestStarts ==
  ASSUME ScanInv, NEW g \in Client \ waiting, NEW kind \in {"operators", "register"},
         AskNetwork(g, kind), UNCHANGED <<slot, netreg, scanning>>
  PROVE  ScanInv'
<1>1. CallsMatch' /\ calls' = calls \cup {[who |-> g, kind |-> kind, lost |-> FALSE]}
  BY AskingMatches DEF ScanInv
<1>2. \A k : k.kind = "scan" => (k \in calls' <=> k \in calls)
  BY <1>1
<1>3. OneScan'
  BY <1>2 DEF ScanInv, OneScan, scanning
<1>. QED
  BY <1>1, <1>3 DEF ScanInv, scanning

(* The answer to it, too.                                                  *)
LEMMA OtherRequestEnds ==
  ASSUME ScanInv, NEW k \in calls, k.kind # "scan", Answered(k),
         UNCHANGED <<slot, netreg, scanning>>
  PROVE  ScanInv'
<1>1. CallsMatch'
  BY AnsweringMatches DEF ScanInv
<1>2. OneScan'
  BY DEF ScanInv, OneScan, scanning, Answered
<1>. QED
  BY <1>1, <1>2 DEF ScanInv, scanning

(* The operator that was found is registered with for the same client.     *)
LEMMA RegistrationStarts ==
  ASSUME ScanInv, NEW k \in calls, k.kind = "operators", ofono_network_operator_register(k),
         UNCHANGED <<slot, netreg, scanning>>
  PROVE  ScanInv'
<1>. DEFINE new == [k EXCEPT !.kind = "register"]
<1>1. new \in NetworkCall /\ new.who = k.who /\ new.kind = "register"
  BY DEF ScanInv, CallsMatch, NetworkCall
<1>2. calls' = (calls \ {k}) \cup {new} /\ UNCHANGED waiting
  BY DEF ofono_network_operator_register
<1>. HIDE DEF new
<1>3. CallsMatch'
  BY <1>1, <1>2 DEF ScanInv, CallsMatch
<1>4. \A j : j.kind = "scan" => (j \in calls' <=> j \in calls)
  BY <1>1, <1>2
<1>5. OneScan'
  BY <1>4 DEF ScanInv, OneScan, scanning
<1>. QED
  BY <1>3, <1>5 DEF ScanInv, scanning

(* The answer to a scan: with a slot, none is left to cancel or pending.   *)
LEMMA ScanEnds ==
  ASSUME ScanInv, NEW k \in calls, scan_operators_cb(k)
  PROVE  ScanInv'
<1>. USE DEF scan_operators_cb, network_list_query_finish
<1>1. CallsMatch' /\ calls' = calls \ {k}
  BY AnsweringMatches DEF ScanInv, Answered
<1>2. CASE slot = "gone"
  <2>1. OneScan'
    BY <1>1, <1>2 DEF ScanInv, OneScan, status
  <2>. QED
    BY <1>1, <1>2, <2>1 DEF ScanInv, status
<1>3. CASE slot # "gone"
  <2>1. network_scan_cancellable' = NoScan /\ ~network_status_query_pending'
    BY <1>3
  <2>2. CASE netreg \/ network_scan_cancellable # NoScan
    <3>1. \A j \in calls' : j.kind # "scan"
      BY <1>1, <2>2 DEF ScanInv, OneScan, CallsMatch
    <3>. QED
      BY <1>1, <2>1, <3>1 DEF ScanInv, OneScan, status
  <2>3. CASE ~netreg /\ network_scan_cancellable = NoScan
    BY <1>1, <2>1, <2>3 DEF ScanInv, OneScan, status
  <2>. QED
    BY <2>2, <2>3
<1>. QED
  BY <1>2, <1>3

(* Without a registration all scans are cancelled, as the slot is detached.*)
LEMMA DetachCancels ==
  ASSUME ScanInv, Detach, UNCHANGED waiting, slot' \in {"gone", "there", "ready"},
         \/ UNCHANGED network_status_query_pending /\ UNCHANGED slot
         \/ network_status_query_pending' = FALSE
  PROVE  ScanInv'
<1>. USE DEF Detach, ofono_network_registration_free
<1>1. /\ CallsMatch'
      /\ \A j \in calls : \E k \in calls' : k.who = j.who /\ k.kind = j.kind
      /\ \A k \in calls' : \E j \in calls :
           /\ k.who = j.who /\ k.kind = j.kind
           /\ ~k.lost => ~j.lost /\ ~(j.kind = "scan" /\ j.who = network_scan_cancellable)
  BY CancellingMatches DEF ScanInv
<1>2. \A k \in calls' : k.kind = "scan" => k.lost
  BY <1>1 DEF ScanInv, OneScan, CallsMatch
<1>3. network_scan_cancellable' = NoScan /\ netreg' = FALSE
  OBVIOUS
<1>4. OneScan'
  BY <1>1, <1>2, <1>3 DEF ScanInv, OneScan
<1>5. /\ network_status_query_pending' \in BOOLEAN
      /\ slot' = "gone" => ~network_status_query_pending'
  <2>1. CASE UNCHANGED network_status_query_pending /\ UNCHANGED slot
    BY <2>1 DEF ScanInv
  <2>2. CASE network_status_query_pending' = FALSE
    BY <2>2
  <2>. QED
    BY <2>1, <2>2
<1>. QED
  BY <1>1, <1>3, <1>4, <1>5 DEF ScanInv

(* A scan that its client cancels stays the one to cancel.                 *)
LEMMA ScanIsCancelled ==
  ASSUME ScanInv, network_list_query_cancel
  PROVE  ScanInv'
<1>. USE DEF network_list_query_cancel
<1>1. /\ CallsMatch'
      /\ \A j \in calls : \E k \in calls' : k.who = j.who /\ k.kind = j.kind
      /\ \A k \in calls' : \E j \in calls :
           /\ k.who = j.who /\ k.kind = j.kind
           /\ ~k.lost => ~j.lost /\ ~(j.kind = "scan" /\ j.who = network_scan_cancellable)
  BY CancellingMatches DEF ScanInv
<1>2. /\ network_status_query_pending' = FALSE
      /\ UNCHANGED <<network_scan_cancellable, netreg, slot>>
  BY DEF status
<1>3. OneScan'
  BY <1>1, <1>2 DEF ScanInv, OneScan
<1>. QED
  BY <1>1, <1>2, <1>3 DEF ScanInv

-----------------------------------------------------------------------------
(* What subscribers are told.                                              *)

(* A step that leaves all of it, and the network, alone.                   *)
LEMMA StatusUntouched ==
  ASSUME StatusInv, UNCHANGED <<status, network>>, slot' = "gone" => slot = "gone"
  PROVE  StatusInv'
BY DEF StatusInv, ToldAsHeard, WireEndsWithTruth, status

(* The properties that a message names are replaced, the others stay.      *)
LEMMA UpdatedProperty ==
  ASSUME NEW props \in [Property -> 0..1], NEW change \in Message
  PROVE  /\ DOMAIN change \subseteq Property
         /\ Updated(props, change) \in [Property -> 0..1]
         /\ \A p \in Property :
              Updated(props, change)[p] = IF p \in DOMAIN change THEN change[p] ELSE props[p]
<1>1. PICK P \in SUBSET Property : change \in [P -> 0..1]
  BY DEF Message
<1>. QED
  BY <1>1 DEF Updated

(* A message is handled: it is the first one, and any after it stay.       *)
LEMMA HandlingKeepsTruth ==
  ASSUME {heard, network} \subseteq [Property -> 0..1], wire \in Seq(Message), WireEndsWithTruth,
         wire # <<>>, wire' = Tail(wire), heard' = Updated(heard, Head(wire)), UNCHANGED network
  PROVE  WireEndsWithTruth'
<1>1. /\ Head(wire) = wire[1] /\ Head(wire) \in Message
      /\ Len(wire') = Len(wire) - 1 /\ Len(wire) \in Nat \ {0}
      /\ \A n \in 1..Len(wire') : wire'[n] = wire[n + 1]
  OBVIOUS
<1>2. \A p \in Property :
        heard'[p] = IF p \in DOMAIN wire[1] THEN wire[1][p] ELSE heard[p]
  BY <1>1, UpdatedProperty
<1>3. ASSUME NEW p \in Property, \A n \in 1..Len(wire') : p \notin DOMAIN wire'[n]
      PROVE  heard'[p] = network'[p]
  <2>1. \A n \in 2..Len(wire) : p \notin DOMAIN wire[n]
    <3>1. ASSUME NEW n \in 2..Len(wire) PROVE p \notin DOMAIN wire[n]
      <4>1. n - 1 \in 1..Len(wire') /\ (n - 1) + 1 = n
        BY <1>1
      <4>. QED
        BY <1>1, <1>3, <4>1
    <3>. QED
      BY <3>1
  <2>2. CASE p \in DOMAIN wire[1]
    BY <1>1, <1>2, <2>1, <2>2 DEF WireEndsWithTruth
  <2>3. CASE p \notin DOMAIN wire[1]
    <3>1. \A n \in 1..Len(wire) : p \notin DOMAIN wire[n]
      BY <1>1, <2>1, <2>3
    <3>. QED
      BY <1>2, <2>3, <3>1 DEF WireEndsWithTruth
  <2>. QED
    BY <2>2, <2>3
<1>4. ASSUME NEW p \in Property, NEW n \in 1..Len(wire'), p \in DOMAIN wire'[n],
             \A m \in n + 1..Len(wire') : p \notin DOMAIN wire'[m]
      PROVE  wire'[n][p] = network'[p]
  <2>1. n + 1 \in 1..Len(wire) /\ wire'[n] = wire[n + 1]
    BY <1>1
  <2>2. ASSUME NEW m \in (n + 1) + 1..Len(wire) PROVE p \notin DOMAIN wire[m]
    <3>1. m - 1 \in n + 1..Len(wire') /\ m - 1 \in 1..Len(wire') /\ (m - 1) + 1 = m
      BY <1>1
    <3>. QED
      BY <1>1, <1>4, <3>1
  <2>. QED
    BY <1>4, <2>1, <2>2 DEF WireEndsWithTruth
<1>. QED
  BY <1>3, <1>4 DEF WireEndsWithTruth

(* A property changes, and a message that says so is the last one.         *)
LEMMA SendingKeepsTruth ==
  ASSUME {heard, network} \subseteq [Property -> 0..1], wire \in Seq(Message), WireEndsWithTruth,
         NEW q \in Property, network' = [network EXCEPT ![q] = 1 - @],
         wire' = Append(wire, [p \in {q} |-> network'[p]]), UNCHANGED heard
  PROVE  WireEndsWithTruth' /\ wire' \in Seq(Message)
<1>. DEFINE last == [p \in {q} |-> network'[p]]
<1>1. last \in Message /\ DOMAIN last = {q} /\ last[q] = network'[q]
  <2>1. last \in [{q} -> 0..1] /\ {q} \in SUBSET Property
    OBVIOUS
  <2>. QED
    BY <2>1 DEF Message
<1>. HIDE DEF last
<1>2. /\ wire' \in Seq(Message) /\ Len(wire') = Len(wire) + 1 /\ Len(wire) \in Nat
      /\ \A n \in 1..Len(wire) : wire'[n] = wire[n]
      /\ wire'[Len(wire')] = last
  BY <1>1 DEF last
<1>3. ASSUME NEW p \in Property, \A n \in 1..Len(wire') : p \notin DOMAIN wire'[n]
      PROVE  heard'[p] = network'[p]
  <2>1. p # q
    BY <1>1, <1>2, <1>3
  <2>2. \A n \in 1..Len(wire) : p \notin DOMAIN wire[n]
    BY <1>2, <1>3
  <2>. QED
    BY <2>1, <2>2 DEF WireEndsWithTruth
<1>4. ASSUME NEW p \in Property, NEW n \in 1..Len(wire'), p \in DOMAIN wire'[n],
             \A m \in n + 1..Len(wire') : p \notin DOMAIN wire'[m]
      PROVE  wire'[n][p] = network'[p]
  <2>1. CASE n = Len(wire')
    BY <1>1, <1>2, <1>4, <2>1
  <2>2. CASE n # Len(wire')
    <3>3. n \in 1..Len(wire) /\ Len(wire') \in n + 1..Len(wire')
      BY <1>2, <1>4, <2>2
    <3>4. p \notin DOMAIN wire'[Len(wire')]
      BY <1>4, <3>3
    <3>1. n \in 1..Len(wire) /\ p # q
      BY <1>1, <1>2, <3>3, <3>4
    <3>2. \A m \in n + 1..Len(wire) : p \notin DOMAIN wire[m]
      BY <1>2, <1>4, <3>1
    <3>. QED
      BY <1>2, <1>4, <3>1, <3>2 DEF WireEndsWithTruth
  <2>. QED
    BY <2>1, <2>2
<1>. QED
  BY <1>2, <1>3, <1>4 DEF WireEndsWithTruth

(* The first message is handled, and told unless the power is going off.   *)
LEMMA MessageIsTold ==
  ASSUME NetworkInv, network_prop_changed_cb
  PROVE  StatusInv'
<1>. USE DEF network_prop_changed_cb, update_network_property
<1>1. /\ {heard, network, told} \subseteq [Property -> 0..1] /\ wire \in Seq(Message)
      /\ netreg /\ WireEndsWithTruth /\ ToldAsHeard
  BY DEF NetworkInv, ScanInv, StatusInv
<1>2. Head(wire) \in Message /\ wire' \in Seq(Message)
  BY <1>1
<1>3. /\ DOMAIN Head(wire) \subseteq Property
      /\ \A props \in [Property -> 0..1] :
           /\ Updated(props, Head(wire)) \in [Property -> 0..1]
           /\ \A p \in Property : Updated(props, Head(wire))[p] =
                IF p \in DOMAIN Head(wire) THEN Head(wire)[p] ELSE props[p]
  <2>1. ASSUME NEW props \in [Property -> 0..1]
        PROVE  /\ DOMAIN Head(wire) \subseteq Property
               /\ Updated(props, Head(wire)) \in [Property -> 0..1]
               /\ \A p \in Property : Updated(props, Head(wire))[p] =
                    IF p \in DOMAIN Head(wire) THEN Head(wire)[p] ELSE props[p]
    BY <1>2, UpdatedProperty
  <2>. QED
    BY <1>1, <2>1
<1>4. WireEndsWithTruth'
  BY <1>1, HandlingKeepsTruth
<1>5. /\ heard' = Updated(heard, Head(wire)) /\ UNCHANGED <<netreg, network, slot>>
  OBVIOUS
<1>6. /\ {heard, told}' \subseteq [Property -> 0..1] /\ untold' \subseteq Property
      /\ ToldAsHeard'
  <2>1. CASE power_off_pending
    BY <1>1, <1>3, <1>5, <2>1 DEF Notify, ToldAsHeard, NetworkInv, StatusInv
  <2>2. CASE ~power_off_pending
    BY <1>1, <1>3, <1>5, <2>2 DEF Notify, ToldAsHeard, NetworkInv, StatusInv
  <2>. QED
    BY <2>1, <2>2
<1>7. slot # "gone"
  BY <1>1 DEF NetworkInv, ScanInv
<1>. QED
  BY <1>1, <1>2, <1>4, <1>5, <1>6, <1>7 DEF StatusInv

(* The network changes; a registration is sent word of it.                 *)
LEMMA ChangeIsSent ==
  ASSUME NetworkInv, NEW q \in Property, NetworkChanges(q)
  PROVE  StatusInv'
<1>. USE DEF NetworkChanges
<1>1. {heard, network, told} \subseteq [Property -> 0..1] /\ wire \in Seq(Message)
  BY DEF NetworkInv, StatusInv
<1>2. network' \in [Property -> 0..1]
  BY <1>1
<1>3. CASE netreg
  <2>1. WireEndsWithTruth' /\ wire' \in Seq(Message)
    BY <1>1, <1>3, SendingKeepsTruth DEF NetworkInv, StatusInv
  <2>. QED
    BY <1>2, <1>3, <2>1 DEF NetworkInv, StatusInv, ToldAsHeard
<1>4. CASE ~netreg
  BY <1>2, <1>4 DEF NetworkInv, StatusInv, ToldAsHeard
<1>. QED
  BY <1>3, <1>4

(* A registration starts with nothing heard, which is told as nothing, and *)
(* hears all that holds.                                                   *)
LEMMA RegistrationAppears ==
  ASSUME NetworkInv, netreg_create
  PROVE  ScanInv' /\ StatusInv'
<1>. USE DEF netreg_create, ofono_network_registration_create
<1>1. ScanInv'
  BY DEF NetworkInv, ScanInv, CallsMatch, OneScan, NothingLost, requests, scanning
<1>2. wire' = <<network>> /\ heard' = None /\ netreg' = TRUE /\ UNCHANGED network
  OBVIOUS
<1>3. network \in Message /\ DOMAIN network = Property /\ network \in [Property -> 0..1]
  BY DEF NetworkInv, StatusInv, Message
<1>4. wire' \in Seq(Message) /\ Len(wire') = 1 /\ wire'[1] = network
  BY <1>2, <1>3
<1>5. WireEndsWithTruth'
  BY <1>2, <1>3, <1>4 DEF WireEndsWithTruth
<1>6. ToldAsHeard' /\ heard' \in [Property -> 0..1]
  BY <1>2 DEF NetworkInv, StatusInv, ToldAsHeard, None
<1>. QED
  BY <1>1, <1>2, <1>3, <1>4, <1>5, <1>6 DEF NetworkInv, StatusInv

(* One that goes leaves nothing heard, and the status is told.             *)
LEMMA RegistrationGoes ==
  ASSUME NetworkInv, netreg_free
  PROVE  ScanInv' /\ StatusInv'
<1>. USE DEF netreg_free, ofono_network_registration_free
<1>1. ScanInv'
  BY DEF NetworkInv, ScanInv, CallsMatch, OneScan, requests, scanning
<1>2. heard' = None /\ None \in [Property -> 0..1] /\ netreg' = FALSE /\ wire' = <<>>
      /\ slot # "gone"
  BY DEF None, NetworkInv, ScanInv
<1>3. told' \in [Property -> 0..1] /\ untold' \subseteq Property /\ ToldAsHeard'
  <2>1. CASE power_off_pending
    BY <2>1 DEF notify_no_network_registration, NetworkInv, StatusInv, ToldAsHeard
  <2>2. CASE ~power_off_pending
    BY <1>2, <2>2 DEF notify_no_network_registration, NetworkInv, StatusInv, ToldAsHeard, Property
  <2>. QED
    BY <2>1, <2>2
<1>. QED
  BY <1>1, <1>2, <1>3 DEF NetworkInv, StatusInv

(* With another modem, or none, subscribers are told nothing any more.     *)
LEMMA DetachTellsNothing ==
  ASSUME StatusInv, Detach
  PROVE  StatusInv'
<1>1. None \in [Property -> 0..1]
  BY DEF None
<1>. QED
  BY <1>1 DEF StatusInv, ToldAsHeard, Detach, ofono_network_registration_free

-----------------------------------------------------------------------------
(* The slot starts out gone, with nothing.                                 *)
LEMMA NetworkInitHolds == NetworkInit => NetworkInv
<1>. SUFFICES ASSUME NetworkInit PROVE NetworkInv
  OBVIOUS
<1>1. ScanInv
  BY DEF NetworkInit, ScanInv, CallsMatch, OneScan, NetworkCall
<1>2. StatusInv
  BY DEF NetworkInit, StatusInv, ToldAsHeard, None
<1>. QED
  BY <1>1, <1>2 DEF NetworkInit, NetworkInv

(* Every step keeps the invariant.                                         *)
LEMMA NetworkStepHolds == NetworkInv /\ [NetworkNext]_networkVars => NetworkInv'
<1>. SUFFICES ASSUME NetworkInv, [NetworkNext]_networkVars PROVE NetworkInv'
  OBVIOUS
<1>. USE DEF NetworkInv
<1>1. ASSUME NEW g \in Client, network_list_query(g) PROVE NetworkInv'
  BY <1>1, ScanStarts, StatusUntouched DEF network_list_query
<1>2. ASSUME NEW g \in Client, network_set(g) \/ rat_set(g) PROVE NetworkInv'
  <2>1. /\ g \in Client \ waiting
        /\ UNCHANGED <<slot, power_off_pending, scanning, rs, status, network>>
        /\ \E kind \in {"operators", "register"} : AskNetwork(g, kind)
    BY <1>2
    DEF network_set, ofono_network_set, rat_set, ofono_rat_set, Accepts,
        ofono_radio_settings_set_technology_preference
  <2>2. ScanInv'
    BY <2>1, OtherRequestStarts DEF status
  <2>. QED
    BY <2>1, <2>2, StatusUntouched
<1>3. CASE network_list_query_cancel
  BY <1>3, ScanIsCancelled, StatusUntouched DEF network_list_query_cancel
<1>4. ASSUME NEW p \in Property, NetworkChanges(p) PROVE NetworkInv'
  BY <1>4, ChangeIsSent, ScanUntouched DEF NetworkChanges
<1>5. CASE netreg_create
  BY <1>5, RegistrationAppears DEF netreg_create
<1>6. CASE netreg_free
  BY <1>6, RegistrationGoes DEF netreg_free
<1>7. CASE rs_changed
  BY <1>7, ScanUntouched, StatusUntouched DEF rs_changed, status
<1>8. CASE network_modem_changed
  <2>1. CASE /\ modem_added
             /\ power_off_pending' = FALSE /\ network_status_query_pending' = FALSE
             /\ UNCHANGED <<network_scan_cancellable, rs, status, network, requests>>
    <3>1. ScanInv'
      BY <2>1 DEF ScanInv, CallsMatch, OneScan, modem_added, requests, status
    <3>. QED
      BY <2>1, <3>1, StatusUntouched DEF modem_added
  <2>2. CASE /\ modem_replaced /\ Detach
             /\ UNCHANGED <<power_off_pending, network_status_query_pending, waiting>>
    <3>1. ScanInv'
      BY <2>2, DetachCancels DEF modem_replaced, ScanInv
    <3>. QED
      BY <2>2, <3>1, DetachTellsNothing DEF Detach
  <2>3. CASE /\ modem_removed /\ Detach
             /\ power_off_pending' = FALSE /\ network_status_query_pending' = FALSE
             /\ UNCHANGED waiting
    <3>1. ScanInv'
      BY <2>3, DetachCancels DEF modem_removed
    <3>. QED
      BY <2>3, <3>1, DetachTellsNothing DEF Detach
  <2>. QED
    BY <1>8, <2>1, <2>2, <2>3 DEF network_modem_changed
<1>9. CASE power_set \/ power_set_finish
  BY <1>9, ScanUntouched, StatusUntouched DEF power_set, power_set_finish, status
<1>10. ASSUME NEW k \in calls, network_answer(k) PROVE NetworkInv'
  <2>1. CASE scan_operators_cb(k)
    BY <2>1, ScanEnds, StatusUntouched DEF scan_operators_cb
  <2>2. CASE get_operators_cb(k) \/ register_cb(k)
    <3>1. UNCHANGED <<slot, power_off_pending, scanning, rs, status, network>>
      BY <2>2 DEF get_operators_cb, register_cb
    <3>2. ScanInv'
      BY <2>2, <3>1, OtherRequestEnds, RegistrationStarts
      DEF get_operators_cb, register_cb, status
    <3>. QED
      BY <3>1, <3>2, StatusUntouched
  <2>. QED
    BY <1>10, <2>1, <2>2 DEF network_answer
<1>11. CASE network_prop_changed_cb
  BY <1>11, MessageIsTold, ScanUntouched DEF network_prop_changed_cb
<1>12. CASE network_available
  <2>1. ScanInv'
    BY <1>12
    DEF network_available, modem_powered, ScanInv, CallsMatch, OneScan, networkOwn, requests,
        scanning, status
  <2>. QED
    BY <1>12, <2>1, StatusUntouched DEF network_available, modem_powered, networkOwn
<1>13. CASE UNCHANGED networkVars
  BY <1>13, ScanUntouched, StatusUntouched DEF networkVars, networkOwn, status
<1>. QED
  BY <1>1, <1>2, <1>3, <1>4, <1>5, <1>6, <1>7, <1>8, <1>9, <1>10, <1>11, <1>12, <1>13
  DEF NetworkNext, network_due

(* The invariant holds of every behaviour.                                 *)
LEMMA NetworkInvariant == NetworkSpec => []NetworkInv
BY NetworkInitHolds, NetworkStepHolds, PTL DEF NetworkSpec

(* The state keeps its type: every client that waits has its call.         *)
THEOREM NetworkIsWellTyped == NetworkSpec => []NetworkTypeOK
<1>1. NetworkInv => NetworkTypeOK
  BY DEF NetworkInv, ScanInv, StatusInv, CallsMatch, NetworkTypeOK
<1>. QED
  BY <1>1, NetworkInvariant, PTL

(* telephonyservice_net.c: network_status_query_pending stands for a scan  *)
(* in flight, and a modem never has two scans that were not cancelled.     *)
THEOREM ScansStayClaimed == NetworkSpec => []ScansAreClaimed
<1>1. ASSUME NetworkInv PROVE ScansAreClaimed
  <2>. DEFINE live == {k \in {j \in calls : j.kind = "scan"} : ~k.lost}
  <2>1. \A j, k \in live : j = k
    BY <1>1 DEF NetworkInv, ScanInv, OneScan, CallsMatch
  <2>2. Cardinality(live) =< 1
    <3>1. CASE live = {}
      BY <3>1, FS_EmptySet
    <3>2. CASE live # {}
      <4>1. PICK k \in live : TRUE
        BY <3>2
      <4>2. live = {k}
        BY <2>1, <4>1
      <4>. QED
        BY <4>2, FS_Singleton
    <3>. QED
      BY <3>1, <3>2
  <2>. QED
    BY <1>1, <2>2 DEF NetworkInv, ScanInv, OneScan, ScansAreClaimed
<1>. QED
  BY <1>1, NetworkInvariant, PTL

(* Subscribers of the network status were last told what the daemon has    *)
(* heard, and that is what holds once ofono has nothing left to say.       *)
THEOREM NetworkStaysTold == NetworkSpec => []NetworkIsTold
<1>1. ASSUME NetworkInv PROVE NetworkIsTold
  <2>1. netreg /\ wire = <<>> => heard = network
    <3>. SUFFICES ASSUME netreg, wire = <<>> PROVE heard = network
      OBVIOUS
    <3>1. \A p \in Property : heard[p] = network[p]
      BY <1>1 DEF NetworkInv, StatusInv, WireEndsWithTruth
    <3>2. heard \in [Property -> 0..1] /\ network \in [Property -> 0..1]
      BY <1>1 DEF NetworkInv, StatusInv
    <3>. QED
      BY <3>1, <3>2
  <2>. QED
    BY <1>1, <2>1 DEF NetworkInv, StatusInv, ToldAsHeard, NetworkIsTold, retrieve_network_status
<1>. QED
  BY <1>1, NetworkInvariant, PTL

-----------------------------------------------------------------------------
(* The invariant of VoiceCalls.                                            *)

Entry == [path : Path, state : State \cup {"unheard"}]

(* What ofono may have sent.                                               *)
Signal ==
  [type : {"added", "removed"}, path : Path] \cup [type : {"state"}, path : Path, state : State]
  \cup [type : {"list"}, paths : SUBSET Path] \cup {Nothing}

(* What a signal says of a call: it is one, it is one no more, its state.  *)
Adds(m, p) == \/ m.type = "added" /\ m.path = p
              \/ m.type = "list" /\ p \in m.paths
Removes(m, p) == m.type = "removed" /\ m.path = p
Tells(m, p) == m.type = "state" /\ m.path = p

(* Every client that waits has one call; for the calls an operation asks.  *)
RequestsMatch ==
  /\ calls \subseteq VoiceCall /\ waiting = {k.who : k \in calls}
  /\ \A j, k \in calls : j.who = k.who => j = k
  /\ \A k \in calls : k.kind = "list" => k.op \in Operation

(* A call will be on the list once all that is on its way is handled.      *)
IsGoing(p) == \E n \in DOMAIN channel : Removes(channel[n], p)
WillBeListed(p) ==
  \/ p \in Paths(list) /\ ~IsGoing(p)
  \/ \E n \in DOMAIN channel :
       Adds(channel[n], p) /\ \A k \in n + 1..Len(channel) : ~Removes(channel[k], p)

(* Only ofono's calls will be; and all of them, once they have been listed.*)
Fetched == calls_fetched = "done" \/ \E n \in DOMAIN channel : channel[n].type = "list"
ListFollows ==
  /\ \A p \in Path : WillBeListed(p) => p \in Existing
  /\ Fetched => \A p \in Existing : WillBeListed(p)

(* The last that is told of a call that stays on the list is its state; or *)
(* nothing is, and the call object has it.                                 *)
WillBeHeard(p) ==
  \/ \E n \in DOMAIN channel :
       /\ channel[n] = StateOf(p, voice[p])
       /\ \A k \in n + 1..Len(channel) :
            Tells(channel[k], p) => channel[k] = StateOf(p, voice[p])
  \/ /\ \A n \in DOMAIN channel : ~Tells(channel[n], p)
     /\ \A n \in DOMAIN list : list[n].path = p => list[n].state = voice[p]
StatesFollow ==
  \A p \in Existing : p \in Paths(list) /\ ~IsGoing(p) => WillBeHeard(p)

NoneTwice == \A m, n \in DOMAIN list : list[m].path = list[n].path => m = n

CallListInv ==
  /\ vm \in BOOLEAN /\ calls_fetched \in {"no", "asked", "failed", "done"}
  /\ list \in Seq(Entry) /\ channel \in Seq(Signal) /\ voice \in [Path -> State \cup {"none"}]
  /\ ~vm => calls_fetched \in {"no", "failed"} /\ list = <<>> /\ channel = <<>>
  /\ NoneTwice /\ ListFollows /\ StatesFollow

VoiceInv == slot \in {"gone", "there", "ready"} /\ RequestsMatch /\ CallListInv

-----------------------------------------------------------------------------
(* Lists of calls, and what is on its way.                                 *)

(* The elements of a set in some order: each of them, each once.           *)
LEMMA InSomeOrder ==
  ASSUME NEW Q \in SUBSET Path, NEW paths \in SetToSeqs(Q)
  PROVE  /\ paths \in Seq(Path) /\ ToSet(paths) = Q
         /\ \A m, n \in DOMAIN paths : paths[m] = paths[n] => m = n
<1>. DEFINE size == Cardinality(Q)
            T == 1..size
<1>1. IsFiniteSet(Q) /\ size \in Nat
  <2>1. 1 \in Int /\ MaxPath \in Int
    BY VoiceCallsAssumption
  <2>2. IsFiniteSet(1..MaxPath)
    BY <2>1, FS_Interval
  <2>3. IsFiniteSet(Q)
    BY <2>2, FS_Subset DEF Path
  <2>. QED
    BY <2>3, FS_CardinalityType
<1>2. paths \in [T -> Q] /\ \A m, n \in T : m # n => paths[m] # paths[n]
  BY DEF SetToSeqs
<1>3. IsFiniteSet(T) /\ Cardinality(T) = size
  <2>1. 1 \in Int /\ size \in Int
    BY <1>1
  <2>2. IsFiniteSet(T) /\ Cardinality(T) = IF 1 > size THEN 0 ELSE size - 1 + 1
    BY <2>1, FS_Interval
  <2>. QED
    BY <1>1, <2>2
<1>4. paths \in Injection(T, Q)
  BY <1>2 DEF Injection, IsInjective
<1>5. paths \in Surjection(T, Q)
  <2>. HIDE DEF T
  <2>. QED
    BY <1>1, <1>3, <1>4, FS_Injection
<1>6. \A p \in Q : \E n \in T : paths[n] = p
  BY <1>5 DEF Surjection
<1>7. paths \in Seq(Path)
  <2>1. paths \in [1..size -> Path]
    BY <1>2
  <2>. QED
    BY <1>1, <2>1, SeqDef
<1>8. DOMAIN paths = T
  BY <1>2
<1>. HIDE DEF T
<1>9. ToSet(paths) = Q
  BY <1>2, <1>6, <1>8 DEF ToSet
<1>. QED
  BY <1>2, <1>7, <1>8, <1>9

(* New calls are at the end of the list.                                   *)
LEMMA NewOnList ==
  ASSUME NEW l \in Seq(Entry), NEW paths \in Seq(Path)
  PROVE  LET all == l \o New(paths)
         IN  /\ all \in Seq(Entry) /\ Len(all) = Len(l) + Len(paths)
             /\ Len(l) \in Nat /\ Len(paths) \in Nat
             /\ \A n \in 1..Len(l) : all[n] = l[n]
             /\ \A n \in 1..Len(paths) : all[Len(l) + n].path = paths[n]
<1>. DEFINE new == New(paths)
            all == l \o new
<1>1. Len(l) \in Nat /\ Len(paths) \in Nat /\ DOMAIN paths = 1..Len(paths)
  BY LenProperties
<1>2. /\ new \in Seq(Entry) /\ Len(new) = Len(paths)
      /\ \A n \in 1..Len(paths) : new[n].path = paths[n]
  <2>1. \A n \in 1..Len(paths) : paths[n] \in Path
    BY ElementOfSeq
  <2>2. new = [n \in 1..Len(paths) |-> [path |-> paths[n], state |-> "unheard"]]
    BY <1>1 DEF New
  <2>3. new \in [1..Len(paths) -> Entry]
    BY <2>1, <2>2 DEF Entry
  <2>4. new \in Seq(Entry)
    BY <1>1, <2>3, SeqDef
  <2>5. Len(new) = Len(paths)
    BY <1>1, <2>2
  <2>. QED
    BY <2>2, <2>4, <2>5
<1>. HIDE DEF new
<1>3. /\ all \in Seq(Entry) /\ Len(all) = Len(l) + Len(new)
      /\ \A n \in 1..Len(l) + Len(new) : all[n] = IF n <= Len(l) THEN l[n] ELSE new[n - Len(l)]
  BY <1>2, ConcatProperties
<1>. HIDE DEF all
<1>4. ASSUME NEW n \in 1..Len(l) PROVE all[n] = l[n]
  <2>1. n \in 1..Len(l) + Len(new) /\ n <= Len(l)
    BY <1>1, <1>2
  <2>. QED
    BY <1>3, <2>1
<1>5. ASSUME NEW n \in 1..Len(paths) PROVE all[Len(l) + n].path = paths[n]
  <2>1. /\ Len(l) + n \in 1..Len(l) + Len(new) /\ ~(Len(l) + n <= Len(l))
        /\ Len(l) + n - Len(l) = n
    BY <1>1, <1>2
  <2>2. all[Len(l) + n] = new[n]
    BY <1>3, <2>1
  <2>. QED
    BY <1>2, <2>2
<1>. QED
  BY <1>1, <1>2, <1>3, <1>4, <1>5 DEF all, new

(* A list without one of its elements.                                     *)
LEMMA OneIsRemoved ==
  ASSUME NEW l \in Seq(Entry), NEW i \in 1..Len(l)
  PROVE  LET rest == RemoveAt(l, i)
         IN  /\ rest \in Seq(Entry) /\ Len(rest) = Len(l) - 1 /\ Len(l) \in Nat
             /\ \A n \in 1..Len(l) - 1 : rest[n] = IF n < i THEN l[n] ELSE l[n + 1]
<1>. DEFINE before == SubSeq(l, 1, i - 1)
            after == SubSeq(l, i + 1, Len(l))
            rest == before \o after
<1>1. Len(l) \in Nat /\ i \in Int /\ i >= 1 /\ i <= Len(l)
  BY LenProperties
<1>2. \A n \in 1..Len(l) : l[n] \in Entry
  BY ElementOfSeq
<1>3. /\ before \in Seq(Entry) /\ Len(before) = i - 1
      /\ \A n \in 1..i - 1 : before[n] = l[n]
  <2>1. \A n \in 1..i - 1 : l[n] \in Entry
    BY <1>1, <1>2
  <2>2. 1 \in Int /\ i - 1 \in Int
    BY <1>1
  <2>3. /\ before \in Seq(Entry)
        /\ Len(before) = IF 1 <= i - 1 THEN i - 1 - 1 + 1 ELSE 0
        /\ \A n \in 1..i - 1 - 1 + 1 : before[n] = l[1 + n - 1]
    BY <2>1, <2>2, SubSeqProperties
  <2>. HIDE DEF before
  <2>. QED
    BY <1>1, <2>3
<1>4. /\ after \in Seq(Entry) /\ Len(after) = Len(l) - i
      /\ \A n \in 1..Len(l) - i : after[n] = l[i + n]
  <2>1. \A n \in i + 1..Len(l) : l[n] \in Entry
    BY <1>1, <1>2
  <2>2. i + 1 \in Int /\ Len(l) \in Int
    BY <1>1
  <2>3. /\ after \in Seq(Entry)
        /\ Len(after) = IF i + 1 <= Len(l) THEN Len(l) - (i + 1) + 1 ELSE 0
        /\ \A n \in 1..Len(l) - (i + 1) + 1 : after[n] = l[i + 1 + n - 1]
    BY <2>1, <2>2, SubSeqProperties
  <2>. HIDE DEF after
  <2>4. ASSUME NEW n \in 1..Len(l) - i PROVE after[n] = l[i + n]
    <3>1. n \in 1..Len(l) - (i + 1) + 1 /\ i + 1 + n - 1 = i + n
      BY <1>1
    <3>. QED
      BY <2>3, <3>1
  <2>5. Len(after) = Len(l) - i
    BY <1>1, <2>3
  <2>. QED
    BY <2>3, <2>4, <2>5
<1>. HIDE DEF before, after
<1>5. /\ rest \in Seq(Entry) /\ Len(rest) = Len(before) + Len(after)
      /\ \A n \in 1..Len(before) + Len(after) :
           rest[n] = IF n <= Len(before) THEN before[n] ELSE after[n - Len(before)]
  BY <1>3, <1>4, ConcatProperties
<1>. HIDE DEF rest
<1>6. ASSUME NEW n \in 1..Len(l) - 1
      PROVE  rest[n] = IF n < i THEN l[n] ELSE l[n + 1]
  <2>1. n \in 1..Len(before) + Len(after) /\ Len(before) = i - 1
    BY <1>1, <1>3, <1>4
  <2>2. CASE n < i
    <3>1. n <= Len(before) /\ n \in 1..i - 1
      BY <1>1, <2>1, <2>2
    <3>. QED
      BY <1>3, <1>5, <2>1, <2>2, <3>1
  <2>3. CASE ~(n < i)
    <3>1. ~(n <= Len(before)) /\ n - (i - 1) \in 1..Len(l) - i /\ i + (n - (i - 1)) = n + 1
      BY <1>1, <2>1, <2>3
    <3>2. rest[n] = after[n - (i - 1)]
      BY <1>5, <2>1, <3>1
    <3>. QED
      BY <1>4, <2>3, <3>1, <3>2
  <2>. QED
    BY <2>2, <2>3
<1>7. Len(rest) = Len(l) - 1
  BY <1>1, <1>3, <1>4, <1>5
<1>. QED
  BY <1>1, <1>5, <1>6, <1>7 DEF rest, before, after, RemoveAt

-----------------------------------------------------------------------------
(* What is left of a signal when the calls in S are not heard any more.    *)
Left(m, S) == IF m.type = "state" /\ m.path \in S THEN Nothing ELSE m

(* The first signal is handled: those of the calls in S are for nobody     *)
(* from here on, and the states of the calls in T are answered.            *)
Handled(S, T) ==
  /\ Len(channel) \in Nat \ {0} /\ DOMAIN channel = 1..Len(channel)
  /\ Len(channel') \in Nat /\ DOMAIN channel' = 1..Len(channel')
  /\ Len(channel) - 1 <= Len(channel')
  /\ \A n \in 1..Len(channel) - 1 :
       channel'[n] = Left(channel[n + 1], S)
  /\ \A n \in Len(channel)..Len(channel') :
       channel'[n] = Nothing \/ \E p \in T \cap Existing : channel'[n] = StateOf(p, voice[p])
  /\ \A p \in T \cap Existing :
       \E n \in Len(channel)..Len(channel') : channel'[n] = StateOf(p, voice[p])

(* Signals of calls in S are left with nobody to hear them.                *)
LEMMA WithoutSignals ==
  ASSUME NEW ch \in Seq(Signal), NEW S
  PROVE  /\ Without(S, ch) \in Seq(Signal) /\ Len(Without(S, ch)) = Len(ch) /\ Len(ch) \in Nat
         /\ \A n \in 1..Len(ch) :
              Without(S, ch)[n] = Left(ch[n], S)
<1>1. Len(ch) \in Nat /\ DOMAIN ch = 1..Len(ch)
  BY LenProperties
<1>2. \A n \in 1..Len(ch) : ch[n] \in Signal
  BY ElementOfSeq
<1>3. \A m \in Signal : Left(m, S) \in Signal
  BY DEF Signal, Left
<1>4. Without(S, ch) = [n \in 1..Len(ch) |-> Left(ch[n], S)]
  BY <1>1 DEF Without, Left
<1>. DEFINE rest == Without(S, ch)
<1>. HIDE DEF rest
<1>5. rest \in [1..Len(ch) -> Signal] /\ \A n \in 1..Len(ch) :
              rest[n] = Left(ch[n], S)
  BY <1>2, <1>3, <1>4 DEF rest
<1>6. rest \in Seq(Signal)
  BY <1>1, <1>5, SeqDef
<1>7. Len(rest) = Len(ch)
  BY <1>1, <1>5
<1>. QED
  BY <1>1, <1>5, <1>6, <1>7 DEF rest

(* What is left of the channel without its first signal.                   *)
LEMMA FirstIsGone ==
  ASSUME channel \in Seq(Signal), channel # <<>>
  PROVE  /\ Tail(channel) \in Seq(Signal) /\ Len(channel) \in Nat \ {0}
         /\ DOMAIN channel = 1..Len(channel) /\ Len(Tail(channel)) = Len(channel) - 1
         /\ \A n \in 1..Len(channel) - 1 : Tail(channel)[n] = channel[n + 1]
         /\ Head(channel) = channel[1] /\ channel[1] \in Signal
<1>1. Len(channel) \in Nat \ {0} /\ DOMAIN channel = 1..Len(channel)
  BY EmptySeq, LenProperties
<1>2. /\ Tail(channel) \in Seq(Signal) /\ Len(Tail(channel)) = Len(channel) - 1
      /\ \A n \in 1..Len(Tail(channel)) : Tail(channel)[n] = channel[n + 1]
  BY HeadTailProperties
<1>3. Head(channel) = channel[1]
  OBVIOUS
<1>4. channel[1] \in Signal
  BY <1>1, ElementOfSeq
<1>. QED
  BY <1>1, <1>2, <1>3, <1>4

(* A signal is handled and nothing is asked.                               *)
LEMMA HandledSilently ==
  ASSUME channel \in Seq(Signal), channel # <<>>, NEW S,
         \/ channel' = Without(S, Tail(channel))
         \/ channel' = Tail(channel) /\ S = {}
  PROVE  Handled(S, {}) /\ channel' \in Seq(Signal)
<1>. DEFINE rest == Tail(channel)
<1>1. /\ rest \in Seq(Signal) /\ Len(channel) \in Nat \ {0}
      /\ DOMAIN channel = 1..Len(channel) /\ Len(rest) = Len(channel) - 1
      /\ \A n \in 1..Len(channel) - 1 : rest[n] = channel[n + 1]
  BY FirstIsGone
<1>. HIDE DEF rest
<1>2. /\ channel' \in Seq(Signal) /\ Len(channel') = Len(channel) - 1
      /\ \A n \in 1..Len(channel) - 1 :
           channel'[n] = Left(channel[n + 1], S)
  <2>1. CASE channel' = Without(S, rest)
    <3>1. /\ Without(S, rest) \in Seq(Signal) /\ Len(Without(S, rest)) = Len(rest)
          /\ \A n \in 1..Len(rest) :
               Without(S, rest)[n] = Left(rest[n], S)
      BY <1>1, WithoutSignals
    <3>. QED
      BY <1>1, <2>1, <3>1
  <2>2. CASE channel' = rest /\ S = {}
    BY <1>1, <2>2 DEF Left
  <2>. QED
    BY <2>1, <2>2 DEF rest
<1>3. Len(channel') \in Nat /\ DOMAIN channel' = 1..Len(channel')
  BY <1>2, LenProperties
<1>4. Len(channel)..Len(channel') = {} /\ Len(channel) - 1 <= Len(channel')
  BY <1>1, <1>2
<1>. QED
  BY <1>1, <1>2, <1>3, <1>4 DEF Handled

(* New objects ask for the states of their calls.                          *)
LEMMA HandledAndAsked ==
  ASSUME channel \in Seq(Signal), channel # <<>>, voice \in [Path -> State \cup {"none"}],
         NEW paths \in Seq(Path), channel' = Heard(paths, Tail(channel))
  PROVE  Handled(ToSet(paths), ToSet(paths)) /\ channel' \in Seq(Signal)
<1>. DEFINE S == ToSet(paths)
            rest == Tail(channel)
            old == Without(S, rest)
            said == Answers(paths)
            size == Len(channel) - 1
<1>1. /\ rest \in Seq(Signal) /\ Len(channel) \in Nat \ {0}
      /\ DOMAIN channel = 1..Len(channel) /\ Len(rest) = size
      /\ \A n \in 1..size : rest[n] = channel[n + 1]
  BY FirstIsGone
<1>. HIDE DEF rest
<1>2. /\ old \in Seq(Signal) /\ Len(old) = size
      /\ \A n \in 1..size :
           old[n] = Left(channel[n + 1], S)
  <2>. HIDE DEF S
  <2>1. /\ old \in Seq(Signal) /\ Len(old) = Len(rest)
        /\ \A n \in 1..Len(rest) : old[n] = Left(rest[n], S)
    BY <1>1, WithoutSignals
  <2>. HIDE DEF old
  <2>. QED
    BY <1>1, <2>1
<1>3. /\ Len(paths) \in Nat /\ DOMAIN paths = 1..Len(paths)
      /\ \A n \in 1..Len(paths) : paths[n] \in S /\ paths[n] \in Path
      /\ \A p \in S : \E n \in 1..Len(paths) : paths[n] = p
  <2>1. Len(paths) \in Nat /\ DOMAIN paths = 1..Len(paths)
    BY LenProperties
  <2>. QED
    BY <2>1, ElementOfSeq DEF ToSet
<1>4. \A p \in Existing : p \in Path /\ StateOf(p, voice[p]) \in Signal
  BY DEF Existing, StateOf, Signal
<1>5. said = [n \in 1..Len(paths) |-> IF paths[n] \in Existing
                                      THEN StateOf(paths[n], voice[paths[n]]) ELSE Nothing]
  BY <1>3 DEF Answers
<1>. HIDE DEF said, old
<1>6. /\ said \in Seq(Signal) /\ Len(said) = Len(paths)
      /\ \A n \in 1..Len(paths) :
           said[n] = IF paths[n] \in Existing THEN StateOf(paths[n], voice[paths[n]]) ELSE Nothing
  <2>1. Nothing \in Signal
    BY DEF Signal
  <2>2. said \in [1..Len(paths) -> Signal]
    BY <1>4, <1>5, <2>1
  <2>3. said \in Seq(Signal)
    BY <1>3, <2>2, SeqDef
  <2>4. Len(said) = Len(paths)
    BY <1>3, <2>2
  <2>. QED
    BY <1>5, <2>3, <2>4
<1>7. channel' = old \o said
  BY DEF Heard, old, said, rest
<1>8. /\ channel' \in Seq(Signal) /\ Len(channel') = size + Len(paths)
      /\ \A n \in 1..size + Len(paths) :
           channel'[n] = IF n <= size THEN old[n] ELSE said[n - size]
  <2>. DEFINE all == old \o said
  <2>1. /\ all \in Seq(Signal) /\ Len(all) = Len(old) + Len(said)
        /\ \A n \in 1..Len(old) + Len(said) :
             all[n] = IF n <= Len(old) THEN old[n] ELSE said[n - Len(old)]
    BY <1>2, <1>6, ConcatProperties
  <2>2. channel' = all
    BY <1>7
  <2>. HIDE DEF all
  <2>. QED
    BY <1>2, <1>6, <2>1, <2>2
<1>. HIDE DEF S
<1>9. /\ Len(channel') \in Nat /\ DOMAIN channel' = 1..Len(channel') /\ size <= Len(channel')
      /\ size \in Nat /\ Len(channel) = size + 1
  BY <1>1, <1>3, <1>8, LenProperties
<1>. HIDE DEF size
<1>10. ASSUME NEW n \in 1..size
       PROVE  channel'[n] = Left(channel[n + 1], S)
  <2>1. n \in 1..size + Len(paths) /\ n <= size
    BY <1>3, <1>9
  <2>. QED
    BY <1>2, <1>8, <2>1
<1>11. ASSUME NEW n \in Len(channel)..Len(channel')
       PROVE  channel'[n] = Nothing \/ \E p \in S \cap Existing : channel'[n] = StateOf(p, voice[p])
  <2>1. n \in 1..size + Len(paths) /\ ~(n <= size) /\ n - size \in 1..Len(paths)
    BY <1>3, <1>8, <1>9
  <2>. QED
    BY <1>3, <1>6, <1>8, <2>1
<1>12. ASSUME NEW p \in S \cap Existing
       PROVE  \E n \in Len(channel)..Len(channel') : channel'[n] = StateOf(p, voice[p])
  <2>1. PICK n \in 1..Len(paths) : paths[n] = p
    BY <1>3
  <2>2. /\ size + n \in 1..size + Len(paths) /\ ~(size + n <= size) /\ size + n - size = n
        /\ size + n \in Len(channel)..Len(channel')
    BY <1>3, <1>8, <1>9
  <2>3. channel'[size + n] = said[n]
    <3>1. PICK k : k = size + n
      OBVIOUS
    <3>2. channel'[k] = said[k - size]
      BY <1>8, <2>2, <3>1
    <3>3. k - size = n
      BY <1>3, <1>9, <3>1
    <3>. QED
      BY <3>1, <3>2, <3>3, Zenon
  <2>4. said[n] = StateOf(p, voice[p])
    BY <1>6, <2>1
  <2>. QED
    BY <2>2, <2>3, <2>4, Zenon
<1>. QED
  BY <1>1, <1>8, <1>9, <1>10, <1>11, <1>12 DEF Handled, size, S
(* What is said of a call in the channel, before and after.                *)
Later(p) == \E n \in 2..Len(channel) : Removes(channel[n], p)
ToCome(p) ==
  \E n \in 2..Len(channel) :
    Adds(channel[n], p) /\ \A k \in n + 1..Len(channel) : ~Removes(channel[k], p)

(* What is said of a call is said by the first signal or by the rest.      *)
LEMMA FirstOrLater ==
  ASSUME Len(channel) \in Nat \ {0}, DOMAIN channel = 1..Len(channel), NEW p
  PROVE  /\ IsGoing(p) <=> Removes(channel[1], p) \/ Later(p)
         /\ (\E n \in DOMAIN channel :
               Adds(channel[n], p) /\ \A k \in n + 1..Len(channel) : ~Removes(channel[k], p))
              <=> (Adds(channel[1], p) /\ ~Later(p)) \/ ToCome(p)
<1>1. 1 \in 1..Len(channel) /\ 2..Len(channel) \subseteq 1..Len(channel)
      /\ \A n \in 1..Len(channel) : n = 1 \/ n \in 2..Len(channel)
  OBVIOUS
<1>2. 1 + 1..Len(channel) = 2..Len(channel)
  OBVIOUS
<1>. QED
  BY <1>1, <1>2, Zenon DEF IsGoing, Later, ToCome

(* The rest is what is there when the first has been handled.              *)
LEMMA LaterStays ==
  ASSUME NEW S, NEW T, Handled(S, T), NEW p
  PROVE  /\ IsGoing(p)' <=> Later(p)
         /\ (\E n \in DOMAIN channel' :
               Adds(channel'[n], p) /\ \A k \in n + 1..Len(channel') : ~Removes(channel'[k], p))
              <=> ToCome(p)
         /\ \A n \in DOMAIN channel' : channel'[n].type = "list" =>
              \E k \in DOMAIN channel : channel[k].type = "list"
<1>. DEFINE size == Len(channel) - 1
<1>1. /\ size \in Nat /\ Len(channel) = size + 1 /\ DOMAIN channel = 1..size + 1
      /\ Len(channel') \in Nat /\ DOMAIN channel' = 1..Len(channel') /\ size <= Len(channel')
  BY DEF Handled
<1>2. ASSUME NEW n \in 1..size
      PROVE  /\ Adds(channel'[n], p) <=> Adds(channel[n + 1], p)
             /\ Removes(channel'[n], p) <=> Removes(channel[n + 1], p)
             /\ channel'[n].type = "list" <=> channel[n + 1].type = "list"
  <2>1. channel'[n] = Left(channel[n + 1], S)
    BY DEF Handled
  <2>. QED
    BY <2>1 DEF Left, Nothing, Adds, Removes
<1>3. ASSUME NEW n \in size + 1..Len(channel')
      PROVE  ~Adds(channel'[n], p) /\ ~Removes(channel'[n], p) /\ channel'[n].type # "list"
  <2>1. channel'[n] = Nothing \/ \E q \in T \cap Existing : channel'[n] = StateOf(q, voice[q])
    BY <1>1 DEF Handled
  <2>2. CASE channel'[n] = Nothing
    BY <2>2 DEF Nothing, Adds, Removes
  <2>3. ASSUME NEW q, channel'[n] = StateOf(q, voice[q])
        PROVE  channel'[n].type = "state"
    BY <2>3 DEF StateOf
  <2>. QED
    BY <2>1, <2>2, <2>3 DEF Adds, Removes
<1>. HIDE DEF size
<1>4. /\ 1..size \subseteq 1..Len(channel')
      /\ \A n \in 1..Len(channel') : n \in 1..size \/ n \in size + 1..Len(channel')
      /\ \A n \in 1..size : n + 1 \in 2..size + 1
      /\ \A n \in 2..size + 1 : n - 1 \in 1..size /\ n - 1 + 1 = n
  BY <1>1
<1>5. IsGoing(p)' <=> Later(p)
  <2>1. ASSUME NEW n \in 1..Len(channel'), Removes(channel'[n], p) PROVE Later(p)
    BY <1>1, <1>2, <1>3, <1>4, <2>1 DEF Later
  <2>2. ASSUME NEW n \in 2..size + 1, Removes(channel[n], p)
        PROVE  \E k \in 1..Len(channel') : Removes(channel'[k], p)
    BY <1>2, <1>4, <2>2
  <2>. QED
    BY <1>1, <2>1, <2>2 DEF IsGoing, Later
<1>6. ASSUME NEW n \in 1..Len(channel'), Adds(channel'[n], p),
             \A k \in n + 1..Len(channel') : ~Removes(channel'[k], p)
      PROVE  ToCome(p)
  <2>1. n \in 1..size /\ n + 1 \in 2..size + 1 /\ Adds(channel[n + 1], p)
    BY <1>2, <1>3, <1>4, <1>6
  <2>2. ASSUME NEW k \in n + 1 + 1..size + 1 PROVE ~Removes(channel[k], p)
    <3>1. k - 1 \in n + 1..Len(channel') /\ k - 1 \in 1..size /\ k - 1 + 1 = k
      BY <1>1, <2>1
    <3>. QED
      BY <1>2, <1>6, <3>1
  <2>. QED
    BY <1>1, <2>1, <2>2 DEF ToCome
<1>7. ASSUME NEW n \in 2..size + 1, Adds(channel[n], p),
             \A k \in n + 1..size + 1 : ~Removes(channel[k], p)
      PROVE  \E m \in 1..Len(channel') :
               Adds(channel'[m], p) /\ \A k \in m + 1..Len(channel') : ~Removes(channel'[k], p)
  <2>1. n - 1 \in 1..size /\ n - 1 + 1 = n
    BY <1>4
  <2>2. Adds(channel'[n - 1], p)
    BY <1>2, <1>7, <2>1
  <2>3. ASSUME NEW k \in n - 1 + 1..Len(channel') PROVE ~Removes(channel'[k], p)
    <3>1. CASE k \in 1..size
      <4>1. k + 1 \in n + 1..size + 1
        BY <1>1, <2>1, <3>1
      <4>. QED
        BY <1>2, <1>7, <3>1, <4>1
    <3>2. CASE k \notin 1..size
      BY <1>1, <1>3, <2>1, <3>2
    <3>. QED
      BY <3>1, <3>2
  <2>. QED
    BY <1>4, <2>1, <2>2, <2>3
<1>8. (\E n \in DOMAIN channel' :
         Adds(channel'[n], p) /\ \A k \in n + 1..Len(channel') : ~Removes(channel'[k], p))
        <=> ToCome(p)
  BY <1>1, <1>6, <1>7 DEF ToCome
<1>9. \A n \in DOMAIN channel' : channel'[n].type = "list" =>
        \E k \in DOMAIN channel : channel[k].type = "list"
  <2>. SUFFICES ASSUME NEW n \in 1..Len(channel'), channel'[n].type = "list"
                PROVE  \E k \in 1..size + 1 : channel[k].type = "list"
    BY <1>1
  <2>1. n \in 1..size /\ channel[n + 1].type = "list"
    BY <1>2, <1>3, <1>4
  <2>. QED
    BY <1>1, <2>1
<1>. QED
  BY <1>5, <1>8, <1>9

(* Whether a call will be on the list is not for the daemon to change.     *)
LEMMA ListedAsBefore ==
  ASSUME NEW S, NEW T, Handled(S, T), NEW p, channel[1] \in Signal,
         p \in Paths(list)' <=>
           (p \in Paths(list) \/ Adds(channel[1], p)) /\ ~Removes(channel[1], p)
  PROVE  WillBeListed(p)' <=> WillBeListed(p)
<1>1. ~(Adds(channel[1], p) /\ Removes(channel[1], p))
  BY DEF Adds, Removes
<1>2. /\ IsGoing(p) <=> Removes(channel[1], p) \/ Later(p)
      /\ (\E n \in DOMAIN channel :
            Adds(channel[n], p) /\ \A k \in n + 1..Len(channel) : ~Removes(channel[k], p))
           <=> (Adds(channel[1], p) /\ ~Later(p)) \/ ToCome(p)
  BY FirstOrLater DEF Handled
<1>3. /\ IsGoing(p)' <=> Later(p)
      /\ (\E n \in DOMAIN channel' :
            Adds(channel'[n], p) /\ \A k \in n + 1..Len(channel') : ~Removes(channel'[k], p))
           <=> ToCome(p)
  BY LaterStays, Zenon
<1>4. WillBeListed(p) <=> \/ p \in Paths(list) /\ ~Removes(channel[1], p) /\ ~Later(p)
                          \/ Adds(channel[1], p) /\ ~Later(p)
                          \/ ToCome(p)
  BY <1>2, Zenon DEF WillBeListed
<1>5. WillBeListed(p)' <=> (p \in Paths(list)' /\ ~Later(p)) \/ ToCome(p)
  BY <1>3, Zenon DEF WillBeListed
<1>. QED
  BY <1>1, <1>4, <1>5, Zenon

(* Nor is what will be heard of one that stays, or is made anew.           *)
LEMMA HeardAsBefore ==
  ASSUME NEW S, NEW T, Handled(S, T), NEW p \in Existing, UNCHANGED voice,
         \/ p \in T
         \/ /\ p \notin S /\ p \notin T /\ WillBeHeard(p)
            /\ \A n \in DOMAIN list' : list'[n].path = p =>
                 IF Tells(channel[1], p) THEN list'[n].state = channel[1].state
                 ELSE \E k \in DOMAIN list : list[k].path = p /\ list[k].state = list'[n].state
  PROVE  WillBeHeard(p)'
<1>. DEFINE size == Len(channel) - 1
            truth == StateOf(p, voice[p])
<1>1. /\ size \in Nat /\ Len(channel) = size + 1 /\ DOMAIN channel = 1..size + 1
      /\ Len(channel') \in Nat /\ DOMAIN channel' = 1..Len(channel') /\ size <= Len(channel')
  BY DEF Handled
<1>2. ASSUME NEW n \in size + 1..Len(channel'), Tells(channel'[n], p)
      PROVE  channel'[n] = truth /\ p \in T
  <2>1. channel'[n] = Nothing \/ \E q \in T \cap Existing : channel'[n] = StateOf(q, voice[q])
    BY <1>1 DEF Handled
  <2>2. channel'[n] # Nothing
    BY <1>2 DEF Nothing, Tells
  <2>3. PICK q \in T \cap Existing : channel'[n] = StateOf(q, voice[q])
    BY <2>1, <2>2
  <2>4. q = p
    BY <1>2, <2>3 DEF StateOf, Tells
  <2>. QED
    BY <2>3, <2>4
<1>3. truth' = truth /\ truth.state = voice[p] /\ Tells(truth, p)
  BY DEF StateOf, Tells
<1>. HIDE DEF size, truth
<1>4. CASE p \in T
  <2>1. PICK n \in size + 1..Len(channel') : channel'[n] = truth
    BY <1>1, <1>4 DEF Handled, truth
  <2>2. \A k \in n + 1..Len(channel') : Tells(channel'[k], p) => channel'[k] = truth
    BY <1>1, <1>2
  <2>3. n \in 1..Len(channel')
    BY <1>1
  <2>. QED
    BY <1>1, <1>3, <2>1, <2>2, <2>3 DEF WillBeHeard, truth
<1>5. ASSUME p \notin S, p \notin T, WillBeHeard(p),
             \A n \in DOMAIN list' : list'[n].path = p =>
               IF Tells(channel[1], p) THEN list'[n].state = channel[1].state
               ELSE \E k \in DOMAIN list : list[k].path = p /\ list[k].state = list'[n].state
      PROVE  WillBeHeard(p)'
  <2>1. ASSUME NEW n \in 1..size
        PROVE  /\ Tells(channel'[n], p) <=> Tells(channel[n + 1], p)
               /\ Tells(channel[n + 1], p) => channel'[n] = channel[n + 1]
    <3>1. channel'[n] = Left(channel[n + 1], S)
      BY <1>1 DEF Handled
    <3>. QED
      BY <1>5, <3>1 DEF Left, Nothing, Tells
  <2>2. \A n \in size + 1..Len(channel') : ~Tells(channel'[n], p)
    BY <1>2, <1>5
  <2>3. \A n \in 1..Len(channel') : n \in 1..size \/ n \in size + 1..Len(channel')
    BY <1>1
  <2>4. CASE \A n \in 2..size + 1 : ~Tells(channel[n], p)
    <3>1. \A n \in 1..Len(channel') : ~Tells(channel'[n], p)
      BY <1>1, <2>1, <2>2, <2>3, <2>4
    <3>2. ASSUME NEW n \in DOMAIN list', list'[n].path = p
          PROVE  list'[n].state = voice[p]
      <4>1. CASE \E k \in 1..size + 1 : channel[k] = truth
        <5>1. channel[1] = truth
          BY <1>1, <1>3, <2>4, <4>1
        <5>. QED
          BY <1>3, <1>5, <3>2, <5>1
      <4>2. CASE ~ \E k \in 1..size + 1 : channel[k] = truth
        <5>1. /\ \A k \in 1..size + 1 : ~Tells(channel[k], p)
              /\ \A k \in DOMAIN list : list[k].path = p => list[k].state = voice[p]
          BY <1>1, <1>5, <4>2 DEF WillBeHeard, truth
        <5>2. ~Tells(channel[1], p)
          BY <1>1, <5>1
        <5>. QED
          BY <1>5, <3>2, <5>1, <5>2
      <4>. QED
        BY <4>1, <4>2
    <3>. QED
      BY <1>1, <3>1, <3>2 DEF WillBeHeard
  <2>5. CASE \E n \in 2..size + 1 : Tells(channel[n], p)
    <3>1. PICK k \in 1..size + 1 :
            /\ channel[k] = truth
            /\ \A n \in k + 1..size + 1 : Tells(channel[n], p) => channel[n] = truth
      BY <1>1, <1>5, <2>5 DEF WillBeHeard, truth
    <3>2. PICK m \in 2..size + 1 : m >= k /\ Tells(channel[m], p)
      <4>1. CASE k = 1
        BY <1>1, <2>5, <4>1
      <4>2. CASE k # 1
        BY <1>1, <1>3, <3>1, <4>2
      <4>. QED
        BY <4>1, <4>2
    <3>3. \A n \in m..size + 1 : Tells(channel[n], p) => channel[n] = truth
      BY <1>1, <3>1, <3>2
    <3>4. m - 1 \in 1..size /\ m - 1 + 1 = m
      BY <1>1, <3>2
    <3>5. channel'[m - 1] = truth
      <4>1. channel[m] = truth
        BY <1>1, <3>2, <3>3
      <4>. QED
        BY <2>1, <3>2, <3>4, <4>1
    <3>6. ASSUME NEW n \in m - 1 + 1..Len(channel'), Tells(channel'[n], p)
          PROVE  channel'[n] = truth
      <4>1. n \in 1..size
        BY <1>1, <2>2, <2>3, <3>4, <3>6
      <4>2. n + 1 \in m..size + 1
        BY <1>1, <3>4, <4>1
      <4>. QED
        BY <2>1, <3>3, <3>6, <4>1, <4>2
    <3>7. m - 1 \in 1..Len(channel')
      BY <1>1, <3>4
    <3>. QED
      BY <1>1, <1>3, <3>5, <3>6, <3>7 DEF WillBeHeard, truth
  <2>. QED
    BY <2>4, <2>5
<1>. QED
  BY <1>4, <1>5

(* What entries say of p after the first signal: what it tells, or what    *)
(* they said before.                                                       *)
SaysStill(p) ==
  \A n \in DOMAIN list' : list'[n].path = p =>
    IF Tells(channel[1], p) THEN list'[n].state = channel[1].state
    ELSE \E k \in DOMAIN list : list[k].path = p /\ list[k].state = list'[n].state

(* A signal that is handled does to the list what it says of each call.    *)
LEMMA HandlingKeeps ==
  ASSUME CallListInv, NEW S, NEW T, Handled(S, T), channel' \in Seq(Signal),
         UNCHANGED <<vm, voice>>, list' \in Seq(Entry), NoneTwice',
         calls_fetched' \in {"no", "asked", "failed", "done"}, calls_fetched' = "done" => Fetched,
         \A p \in Path : p \in Paths(list)' <=>
           (p \in Paths(list) \/ Adds(channel[1], p)) /\ ~Removes(channel[1], p),
         \A p \in Path : p \in Paths(list)' =>
           p \in T \/ (p \in Paths(list) /\ p \notin S /\ p \notin T /\ SaysStill(p))
  PROVE  CallListInv'
<1>1. /\ channel \in Seq(Signal) /\ Len(channel) \in Nat \ {0} /\ vm
      /\ DOMAIN channel = 1..Len(channel)
  <2>1. Len(channel) \in Nat \ {0} /\ channel # <<>>
    BY EmptySeq DEF Handled
  <2>. QED
    BY <2>1 DEF CallListInv, Handled
<1>2. channel[1] \in Signal
  BY <1>1, ElementOfSeq
<1>3. \A p \in Path : WillBeListed(p)' <=> WillBeListed(p)
  BY <1>2, ListedAsBefore
<1>4. Existing' = Existing /\ Existing \subseteq Path
  BY DEF Existing
<1>5. Fetched' => Fetched
  <2>1. \A n \in DOMAIN channel' : channel'[n].type = "list" =>
          \E k \in DOMAIN channel : channel[k].type = "list"
    BY LaterStays
  <2>. QED
    BY <2>1 DEF Fetched
<1>6. ListFollows'
  BY <1>3, <1>4, <1>5 DEF CallListInv, ListFollows
<1>7. ASSUME NEW p \in Existing, p \in Paths(list)', ~IsGoing(p)' PROVE WillBeHeard(p)'
  <2>1. p \in T \/ (p \in Paths(list) /\ p \notin S /\ p \notin T /\ SaysStill(p))
    BY <1>4, <1>7
  <2>2. ~IsGoing(p)
    <3>1. IsGoing(p) <=> Removes(channel[1], p) \/ Later(p)
      BY <1>1, FirstOrLater
    <3>2. IsGoing(p)' <=> Later(p)
      BY LaterStays
    <3>3. ~Removes(channel[1], p)
      BY <1>4, <1>7
    <3>. QED
      BY <1>7, <3>1, <3>2, <3>3
  <2>3. CASE p \in T
    BY <2>3, HeardAsBefore
  <2>4. CASE p \in Paths(list) /\ p \notin S /\ p \notin T /\ SaysStill(p)
    <3>1. WillBeHeard(p)
      BY <2>2, <2>4 DEF CallListInv, StatesFollow
    <3>. QED
      BY <2>4, <3>1, HeardAsBefore DEF SaysStill
  <2>. QED
    BY <2>1, <2>3, <2>4
<1>8. StatesFollow'
  BY <1>4, <1>7 DEF StatesFollow
<1>. QED
  BY <1>1, <1>6, <1>8 DEF CallListInv

(* New calls are put on the list, and each of them asks for its state.     *)
LEMMA AddingKeeps ==
  ASSUME CallListInv, channel # <<>>, NEW paths \in Seq(Path),
         \A m, n \in DOMAIN paths : paths[m] = paths[n] => m = n,
         list' = list \o New(paths), channel' = Heard(paths, Tail(channel)),
         UNCHANGED <<vm, voice>>,
         calls_fetched' \in {"no", "asked", "failed", "done"}, calls_fetched' = "done" => Fetched,
         \A p \in Path : p \in ToSet(paths) <=> Adds(channel[1], p) /\ p \notin Paths(list),
         \A p \in Path : ~Removes(channel[1], p) /\ ~Tells(channel[1], p)
  PROVE  CallListInv'
<1>. DEFINE S == ToSet(paths)
<1>1. Handled(S, S) /\ channel' \in Seq(Signal)
  BY HandledAndAsked DEF CallListInv
<1>2. /\ list' \in Seq(Entry) /\ Len(list') = Len(list) + Len(paths)
      /\ Len(list) \in Nat /\ Len(paths) \in Nat
      /\ \A n \in 1..Len(list) : list'[n] = list[n]
      /\ \A n \in 1..Len(paths) : list'[Len(list) + n].path = paths[n]
  <2>. DEFINE all == list \o New(paths)
  <2>1. /\ all \in Seq(Entry) /\ Len(all) = Len(list) + Len(paths)
        /\ Len(list) \in Nat /\ Len(paths) \in Nat
        /\ \A n \in 1..Len(list) : all[n] = list[n]
        /\ \A n \in 1..Len(paths) : all[Len(list) + n].path = paths[n]
    BY NewOnList DEF CallListInv
  <2>2. list' = all
    OBVIOUS
  <2>. HIDE DEF all
  <2>. QED
    BY <2>1, <2>2
<1>3. /\ DOMAIN list = 1..Len(list) /\ DOMAIN list' = 1..Len(list) + Len(paths)
      /\ DOMAIN paths = 1..Len(paths)
  BY <1>2, LenProperties DEF CallListInv
<1>4. \A n \in 1..Len(list) + Len(paths) :
        \/ n \in 1..Len(list) /\ list'[n] = list[n]
        \/ n - Len(list) \in 1..Len(paths) /\ list'[n].path = paths[n - Len(list)]
  <2>. SUFFICES ASSUME NEW n \in 1..Len(list) + Len(paths), n \notin 1..Len(list)
                PROVE  n - Len(list) \in 1..Len(paths) /\ list'[n].path = paths[n - Len(list)]
    BY <1>2
  <2>1. n - Len(list) \in 1..Len(paths) /\ Len(list) + (n - Len(list)) = n
    BY <1>2
  <2>. QED
    BY <1>2, <2>1
<1>5. /\ \A n \in 1..Len(paths) : paths[n] \in S
      /\ \A p \in S : p \in Path /\ \E n \in 1..Len(paths) : paths[n] = p
  <2>1. \A n \in 1..Len(paths) : paths[n] \in Path
    BY ElementOfSeq
  <2>. QED
    BY <1>3, <2>1 DEF ToSet
<1>6. /\ \A n \in 1..Len(list) : list[n].path \in Paths(list)
      /\ \A p \in Paths(list) : \E n \in 1..Len(list) : list[n].path = p
  BY <1>3 DEF Paths
<1>7. ASSUME NEW p \in Path PROVE p \in Paths(list)' <=> p \in Paths(list) \/ p \in S
  <2>1. p \in Paths(list)' <=> \E n \in 1..Len(list) + Len(paths) : list'[n].path = p
    BY <1>3 DEF Paths
  <2>2. ASSUME p \in Paths(list) PROVE p \in Paths(list)'
    <3>1. PICK n \in 1..Len(list) : list[n].path = p
      BY <1>6, <2>2
    <3>. QED
      BY <1>2, <2>1, <3>1
  <2>3. ASSUME p \in S PROVE p \in Paths(list)'
    <3>1. PICK n \in 1..Len(paths) : paths[n] = p
      BY <1>5, <2>3
    <3>2. Len(list) + n \in 1..Len(list) + Len(paths)
      BY <1>2
    <3>. QED
      BY <1>2, <2>1, <3>1, <3>2
  <2>4. ASSUME p \in Paths(list)' PROVE p \in Paths(list) \/ p \in S
    <3>1. PICK n \in 1..Len(list) + Len(paths) : list'[n].path = p
      BY <2>1, <2>4
    <3>2. CASE n \in 1..Len(list) /\ list'[n] = list[n]
      BY <1>6, <3>1, <3>2
    <3>3. CASE n - Len(list) \in 1..Len(paths) /\ list'[n].path = paths[n - Len(list)]
      BY <1>5, <3>1, <3>3
    <3>. QED
      BY <1>4, <3>2, <3>3
  <2>. QED
    BY <2>2, <2>3, <2>4
<1>. HIDE DEF S
<1>8. \A p \in Path : p \in S <=> Adds(channel[1], p) /\ p \notin Paths(list)
  BY DEF S
<1>9. NoneTwice'
  <2>. SUFFICES ASSUME NEW m \in 1..Len(list) + Len(paths), NEW n \in 1..Len(list) + Len(paths),
                       list'[m].path = list'[n].path
                PROVE  m = n
    BY <1>3 DEF NoneTwice
  <2>1. \A p \in S : p \notin Paths(list)
    BY <1>5, <1>8
  <2>2. CASE m \in 1..Len(list) /\ n \in 1..Len(list)
    BY <1>2, <1>3, <2>2 DEF CallListInv, NoneTwice
  <2>3. CASE m \notin 1..Len(list) /\ n \notin 1..Len(list)
    <3>1. /\ m - Len(list) \in 1..Len(paths) /\ n - Len(list) \in 1..Len(paths)
          /\ paths[m - Len(list)] = paths[n - Len(list)]
      BY <1>4, <2>3
    <3>2. m - Len(list) = n - Len(list)
      BY <1>3, <3>1
    <3>. QED
      BY <1>2, <3>2
  <2>4. CASE m \in 1..Len(list) /\ n \notin 1..Len(list)
    BY <1>2, <1>4, <1>5, <1>6, <2>1, <2>4
  <2>5. CASE m \notin 1..Len(list) /\ n \in 1..Len(list)
    BY <1>2, <1>4, <1>5, <1>6, <2>1, <2>5
  <2>. QED
    BY <2>2, <2>3, <2>4, <2>5
<1>10. ASSUME NEW p \in Path, p \in Paths(list)'
       PROVE  p \in S \/ (p \in Paths(list) /\ p \notin S /\ SaysStill(p))
  <2>. SUFFICES ASSUME p \notin S PROVE p \in Paths(list) /\ SaysStill(p)
    OBVIOUS
  <2>1. p \in Paths(list)
    BY <1>7, <1>10
  <2>2. ASSUME NEW n \in 1..Len(list) + Len(paths), list'[n].path = p
        PROVE  n \in 1..Len(list) /\ list'[n] = list[n]
    BY <1>4, <1>5, <2>2
  <2>3. SaysStill(p)
    BY <1>3, <2>2 DEF SaysStill
  <2>. QED
    BY <2>1, <2>3
<1>11. \A p \in Path : p \in Paths(list)' <=>
         (p \in Paths(list) \/ Adds(channel[1], p)) /\ ~Removes(channel[1], p)
  BY <1>7, <1>8
<1>. QED
  BY <1>1, <1>2, <1>9, <1>10, <1>11, HandlingKeeps
(* The list of calls is taken over, but for those that are known.          *)
LEMMA GettingCallsKeeps ==
  ASSUME CallListInv, channel # <<>>, Head(channel).type = "list",
         get_calls_cb(Head(channel).paths), UNCHANGED <<vm, voice>>
  PROVE  CallListInv'
<1>1. /\ channel \in Seq(Signal) /\ channel[1] = Head(channel) /\ channel[1] \in Signal
      /\ DOMAIN channel = 1..Len(channel) /\ Len(channel) \in Nat \ {0}
  BY FirstIsGone DEF CallListInv
<1>2. PICK m : m = channel[1]
  OBVIOUS
<1>3. m.type = "list" /\ m.paths \in SUBSET Path
  BY <1>1, <1>2 DEF Signal, Nothing
<1>4. PICK paths \in SetToSeqs(m.paths \ Paths(list)) :
        /\ list' = list \o New(paths) /\ calls_fetched' = "done"
        /\ channel' = Heard(paths, Tail(channel))
  BY <1>1, <1>2 DEF get_calls_cb
<1>5. /\ paths \in Seq(Path) /\ ToSet(paths) = m.paths \ Paths(list)
      /\ \A i, n \in DOMAIN paths : paths[i] = paths[n] => i = n
  <2>. DEFINE Q == m.paths \ Paths(list)
  <2>1. Q \in SUBSET Path /\ paths \in SetToSeqs(Q)
    BY <1>3
  <2>. HIDE DEF Q
  <2>2. /\ paths \in Seq(Path) /\ ToSet(paths) = Q
        /\ \A i, n \in DOMAIN paths : paths[i] = paths[n] => i = n
    BY <2>1, InSomeOrder
  <2>. QED
    BY <2>2 DEF Q
<1>6. \A p \in Path : /\ Adds(m, p) <=> p \in m.paths
                      /\ ~Removes(m, p) /\ ~Tells(m, p)
  BY <1>3 DEF Adds, Removes, Tells
<1>7. Fetched
  BY <1>1, <1>2, <1>3 DEF Fetched
<1>8. \A p \in Path : p \in ToSet(paths) <=> Adds(channel[1], p) /\ p \notin Paths(list)
  BY <1>2, <1>5, <1>6
<1>9. \A p \in Path : ~Removes(channel[1], p) /\ ~Tells(channel[1], p)
  BY <1>2, <1>6
<1>. QED
  BY <1>4, <1>5, <1>7, <1>8, <1>9, AddingKeeps

(* A call that is announced is put on the list, if it is not known.        *)
LEMMA AddedCallKeeps ==
  ASSUME CallListInv, channel # <<>>, Head(channel).type = "added",
         call_added_cb(Head(channel).path), UNCHANGED <<vm, calls_fetched, voice>>
  PROVE  CallListInv'
<1>1. /\ channel \in Seq(Signal) /\ channel[1] = Head(channel) /\ channel[1] \in Signal
      /\ DOMAIN channel = 1..Len(channel) /\ Len(channel) \in Nat \ {0}
  BY FirstIsGone DEF CallListInv
<1>2. PICK p : p = channel[1].path
  OBVIOUS
<1>3. /\ channel[1].type = "added" /\ p \in Path
      /\ \A q \in Path : /\ Adds(channel[1], q) <=> q = p
                         /\ ~Removes(channel[1], q) /\ ~Tells(channel[1], q)
  BY <1>1, <1>2 DEF Signal, Nothing, Adds, Removes, Tells
<1>4. /\ calls_fetched' \in {"no", "asked", "failed", "done"}
      /\ calls_fetched' = "done" => Fetched
  BY DEF CallListInv, Fetched
<1>5. CASE p \in Paths(list)
  <2>1. list' = list /\ channel' = Tail(channel)
    BY <1>1, <1>2, <1>5 DEF call_added_cb
  <2>2. Handled({}, {}) /\ channel' \in Seq(Signal)
    BY <1>1, <2>1, HandledSilently
  <2>3. Paths(list)' = Paths(list)
    BY <2>1 DEF Paths
  <2>4. list' \in Seq(Entry) /\ NoneTwice'
    BY <2>1 DEF CallListInv, NoneTwice
  <2>5. ASSUME NEW q \in Path PROVE SaysStill(q)
    BY <1>3, <2>1 DEF SaysStill
  <2>6. \A q \in Path : q \in Paths(list)' =>
          q \in {} \/ (q \in Paths(list) /\ q \notin {} /\ q \notin {} /\ SaysStill(q))
    BY <2>3, <2>5
  <2>7. \A q \in Path : q \in Paths(list)' <=>
          (q \in Paths(list) \/ Adds(channel[1], q)) /\ ~Removes(channel[1], q)
    BY <1>3, <1>5, <2>3
  <2>. QED
    BY <1>4, <2>2, <2>4, <2>6, <2>7, HandlingKeeps
<1>6. CASE p \notin Paths(list)
  <2>. DEFINE paths == <<p>>
  <2>1. list' = list \o New(paths) /\ channel' = Heard(paths, Tail(channel))
    BY <1>1, <1>2, <1>6 DEF call_added_cb
  <2>2. paths \in Seq(Path) /\ DOMAIN paths = 1..1 /\ paths[1] = p
    BY <1>3
  <2>. HIDE DEF paths
  <2>3. ToSet(paths) = {p} /\ \A m, n \in DOMAIN paths : paths[m] = paths[n] => m = n
    BY <2>2 DEF ToSet
  <2>4. \A q \in Path : q \in ToSet(paths) <=> Adds(channel[1], q) /\ q \notin Paths(list)
    BY <1>3, <1>6, <2>3
  <2>. QED
    BY <1>3, <1>4, <2>1, <2>2, <2>3, <2>4, AddingKeeps
<1>. QED
  BY <1>5, <1>6

(* A call that is over goes from the list.                                 *)
LEMMA RemovedCallKeeps ==
  ASSUME CallListInv, channel # <<>>, Head(channel).type = "removed",
         call_removed_cb(Head(channel).path), UNCHANGED <<vm, calls_fetched, voice>>
  PROVE  CallListInv'
<1>1. /\ channel \in Seq(Signal) /\ channel[1] = Head(channel) /\ channel[1] \in Signal
      /\ DOMAIN channel = 1..Len(channel) /\ Len(channel) \in Nat \ {0}
  BY FirstIsGone DEF CallListInv
<1>2. PICK p : p = channel[1].path
  OBVIOUS
<1>3. /\ channel[1].type = "removed" /\ p \in Path
      /\ \A q \in Path : /\ Removes(channel[1], q) <=> q = p
                         /\ ~Adds(channel[1], q) /\ ~Tells(channel[1], q)
  BY <1>1, <1>2 DEF Signal, Nothing, Adds, Removes, Tells
<1>4. /\ calls_fetched' \in {"no", "asked", "failed", "done"}
      /\ calls_fetched' = "done" => Fetched
  BY DEF CallListInv, Fetched
<1>5. Handled({p}, {}) /\ channel' \in Seq(Signal)
  <2>1. channel' = Without({p}, Tail(channel))
    BY <1>1, <1>2 DEF call_removed_cb
  <2>. QED
    BY <1>1, <2>1, HandledSilently
<1>6. list \in Seq(Entry) /\ Len(list) \in Nat /\ DOMAIN list = 1..Len(list)
  BY LenProperties DEF CallListInv
<1>7. /\ list' \in Seq(Entry) /\ NoneTwice'
      /\ \A q \in Path : q \in Paths(list)' <=> q \in Paths(list) /\ q # p
      /\ \A n \in DOMAIN list' : \E k \in DOMAIN list : list'[n] = list[k]
  <2>1. CASE p \notin Paths(list)
    <3>1. list' = list
      BY <1>1, <1>2, <2>1 DEF call_removed_cb
    <3>. QED
      BY <1>6, <2>1, <3>1 DEF CallListInv, NoneTwice, Paths
  <2>2. CASE p \in Paths(list)
    <3>. DEFINE fit == {n \in DOMAIN list : list[n].path = p}
    <3>1. PICK i : i = Min(fit)
      OBVIOUS
    <3>2. i \in 1..Len(list) /\ list[i].path = p
      <4>1. fit \in SUBSET Nat /\ fit # {}
        BY <1>6, <2>2 DEF Paths
      <4>2. Min(fit) \in fit
        BY <4>1, LeastIsMember
      <4>. QED
        BY <1>6, <3>1, <4>2
    <3>3. list' = RemoveAt(list, i)
      BY <1>1, <1>2, <2>2, <3>1 DEF call_removed_cb
    <3>. HIDE DEF fit
    <3>4. /\ list' \in Seq(Entry) /\ Len(list') = Len(list) - 1
          /\ \A n \in 1..Len(list) - 1 : list'[n] = IF n < i THEN list[n] ELSE list[n + 1]
      <4>. DEFINE rest == RemoveAt(list, i)
      <4>1. /\ rest \in Seq(Entry) /\ Len(rest) = Len(list) - 1
            /\ \A n \in 1..Len(list) - 1 : rest[n] = IF n < i THEN list[n] ELSE list[n + 1]
        BY <1>6, <3>2, OneIsRemoved
      <4>2. list' = rest
        BY <3>3
      <4>. HIDE DEF rest
      <4>. QED
        BY <4>1, <4>2
    <3>5. DOMAIN list' = 1..Len(list) - 1
      BY <3>4, LenProperties
    <3>6. \A m, n \in 1..Len(list) : list[m].path = list[n].path => m = n
      BY <1>6 DEF CallListInv, NoneTwice
    <3>7. \A n \in 1..Len(list) - 1 :
            \E k \in 1..Len(list) : k # i /\ k = (IF n < i THEN n ELSE n + 1) /\ list'[n] = list[k]
      <4>. SUFFICES ASSUME NEW n \in 1..Len(list) - 1
                    PROVE  \E k \in 1..Len(list) :
                             k # i /\ k = (IF n < i THEN n ELSE n + 1) /\ list'[n] = list[k]
        OBVIOUS
      <4>1. CASE n < i
        BY <1>6, <3>4, <4>1
      <4>2. CASE ~(n < i)
        <5>1. n + 1 \in 1..Len(list) /\ n + 1 # i /\ list'[n] = list[n + 1]
          BY <1>6, <3>2, <3>4, <4>2
        <5>. QED
          BY <4>2, <5>1
      <4>. QED
        BY <4>1, <4>2
    <3>8. NoneTwice'
      <4>. SUFFICES ASSUME NEW m \in 1..Len(list) - 1, NEW n \in 1..Len(list) - 1,
                           list'[m].path = list'[n].path
                    PROVE  m = n
        BY <3>5 DEF NoneTwice
      <4>1. PICK k \in 1..Len(list) : k = (IF m < i THEN m ELSE m + 1) /\ list'[m] = list[k]
        BY <3>7
      <4>2. PICK j \in 1..Len(list) : j = (IF n < i THEN n ELSE n + 1) /\ list'[n] = list[j]
        BY <3>7
      <4>3. k = j
        BY <3>6, <4>1, <4>2
      <4>. QED
        BY <3>2, <1>6, <4>1, <4>2, <4>3
    <3>9. ASSUME NEW q \in Path PROVE q \in Paths(list)' <=> q \in Paths(list) /\ q # p
      <4>1. ASSUME NEW n \in 1..Len(list) - 1, list'[n].path = q PROVE q \in Paths(list) /\ q # p
        <5>1. PICK k \in 1..Len(list) : k # i /\ list'[n] = list[k]
          BY <3>7
        <5>. QED
          BY <1>6, <3>2, <3>6, <4>1, <5>1 DEF Paths
      <4>2. ASSUME NEW k \in 1..Len(list), list[k].path = q, q # p
            PROVE  \E n \in 1..Len(list) - 1 : list'[n].path = q
        <5>1. CASE k < i
          BY <1>6, <3>2, <3>4, <4>2, <5>1
        <5>2. CASE ~(k < i)
          <6>1. k - 1 \in 1..Len(list) - 1 /\ ~(k - 1 < i) /\ k - 1 + 1 = k
            <7>1. k # i
              BY <3>2, <4>2
            <7>. QED
              BY <1>6, <3>2, <5>2, <7>1
          <6>2. list'[k - 1] = list[k]
            BY <3>4, <6>1
          <6>. QED
            BY <4>2, <6>1, <6>2
        <5>. QED
          BY <5>1, <5>2
      <4>. QED
        BY <1>6, <3>5, <4>1, <4>2 DEF Paths
    <3>10. \A n \in DOMAIN list' : \E k \in DOMAIN list : list'[n] = list[k]
      BY <1>6, <3>5, <3>7
    <3>. QED
      BY <3>4, <3>8, <3>9, <3>10
  <2>. QED
    BY <2>1, <2>2
<1>8. ASSUME NEW q \in Path PROVE SaysStill(q)
  BY <1>3, <1>7 DEF SaysStill
<1>9. \A q \in Path : q \in Paths(list)' =>
        q \in {} \/ (q \in Paths(list) /\ q \notin {p} /\ q \notin {} /\ SaysStill(q))
  BY <1>7, <1>8
<1>10. \A q \in Path : q \in Paths(list)' <=>
         (q \in Paths(list) \/ Adds(channel[1], q)) /\ ~Removes(channel[1], q)
  BY <1>3, <1>7
<1>. QED
  BY <1>4, <1>5, <1>7, <1>9, <1>10, HandlingKeeps

(* The state of a call is that of its object, if there is one.             *)
LEMMA StateKeeps ==
  ASSUME CallListInv, channel # <<>>, UNCHANGED <<vm, calls_fetched, voice>>,
         \/ Head(channel).type = "state" /\ call_state_changed(Head(channel))
         \/ Head(channel).type = "nothing" /\ list' = list /\ channel' = Tail(channel)
  PROVE  CallListInv'
<1>1. /\ channel \in Seq(Signal) /\ channel[1] = Head(channel) /\ channel[1] \in Signal
      /\ DOMAIN channel = 1..Len(channel) /\ Len(channel) \in Nat \ {0}
  BY FirstIsGone DEF CallListInv
<1>2. PICK m \in Signal : m = channel[1]
  BY <1>1
<1>3. /\ m.type \in {"state", "nothing"}
      /\ \A q \in Path : ~Adds(m, q) /\ ~Removes(m, q)
  BY <1>1, <1>2 DEF Adds, Removes
<1>4. /\ calls_fetched' \in {"no", "asked", "failed", "done"}
      /\ calls_fetched' = "done" => Fetched
  BY DEF CallListInv, Fetched
<1>5. Handled({}, {}) /\ channel' \in Seq(Signal)
  <2>1. channel' = Tail(channel)
    BY DEF call_state_changed
  <2>. QED
    BY <1>1, <2>1, HandledSilently
<1>6. list \in Seq(Entry) /\ Len(list) \in Nat /\ DOMAIN list = 1..Len(list)
      /\ \A n \in 1..Len(list) : list[n] \in Entry
  BY LenProperties, ElementOfSeq DEF CallListInv
<1>7. /\ list' \in Seq(Entry) /\ DOMAIN list' = DOMAIN list
      /\ \A n \in DOMAIN list :
           /\ list'[n].path = list[n].path
           /\ list'[n].state = IF Tells(m, list[n].path) THEN m.state ELSE list[n].state
  <2>1. CASE m.type = "nothing"
    <3>1. list' = list
      BY <1>1, <1>2, <2>1
    <3>. QED
      BY <1>6, <2>1, <3>1 DEF Tells
  <2>2. CASE m.type = "state"
    <3>1. list' = [n \in 1..Len(list) |->
                     IF list[n].path = m.path THEN [list[n] EXCEPT !.state = m.state] ELSE list[n]]
      BY <1>1, <1>2, <1>6, <2>2 DEF call_state_changed
    <3>2. m.path \in Path /\ m.state \in State
      BY <2>2 DEF Signal, Nothing
    <3>3. \A n \in 1..Len(list) :
            /\ list'[n] \in Entry /\ list'[n].path = list[n].path
            /\ list'[n].state = IF list[n].path = m.path THEN m.state ELSE list[n].state
      BY <1>6, <3>1, <3>2 DEF Entry
    <3>4. list' \in [1..Len(list) -> Entry]
      BY <3>1, <3>3
    <3>5. list' \in Seq(Entry)
      BY <1>6, <3>4, SeqDef
    <3>6. DOMAIN list' = DOMAIN list
      BY <1>6, <3>4
    <3>. QED
      BY <1>6, <2>2, <3>3, <3>5, <3>6 DEF Tells
  <2>. QED
    BY <1>3, <2>1, <2>2
<1>8. NoneTwice' /\ Paths(list)' = Paths(list)
  BY <1>7 DEF CallListInv, NoneTwice, Paths
<1>9. ASSUME NEW q \in Path PROVE SaysStill(q)
  <2>. SUFFICES ASSUME NEW n \in DOMAIN list, list'[n].path = q
                PROVE  IF Tells(m, q) THEN list'[n].state = m.state
                       ELSE \E k \in DOMAIN list : list[k].path = q /\ list[k].state = list'[n].state
    BY <1>2, <1>7 DEF SaysStill
  <2>. QED
    BY <1>7
<1>10. \A q \in Path : q \in Paths(list)' =>
         q \in {} \/ (q \in Paths(list) /\ q \notin {} /\ q \notin {} /\ SaysStill(q))
  BY <1>8, <1>9
<1>11. \A q \in Path : q \in Paths(list)' <=>
         (q \in Paths(list) \/ Adds(channel[1], q)) /\ ~Removes(channel[1], q)
  BY <1>2, <1>3, <1>8
<1>. QED
  BY <1>4, <1>5, <1>7, <1>8, <1>10, <1>11, HandlingKeeps

-----------------------------------------------------------------------------
(* What ofono sends, and a manager that goes.                              *)

(* Without a manager there is nothing to follow.                           *)
LEMMA NoManagerNoList ==
  ASSUME vm' \in BOOLEAN, calls_fetched' \in {"no", "failed"}, list' = <<>>, channel' = <<>>,
         voice' \in [Path -> State \cup {"none"}]
  PROVE  CallListInv'
<1>1. /\ list' \in Seq(Entry) /\ channel' \in Seq(Signal)
      /\ DOMAIN list' = {} /\ DOMAIN channel' = {}
  OBVIOUS
<1>2. Paths(list)' = {} /\ \A p : ~WillBeListed(p)' /\ ~Fetched'
  BY <1>1 DEF Paths, WillBeListed, Fetched
<1>. QED
  BY <1>1, <1>2 DEF CallListInv, NoneTwice, ListFollows, StatesFollow

(* The signal is the last on its way, and all others are as before.        *)
Sent(m) ==
  /\ Len(channel) \in Nat /\ DOMAIN channel = 1..Len(channel)
  /\ Len(channel') = Len(channel) + 1 /\ DOMAIN channel' = 1..Len(channel) + 1
  /\ \A n \in 1..Len(channel) : channel'[n] = channel[n]
  /\ channel'[Len(channel) + 1] = m

(* What is appended to the channel is sent.                                *)
LEMMA SignalIsSent ==
  ASSUME channel \in Seq(Signal), NEW m \in Signal, channel' = Append(channel, m)
  PROVE  Sent(m) /\ channel' \in Seq(Signal)
<1>1. Len(channel) \in Nat /\ DOMAIN channel = 1..Len(channel)
  BY LenProperties
<1>2. channel' \in Seq(Signal) /\ Len(channel') = Len(channel) + 1
  OBVIOUS
<1>3. DOMAIN channel' = 1..Len(channel) + 1
  BY <1>1, <1>2
<1>4. \A n \in 1..Len(channel) : channel'[n] = channel[n]
  BY <1>1
<1>5. channel'[Len(channel) + 1] = m
  BY <1>1
<1>. QED
  BY <1>1, <1>2, <1>3, <1>4, <1>5 DEF Sent

(* It decides whether the call it names will be on the list.               *)
LEMMA ListedAfterSignal ==
  ASSUME NEW m, Sent(m), NEW p, UNCHANGED list
  PROVE  /\ IsGoing(p)' <=> IsGoing(p) \/ Removes(m, p)
         /\ Adds(m, p) => WillBeListed(p)'
         /\ Removes(m, p) /\ ~Adds(m, p) => ~WillBeListed(p)'
         /\ ~Adds(m, p) /\ ~Removes(m, p) => (WillBeListed(p)' <=> WillBeListed(p))
<1>. DEFINE size == Len(channel)
            Coming(ch, n) ==
              Adds(ch[n], p) /\ \A k \in n + 1..Len(ch) : ~Removes(ch[k], p)
<1>1. /\ size \in Nat /\ DOMAIN channel = 1..size
      /\ Len(channel') = size + 1 /\ DOMAIN channel' = 1..size + 1
      /\ \A n \in 1..size : channel'[n] = channel[n]
      /\ channel'[size + 1] = m
  BY DEF Sent
<1>2. /\ \A n \in 1..size + 1 : n \in 1..size \/ n = size + 1
      /\ 1..size \subseteq 1..size + 1 /\ size + 1 \in 1..size + 1
      /\ size + 1 + 1..size + 1 = {}
      /\ \A n \in 1..size : /\ n + 1..size \subseteq 1..size /\ size + 1 \in n + 1..size + 1
                            /\ n + 1..size + 1 = n + 1..size \cup {size + 1}
  BY <1>1
<1>. HIDE DEF size
<1>3. IsGoing(p)' <=> IsGoing(p) \/ Removes(m, p)
  BY <1>1, <1>2 DEF IsGoing
<1>4. Coming(channel', size + 1) <=> Adds(m, p)
  BY <1>1, <1>2
<1>5. \A n \in 1..size : Coming(channel', n) <=> Coming(channel, n) /\ ~Removes(m, p)
  <2>. SUFFICES ASSUME NEW n \in 1..size
                PROVE  Coming(channel', n) <=> Coming(channel, n) /\ ~Removes(m, p)
    OBVIOUS
  <2>1. Len(channel) = size
    BY DEF size
  <2>2. \A k \in n + 1..size : channel'[k] = channel[k]
    BY <1>1, <1>2
  <2>. QED
    BY <1>1, <1>2, <2>1, <2>2
<1>6. WillBeListed(p) <=> \/ p \in Paths(list) /\ ~IsGoing(p)
                          \/ \E n \in 1..size : Coming(channel, n)
  BY <1>1 DEF WillBeListed
<1>7. WillBeListed(p)' <=> \/ p \in Paths(list)' /\ ~IsGoing(p)'
                           \/ \E n \in 1..size + 1 : Coming(channel', n)
  BY <1>1 DEF WillBeListed
<1>8. Paths(list)' = Paths(list)
  BY DEF Paths
<1>. HIDE DEF Coming
<1>9. (\E n \in 1..size + 1 : Coming(channel', n)) <=>
        Adds(m, p) \/ (~Removes(m, p) /\ \E n \in 1..size : Coming(channel, n))
  BY <1>2, <1>4, <1>5
<1>. QED
  BY <1>3, <1>6, <1>7, <1>8, <1>9, Zenon

(* And what will be heard of it.                                           *)
LEMMA HeardAfterSignal ==
  ASSUME NEW m, Sent(m), NEW p, UNCHANGED list,
         \/ m = StateOf(p, voice'[p])
         \/ ~Tells(m, p) /\ voice'[p] = voice[p] /\ WillBeHeard(p)
  PROVE  WillBeHeard(p)'
<1>. DEFINE size == Len(channel)
            truth == StateOf(p, voice'[p])
<1>1. /\ size \in Nat /\ DOMAIN channel = 1..size
      /\ Len(channel') = size + 1 /\ DOMAIN channel' = 1..size + 1
      /\ \A n \in 1..size : channel'[n] = channel[n]
      /\ channel'[size + 1] = m
  BY DEF Sent
<1>2. /\ \A n \in 1..size + 1 : n \in 1..size \/ n = size + 1
      /\ 1..size \subseteq 1..size + 1 /\ size + 1 \in 1..size + 1
      /\ size + 1 + 1..size + 1 = {}
      /\ \A n \in 1..size : n + 1..size + 1 = n + 1..size \cup {size + 1}
      /\ \A n \in 1..size : n + 1..size \subseteq 1..size
  BY <1>1
<1>. HIDE DEF truth
<1>3. CASE m = truth
  <2>1. \A k \in size + 1 + 1..size + 1 : Tells(channel'[k], p) => channel'[k] = truth
    BY <1>2
  <2>. HIDE DEF size
  <2>. QED
    BY <1>1, <1>2, <1>3, <2>1 DEF WillBeHeard, truth
<1>4. CASE ~Tells(m, p) /\ voice'[p] = voice[p] /\ WillBeHeard(p)
  <2>1. CASE \E n \in 1..size :
               /\ channel[n] = truth
               /\ \A k \in n + 1..size : Tells(channel[k], p) => channel[k] = truth
    <3>1. PICK n \in 1..size :
            /\ channel[n] = truth
            /\ \A k \in n + 1..size : Tells(channel[k], p) => channel[k] = truth
      BY <2>1
    <3>. HIDE DEF size
    <3>2. \A k \in n + 1..size + 1 : Tells(channel'[k], p) => channel'[k] = truth
      BY <1>1, <1>2, <1>4, <3>1
    <3>3. n \in 1..size + 1 /\ channel'[n] = truth
      BY <1>1, <1>2, <3>1
    <3>. QED
      BY <1>1, <3>2, <3>3 DEF WillBeHeard, truth
  <2>2. CASE /\ \A n \in 1..size : ~Tells(channel[n], p)
             /\ \A n \in DOMAIN list : list[n].path = p => list[n].state = voice[p]
    <3>. HIDE DEF size
    <3>1. \A n \in 1..size + 1 : ~Tells(channel'[n], p)
      BY <1>1, <1>2, <1>4, <2>2
    <3>. QED
      BY <1>1, <1>4, <2>2, <3>1 DEF WillBeHeard
  <2>. QED
    BY <1>1, <1>4, <2>1, <2>2 DEF WillBeHeard, truth
<1>. QED
  BY <1>3, <1>4 DEF truth

(* Only the answer to GetCalls is a list.                                  *)
LEMMA FetchedAfterSignal ==
  ASSUME NEW m, Sent(m), UNCHANGED calls_fetched, m.type # "list"
  PROVE  Fetched' => Fetched
<1>1. \A n \in DOMAIN channel' :
        channel'[n].type = "list" => n \in DOMAIN channel /\ channel[n].type = "list"
  BY DEF Sent
<1>. QED
  BY <1>1 DEF Fetched

(* ofono lists its calls.                                                  *)
LEMMA ListingKeeps ==
  ASSUME CallListInv, OfonoLists
  PROVE  CallListInv'
<1>. DEFINE m == Listed(Existing)
<1>1. /\ channel' = Append(channel, m) /\ UNCHANGED <<vm, calls_fetched, list, voice>>
      /\ calls_fetched = "asked"
  BY DEF OfonoLists
<1>2. Existing \subseteq Path /\ Existing' = Existing /\ m \in Signal
  BY <1>1 DEF Existing, Listed, Signal
<1>3. \A p : /\ Adds(m, p) <=> p \in Existing
             /\ ~Removes(m, p) /\ ~Tells(m, p)
  BY DEF Adds, Removes, Tells, Listed
<1>. HIDE DEF m
<1>4. Sent(m) /\ channel' \in Seq(Signal)
  BY <1>1, <1>2, SignalIsSent DEF CallListInv
<1>5. \A p : /\ IsGoing(p)' <=> IsGoing(p)
             /\ WillBeListed(p)' <=> p \in Existing \/ WillBeListed(p)
  BY <1>1, <1>3, <1>4, ListedAfterSignal
<1>6. ListFollows'
  BY <1>2, <1>5 DEF CallListInv, ListFollows
<1>7. ASSUME NEW p \in Existing, p \in Paths(list)', ~IsGoing(p)' PROVE WillBeHeard(p)'
  <2>1. WillBeHeard(p)
    BY <1>1, <1>5, <1>7 DEF CallListInv, StatesFollow, Paths
  <2>. QED
    BY <1>1, <1>3, <1>4, <2>1, HeardAfterSignal
<1>8. StatesFollow'
  BY <1>2, <1>7 DEF StatesFollow
<1>9. vm
  BY <1>1 DEF CallListInv
<1>. QED
  BY <1>1, <1>4, <1>6, <1>8, <1>9 DEF CallListInv, NoneTwice

(* A call comes, changes its state or goes, and is told of.                *)
LEMMA ChangingKeeps ==
  ASSUME CallListInv, NEW p \in Path, OfonoChanges(p)
  PROVE  CallListInv'
<1>. USE DEF OfonoChanges
<1>1. voice \in [Path -> State \cup {"none"}] /\ UNCHANGED <<vm, calls_fetched, list>>
  BY DEF CallListInv
<1>2. PICK s \in State \cup {"none"}, m \in Signal :
        /\ voice' = [voice EXCEPT ![p] = s] /\ Sends(m)
        /\ \/ voice[p] = "none" /\ s # "none" /\ m = Added(p)
           \/ voice[p] # "none" /\ s # "none" /\ m = StateOf(p, s)
           \/ voice[p] # "none" /\ s = "none" /\ m = Removed(p)
  <2>1. ASSUME NEW s \in {"ringing", "other"}, voice[p] = "none",
               voice' = [voice EXCEPT ![p] = s], Sends(Added(p))
        PROVE  Added(p) \in Signal /\ s \in State
    BY <2>1 DEF Added, Signal, State
  <2>2. ASSUME NEW s \in {"active", "other", "disconnected"}
        PROVE  StateOf(p, s) \in Signal /\ s \in State
    BY DEF StateOf, Signal, State
  <2>3. Removed(p) \in Signal
    BY DEF Removed, Signal
  <2>4. CASE /\ voice[p] = "none"
             /\ voice' \in {[voice EXCEPT ![p] = s] : s \in {"ringing", "other"}}
             /\ Sends(Added(p))
    BY <2>1, <2>4
  <2>5. CASE /\ voice[p] \in {"ringing", "other", "active"}
             /\ \E s \in {"active", "other", "disconnected"} \ {voice[p]} :
                  voice' = [voice EXCEPT ![p] = s] /\ Sends(StateOf(p, s))
    <3>1. PICK s \in {"active", "other", "disconnected"} :
            voice' = [voice EXCEPT ![p] = s] /\ Sends(StateOf(p, s))
      BY <2>5
    <3>2. voice[p] # "none" /\ s # "none"
      BY <2>5
    <3>. QED
      BY <2>2, <3>1, <3>2
  <2>6. CASE /\ voice[p] = "disconnected" /\ voice' = [voice EXCEPT ![p] = "none"]
             /\ Sends(Removed(p))
    BY <2>3, <2>6
  <2>. QED
    BY <2>4, <2>5, <2>6
<1>3. /\ voice' \in [Path -> State \cup {"none"}] /\ voice'[p] = s
      /\ \A q \in Path \ {p} : voice'[q] = voice[q]
  BY <1>1, <1>2
<1>4. /\ p \in Existing <=> voice[p] # "none"
      /\ p \in Existing' <=> s # "none"
      /\ \A q \in Path \ {p} : q \in Existing' <=> q \in Existing
      /\ Existing \subseteq Path /\ Existing' \subseteq Path
  BY <1>3 DEF Existing
<1>5. CASE ~vm
  <2>1. channel' = <<>> /\ list' = <<>> /\ calls_fetched' \in {"no", "failed"} /\ vm' \in BOOLEAN
    BY <1>1, <1>2, <1>5 DEF CallListInv, Sends
  <2>. QED
    BY <1>3, <2>1, NoManagerNoList
<1>6. CASE vm
  <2>1. Sent(m) /\ channel' \in Seq(Signal)
    BY <1>2, <1>6, SignalIsSent DEF CallListInv, Sends
  <2>2. /\ \A q \in Path \ {p} : ~Adds(m, q) /\ ~Removes(m, q) /\ ~Tells(m, q)
        /\ Adds(m, p) <=> m.type = "added"
        /\ Removes(m, p) <=> m.type = "removed"
        /\ m.type = "added" <=> voice[p] = "none"
        /\ m.type = "removed" <=> s = "none"
        /\ m.type = "state" => m = StateOf(p, s)
        /\ m.type \in {"added", "removed", "state"}
    <3>1. CASE voice[p] = "none" /\ s # "none" /\ m = Added(p)
      BY <3>1 DEF Added, Adds, Removes, Tells
    <3>2. CASE voice[p] # "none" /\ s # "none" /\ m = StateOf(p, s)
      BY <3>2 DEF StateOf, Adds, Removes, Tells
    <3>3. CASE voice[p] # "none" /\ s = "none" /\ m = Removed(p)
      BY <3>3 DEF Removed, Adds, Removes, Tells
    <3>. QED
      BY <1>2, <3>1, <3>2, <3>3
  <2>3. \A q \in Path : /\ IsGoing(q)' <=> IsGoing(q) \/ Removes(m, q)
                        /\ Adds(m, q) => WillBeListed(q)'
                        /\ Removes(m, q) /\ ~Adds(m, q) => ~WillBeListed(q)'
                        /\ ~Adds(m, q) /\ ~Removes(m, q) => (WillBeListed(q)' <=> WillBeListed(q))
    BY <1>1, <2>1, ListedAfterSignal
  <2>4. Fetched' => Fetched
    BY <1>1, <2>1, <2>2, FetchedAfterSignal
  <2>5. ASSUME NEW q \in Path
        PROVE  /\ WillBeListed(q)' => q \in Existing'
               /\ Fetched' /\ q \in Existing' => WillBeListed(q)'
    <3>1. /\ WillBeListed(q) => q \in Existing
          /\ Fetched' /\ q \in Existing => WillBeListed(q)
      BY <2>4 DEF CallListInv, ListFollows
    <3>2. CASE q # p
      BY <1>4, <2>2, <2>3, <3>1, <3>2
    <3>3. CASE q = p
      BY <1>4, <2>2, <2>3, <3>1, <3>3
    <3>. QED
      BY <3>2, <3>3
  <2>6. ListFollows'
    BY <1>4, <2>5 DEF ListFollows
  <2>7. ASSUME NEW q \in Existing', q \in Paths(list)', ~IsGoing(q)' PROVE WillBeHeard(q)'
    <3>1. q \in Path /\ ~IsGoing(q) /\ ~Removes(m, q) /\ q \in Paths(list)
      BY <1>1, <1>4, <2>3, <2>7 DEF Paths
    <3>2. q \in Existing
      BY <3>1 DEF CallListInv, ListFollows, WillBeListed
    <3>3. WillBeHeard(q)
      BY <3>1, <3>2 DEF CallListInv, StatesFollow
    <3>4. CASE q # p
      BY <1>1, <1>3, <2>1, <2>2, <3>1, <3>3, <3>4, HeardAfterSignal
    <3>5. CASE q = p
      <4>1. m = StateOf(q, voice'[q])
        BY <1>3, <1>4, <2>2, <2>7, <3>1, <3>2, <3>5
      <4>. QED
        BY <1>1, <2>1, <4>1, HeardAfterSignal
    <3>. QED
      BY <3>4, <3>5
  <2>8. StatesFollow'
    BY <2>7 DEF StatesFollow
  <2>. QED
    BY <1>1, <1>3, <1>6, <2>1, <2>6, <2>8 DEF CallListInv, NoneTwice
<1>. QED
  BY <1>1, <1>5, <1>6 DEF CallListInv

-----------------------------------------------------------------------------
(* The requests.                                                           *)

(* An operation makes a call of its own.                                   *)
LEMMA VoiceAsking ==
  ASSUME RequestsMatch, NEW call \in VoiceCall, call.who \notin waiting, Ask(call),
         call.kind = "list" => call.op \in Operation
  PROVE  RequestsMatch'
<1>1. calls' = calls \cup {call} /\ waiting' = waiting \cup {call.who}
  BY DEF Ask
<1>2. \A k \in calls : k.who # call.who
  BY DEF RequestsMatch
<1>. QED
  BY <1>1, <1>2 DEF RequestsMatch

(* An answer takes the call and the client that waits for it.              *)
LEMMA VoiceAnswering ==
  ASSUME RequestsMatch, NEW k \in calls, Answered(k)
  PROVE  RequestsMatch'
BY DEF RequestsMatch, Answered

(* One call follows another for the same client.                           *)
LEMMA VoiceGoingOn ==
  ASSUME RequestsMatch, NEW k \in calls, NEW j \in VoiceCall, j.who = k.who, j.kind # "list",
         calls' = (calls \ {k}) \cup {j}, UNCHANGED waiting
  PROVE  RequestsMatch'
BY DEF RequestsMatch

(* A call that is lost is still the client's.                              *)
LEMMA VoiceLosing ==
  ASSUME RequestsMatch, FreeManager
  PROVE  RequestsMatch'
<1>. DEFINE mark(k) == IF k.kind = "list" THEN [k EXCEPT !.lost = TRUE] ELSE k
<1>1. calls' = {mark(k) : k \in calls} /\ UNCHANGED waiting
  BY DEF FreeManager
<1>2. \A k \in calls : /\ mark(k) \in VoiceCall /\ mark(k).who = k.who
                       /\ mark(k).kind = k.kind /\ mark(k).op = k.op
  BY DEF RequestsMatch, VoiceCall
<1>. HIDE DEF mark
<1>. QED
  BY <1>1, <1>2 DEF RequestsMatch

(* The first call on a list in one of the states, if there is one.         *)
LEMMA FirstFits ==
  ASSUME NEW l \in Seq(Entry), NEW S
  PROVE  \/ FirstIn(l, S) = NoPath /\ \A n \in DOMAIN l : Reads(l[n]) \notin S
         \/ \E n \in DOMAIN l : Reads(l[n]) \in S /\ FirstIn(l, S) = l[n].path
<1>. DEFINE fit == {n \in DOMAIN l : Reads(l[n]) \in S}
<1>1. fit \subseteq Nat
  BY LenProperties
<1>2. CASE fit = {}
  BY <1>2 DEF FirstIn
<1>3. CASE fit # {}
  <2>1. Min(fit) \in fit
    BY <1>1, <1>3, LeastIsMember
  <2>2. FirstIn(l, S) = l[Min(fit)].path
    BY <1>3 DEF FirstIn
  <2>. QED
    BY <2>1, <2>2
<1>. QED
  BY <1>2, <1>3

(* An operation is for a call on the list, or for none.                    *)
LEMMA TargetIsCall ==
  ASSUME NEW l \in Seq(Entry), NEW op
  PROVE  Target(op, l) \in Path \cup {NoPath}
<1>1. ASSUME NEW S PROVE FirstIn(l, S) \in Path \cup {NoPath}
  <2>1. DOMAIN l = 1..Len(l) /\ \A n \in 1..Len(l) : l[n] \in Entry
    BY ElementOfSeq, LenProperties
  <2>2. \A n \in DOMAIN l : l[n].path \in Path
    BY <2>1 DEF Entry
  <2>. QED
    BY <2>2, FirstFits
<1>. QED
  BY <1>1 DEF Target, find_live_call, find_ringing_call

(* An operation asks for the calls, or takes one of the list.              *)
LEMMA OperationKeepsRequests ==
  ASSUME RequestsMatch, list \in Seq(Entry), NEW g \in Client \ waiting, NEW op \in Operation,
         ofono_voicecall_manager_get_calls(g, op)
  PROVE  RequestsMatch'
<1>. DEFINE first == Asked(g, "list", op, NoPath)
<1>1. first \in VoiceCall /\ first.who = g /\ first.op = op
  BY DEF Asked, VoiceCall, Operation
<1>2. CASE calls_fetched = "no"
  <2>1. Ask(first)
    BY <1>2 DEF ofono_voicecall_manager_get_calls
  <2>. QED
    BY <1>1, <2>1, VoiceAsking
<1>3. CASE calls_fetched # "no"
  <2>1. PICK p \in Path \cup {NoPath} : p = Target(op, list)
    BY TargetIsCall
  <2>2. Ask(OnCall(first, op, p))
    BY <1>3, <2>1 DEF ofono_voicecall_manager_get_calls
  <2>3. /\ OnCall(first, op, p) \in VoiceCall
        /\ OnCall(first, op, p).who = g /\ OnCall(first, op, p).kind # "list"
    BY <2>1 DEF OnCall, Asked, VoiceCall, Operation
  <2>. QED
    BY <2>2, <2>3, VoiceAsking
<1>. QED
  BY <1>2, <1>3

(* With the calls at hand the operation goes on to one of them or ends.    *)
LEMMA ListedCallsKeepRequests ==
  ASSUME RequestsMatch, list' \in Seq(Entry), NEW ps, get_calls_cb(ps)
  PROVE  RequestsMatch'
<1>1. PICK k \in calls : k.kind = "list" /\ call_op_get_calls_cb(k, list')
  BY DEF get_calls_cb
<1>2. PICK l \in Seq(Entry) : l = list'
  OBVIOUS
<1>3. CASE Target(k.op, l) = NoPath
  <2>1. Answered(k)
    BY <1>1, <1>2, <1>3 DEF call_op_get_calls_cb
  <2>. QED
    BY <2>1, VoiceAnswering
<1>4. CASE Target(k.op, l) # NoPath
  <2>1. PICK p \in Path \cup {NoPath} : p = Target(k.op, l)
    BY TargetIsCall
  <2>2. calls' = (calls \ {k}) \cup {OnCall(k, k.op, p)} /\ UNCHANGED waiting
    BY <1>1, <1>2, <1>4, <2>1 DEF call_op_get_calls_cb
  <2>3. k \in VoiceCall /\ k.op \in Operation
    BY <1>1 DEF RequestsMatch
  <2>4. /\ OnCall(k, k.op, p) \in VoiceCall
        /\ OnCall(k, k.op, p).who = k.who /\ OnCall(k, k.op, p).kind # "list"
    BY <2>1, <2>3 DEF OnCall, VoiceCall, Operation
  <2>. QED
    BY <2>2, <2>4, VoiceGoingOn
<1>. QED
  BY <1>3, <1>4

-----------------------------------------------------------------------------
(* The steps.                                                              *)

(* Nothing is lost of the list when a manager comes, or when the calls are *)
(* asked for or that fails.                                                *)
LEMMA ListStays ==
  ASSUME CallListInv, UNCHANGED <<list, channel, voice>>, vm' \in BOOLEAN, vm => vm',
         calls_fetched' \in {"no", "asked", "failed", "done"},
         calls_fetched' = "done" => calls_fetched = "done",
         ~vm' => calls_fetched' \in {"no", "failed"}
  PROVE  CallListInv'
<1>1. Fetched' => Fetched
  BY DEF Fetched
<1>2. Existing' = Existing /\ Paths(list)' = Paths(list)
  BY DEF Existing, Paths
<1>3. \A p : /\ IsGoing(p)' <=> IsGoing(p)
             /\ WillBeListed(p)' <=> WillBeListed(p)
             /\ WillBeHeard(p)' <=> WillBeHeard(p)
  BY <1>2 DEF IsGoing, WillBeListed, WillBeHeard
<1>4. ListFollows'
  BY <1>1, <1>2, <1>3 DEF CallListInv, ListFollows
<1>5. StatesFollow'
  BY <1>2, <1>3 DEF CallListInv, StatesFollow
<1>. QED
  BY <1>4, <1>5 DEF CallListInv, NoneTwice

(* At first there are no requests and no calls.                            *)
LEMMA VoiceInitHolds == VoiceInit => VoiceInv
<1>. SUFFICES ASSUME VoiceInit PROVE VoiceInv
  OBVIOUS
<1>1. RequestsMatch
  BY DEF VoiceInit, RequestsMatch
<1>2. Existing = {} /\ Paths(list) = {}
  BY DEF VoiceInit, Existing, Paths
<1>3. NoneTwice /\ ListFollows /\ StatesFollow
  BY <1>2 DEF VoiceInit, NoneTwice, ListFollows, StatesFollow, Fetched, WillBeListed
<1>4. /\ vm \in BOOLEAN /\ calls_fetched \in {"no"} /\ list = <<>> /\ channel = <<>>
      /\ voice \in [Path -> State \cup {"none"}] /\ slot \in {"gone"}
  BY DEF VoiceInit
<1>5. CallListInv
  BY <1>3, <1>4 DEF CallListInv
<1>. QED
  BY <1>1, <1>4, <1>5 DEF VoiceInv

(* The manager handles the next signal.                                    *)
LEMMA ManagerHandlesKeeps ==
  ASSUME VoiceInv, manager_handles
  PROVE  VoiceInv'
<1>1. CallListInv /\ RequestsMatch /\ channel # <<>> /\ UNCHANGED <<slot, vm, voice>>
  BY DEF VoiceInv, manager_handles
<1>2. CASE Head(channel).type = "list" /\ get_calls_cb(Head(channel).paths)
  <2>1. CallListInv'
    BY <1>1, <1>2, GettingCallsKeeps
  <2>2. RequestsMatch'
    BY <1>1, <1>2, <2>1, ListedCallsKeepRequests DEF CallListInv
  <2>. QED
    BY <1>1, <2>1, <2>2 DEF VoiceInv
<1>3. CASE /\ \/ Head(channel).type = "added" /\ call_added_cb(Head(channel).path)
              \/ Head(channel).type = "removed" /\ call_removed_cb(Head(channel).path)
              \/ Head(channel).type = "state" /\ call_state_changed(Head(channel))
              \/ Head(channel).type = "nothing" /\ list' = list /\ channel' = Tail(channel)
           /\ UNCHANGED <<calls_fetched, requests>>
  <2>1. CallListInv'
    BY <1>1, <1>3, AddedCallKeeps, RemovedCallKeeps, StateKeeps
  <2>2. RequestsMatch'
    BY <1>1, <1>3 DEF RequestsMatch, requests
  <2>. QED
    BY <1>1, <2>1, <2>2 DEF VoiceInv
<1>. QED
  BY <1>2, <1>3 DEF manager_handles

(* Every step keeps the invariant.                                         *)
LEMMA VoiceStepHolds == VoiceInv /\ [VoiceNext]_voiceVars => VoiceInv'
<1>. SUFFICES ASSUME VoiceInv, [VoiceNext]_voiceVars PROVE VoiceInv'
  OBVIOUS
<1>1. slot \in {"gone", "there", "ready"} /\ RequestsMatch /\ CallListInv
  BY DEF VoiceInv
<1>2. /\ vm \in BOOLEAN /\ calls_fetched \in {"no", "asked", "failed", "done"}
      /\ list \in Seq(Entry) /\ voice \in [Path -> State \cup {"none"}]
      /\ ~vm => calls_fetched \in {"no", "failed"}
  BY <1>1 DEF CallListInv
<1>3. UNCHANGED voiceOwn => CallListInv'
  <2>. SUFFICES ASSUME UNCHANGED voiceOwn PROVE CallListInv'
    OBVIOUS
  <2>1. UNCHANGED <<vm, calls_fetched, list, channel, voice>>
    BY DEF voiceOwn, manager
  <2>. QED
    BY <1>1, <1>2, <2>1, ListStays
<1>4. UNCHANGED requests => RequestsMatch'
  BY <1>1 DEF RequestsMatch, requests
<1>5. CASE UNCHANGED voiceVars
  BY <1>1, <1>3, <1>4, <1>5 DEF voiceVars, VoiceInv
<1>6. ASSUME NEW g \in Client, dial(g) PROVE VoiceInv'
  <2>1. g \notin waiting /\ Ask(Asked(g, "dial", "", NoPath)) /\ UNCHANGED <<slot, voiceOwn>>
    BY <1>6 DEF dial, Accepts, ofono_dial, ofono_voicecall_manager_dial
  <2>2. /\ Asked(g, "dial", "", NoPath) \in VoiceCall
        /\ Asked(g, "dial", "", NoPath).who = g /\ Asked(g, "dial", "", NoPath).kind # "list"
    BY DEF Asked, VoiceCall
  <2>3. RequestsMatch'
    BY <1>1, <2>1, <2>2, VoiceAsking
  <2>. QED
    BY <1>1, <1>3, <2>1, <2>3 DEF VoiceInv
<1>7. ASSUME NEW g \in Client, answer_ignore_hangup(g) PROVE VoiceInv'
  <2>1. PICK op \in Operation : vm /\ ofono_voicecall_manager_get_calls(g, op)
    BY <1>7 DEF answer_ignore_hangup, start_call_op
  <2>2. g \notin waiting /\ UNCHANGED <<slot, vm, list, channel, voice>>
    BY <1>7 DEF answer_ignore_hangup, Accepts
  <2>3. RequestsMatch'
    BY <1>1, <1>2, <2>1, <2>2, OperationKeepsRequests
  <2>4. calls_fetched' = "asked" \/ calls_fetched' = calls_fetched
    BY <2>1 DEF ofono_voicecall_manager_get_calls
  <2>5. CallListInv'
    BY <1>1, <1>2, <2>1, <2>2, <2>4, ListStays
  <2>. QED
    BY <1>1, <2>2, <2>3, <2>5 DEF VoiceInv
<1>8. ASSUME NEW p \in Path, OfonoChanges(p) PROVE VoiceInv'
  <2>1. CallListInv'
    BY <1>1, <1>8, ChangingKeeps
  <2>. QED
    BY <1>1, <1>4, <1>8, <2>1 DEF VoiceInv, OfonoChanges
<1>9. CASE vm_create
  <2>1. UNCHANGED <<slot, requests, calls_fetched, list, channel, voice>> /\ vm' = TRUE
    BY <1>9 DEF vm_create
  <2>2. CallListInv'
    BY <1>1, <1>2, <2>1, ListStays
  <2>. QED
    BY <1>1, <1>4, <2>1, <2>2 DEF VoiceInv
<1>10. ASSUME FreeManager, voice' \in [Path -> State \cup {"none"}],
              slot' \in {"gone", "there", "ready"}
       PROVE  VoiceInv'
  <2>1. RequestsMatch'
    BY <1>1, <1>10, VoiceLosing
  <2>2. CallListInv'
    BY <1>10, NoManagerNoList DEF FreeManager
  <2>. QED
    BY <1>10, <2>1, <2>2 DEF VoiceInv
<1>11. CASE vm_free
  BY <1>1, <1>2, <1>10, <1>11 DEF vm_free
<1>12. CASE voice_modem_changed
  <2>1. CASE modem_added /\ UNCHANGED <<voiceOwn, requests>>
    BY <1>1, <1>3, <1>4, <2>1 DEF VoiceInv, modem_added
  <2>2. CASE (modem_replaced \/ modem_removed) /\ FreeManager /\ voice' = [p \in Path |-> "none"]
    <3>1. slot' \in {"gone", "there", "ready"}
      BY <1>1, <2>2 DEF modem_replaced, modem_removed
    <3>. QED
      BY <1>10, <2>2, <3>1
  <2>. QED
    BY <1>12, <2>1, <2>2 DEF voice_modem_changed
<1>13. ASSUME NEW k \in calls, voice_answer(k) PROVE VoiceInv'
  <2>1. Answered(k) /\ UNCHANGED slot
    BY <1>13 DEF voice_answer, dial_cb, call_op_result_cb, common_cb, GetCallsFails
  <2>2. RequestsMatch'
    BY <1>1, <2>1, VoiceAnswering
  <2>3. CASE dial_cb(k) \/ call_op_result_cb(k)
    BY <1>1, <1>3, <2>1, <2>2, <2>3 DEF VoiceInv, dial_cb, call_op_result_cb
  <2>4. CASE GetCallsFails(k)
    <3>1. /\ UNCHANGED <<vm, list, channel, voice>>
          /\ calls_fetched' = "failed" \/ calls_fetched' = calls_fetched
      BY <2>4 DEF GetCallsFails
    <3>2. CallListInv'
      BY <1>1, <1>2, <3>1, ListStays
    <3>. QED
      BY <1>1, <2>1, <2>2, <3>2 DEF VoiceInv
  <2>. QED
    BY <1>13, <2>3, <2>4 DEF voice_answer
<1>14. CASE OfonoLists
  <2>1. CallListInv'
    BY <1>1, <1>14, ListingKeeps
  <2>. QED
    BY <1>1, <1>4, <1>14, <2>1 DEF VoiceInv, OfonoLists
<1>15. CASE manager_handles
  BY <1>15, ManagerHandlesKeeps
<1>16. CASE voice_available
  BY <1>1, <1>3, <1>4, <1>16 DEF VoiceInv, voice_available, modem_powered
<1>. QED
  BY <1>5, <1>6, <1>7, <1>8, <1>9, <1>11, <1>12, <1>13, <1>14, <1>15, <1>16
     DEF VoiceNext, voice_due

(* The invariant of VoiceCalls holds at every moment.                      *)
LEMMA VoiceInvariant == VoiceSpec => []VoiceInv
BY VoiceInitHolds, VoiceStepHolds, PTL DEF VoiceSpec

(* Voice calls have the types the code gives them, and every client that   *)
(* waits for an answer has a call to ofono in flight.                      *)
THEOREM VoiceIsWellTyped == VoiceSpec => []VoiceTypeOK
<1>1. VoiceInv => VoiceTypeOK
  BY DEF VoiceInv, RequestsMatch, CallListInv, Entry, VoiceTypeOK
<1>. QED
  BY <1>1, VoiceInvariant, PTL

(* When all is handled and the calls have been listed, the list has just   *)
(* ofono's calls, and each call object has the state of its call.          *)
LEMMA HandledListIsTrue ==
  ASSUME CallListInv, calls_fetched = "done", channel = <<>>
  PROVE  /\ Paths(list) = Existing
         /\ \A n \in DOMAIN list : list[n].path \in Path /\ Reads(list[n]) = voice[list[n].path]
<1>1. DOMAIN channel = {} /\ Fetched
  BY DEF Fetched
<1>2. \A p \in Path : ~IsGoing(p) /\ (WillBeListed(p) <=> p \in Paths(list))
  BY <1>1 DEF IsGoing, WillBeListed
<1>3. DOMAIN list = 1..Len(list) /\ \A n \in 1..Len(list) : list[n] \in Entry
  BY ElementOfSeq, LenProperties DEF CallListInv
<1>4. Paths(list) \subseteq Path
  BY <1>3 DEF Paths, Entry
<1>5. Paths(list) = Existing
  BY <1>1, <1>2, <1>4 DEF CallListInv, ListFollows, Existing
<1>6. ASSUME NEW n \in DOMAIN list
      PROVE  list[n].path \in Path /\ Reads(list[n]) = voice[list[n].path]
  <2>1. PICK p \in Path : p = list[n].path
    BY <1>3 DEF Entry
  <2>2. p \in Existing /\ p \in Paths(list)
    BY <1>5, <2>1 DEF Paths
  <2>3. WillBeHeard(p)
    BY <1>2, <2>2 DEF CallListInv, StatesFollow
  <2>4. list[n].state = voice[p]
    BY <1>1, <2>1, <2>3 DEF WillBeHeard
  <2>5. voice[p] # "unheard"
    BY DEF CallListInv, State
  <2>. QED
    BY <2>1, <2>4, <2>5 DEF Reads
<1>. QED
  BY <1>5, <1>6

(* Once the calls have been listed the manager's list is ofono's as soon   *)
(* as all that ofono has sent is handled, and no call is on it twice.      *)
THEOREM ListStaysComplete == VoiceSpec => []ListIsComplete
<1>1. VoiceInv => ListIsComplete
  <2>. SUFFICES ASSUME CallListInv PROVE ListIsComplete
    BY DEF VoiceInv
  <2>1. calls_fetched = "done" /\ channel = <<>> => Paths(list) = Existing
    BY HandledListIsTrue
  <2>2. Len(list) \in Nat /\ DOMAIN list = 1..Len(list)
    BY LenProperties DEF CallListInv
  <2>. DEFINE path == [n \in 1..Len(list) |-> list[n].path]
              S == Paths(list)
  <2>3. path \in Bijection(1..Len(list), S)
    BY <2>2 DEF CallListInv, NoneTwice, Paths, Bijection, Injection, IsInjective, Surjection
  <2>. HIDE DEF path, S
  <2>4. ExistsBijection(1..Len(list), S)
    BY <2>3 DEF ExistsBijection
  <2>5. Cardinality(S) = Len(list)
    BY <2>2, <2>4, FS_CountingElements
  <2>. QED
    BY <2>1, <2>5 DEF ListIsComplete, S
<1>. QED
  BY <1>1, VoiceInvariant, PTL

(* With all of that handled, answer and ignore take a ringing call, hangup *)
(* the established one, or another when none is, and each is refused just  *)
(* when there is no call for it.                                           *)
THEOREM TargetStaysRight == VoiceSpec => []TargetIsRight
<1>1. VoiceInv => TargetIsRight
  <2>. SUFFICES ASSUME CallListInv, calls_fetched = "done", channel = <<>> PROVE TargetIsRight
    BY DEF VoiceInv, TargetIsRight
  <2>. DEFINE fits(S) == {p \in Path : voice[p] \in S}
  <2>1. ASSUME NEW S \in SUBSET State
        PROVE  IF fits(S) = {} THEN FirstIn(list, S) = NoPath ELSE FirstIn(list, S) \in fits(S)
    <3>1. \A n \in DOMAIN list : list[n].path \in Path /\ Reads(list[n]) = voice[list[n].path]
      BY HandledListIsTrue
    <3>2. \A p \in Path : voice[p] \in S => \E n \in DOMAIN list : list[n].path = p
      BY HandledListIsTrue DEF Existing, Paths, State
    <3>. QED
      BY <3>1, <3>2, FirstFits DEF CallListInv
  <2>2. \A p \in Path : p # NoPath
    BY VoiceCallsAssumption DEF Path, NoPath
  <2>3. /\ fits({"ringing"}) = {p \in Path : voice[p] = "ringing"}
        /\ fits({"active"}) = {p \in Path : voice[p] = "active"}
        /\ fits(State \ {"disconnected"}) = Existing \ {p \in Path : voice[p] = "disconnected"}
    BY DEF CallListInv, Existing, State
  <2>4. {{"ringing"}, {"active"}, State \ {"disconnected"}} \subseteq SUBSET State
    BY DEF State
  <2>. HIDE DEF fits
  <2>5. ASSUME NEW op \in {"answer", "ignore"}
        PROVE  IF fits({"ringing"}) = {} THEN Target(op, list) = NoPath
               ELSE Target(op, list) \in fits({"ringing"})
    BY <2>1, <2>4 DEF Target, find_ringing_call
  <2>6. /\ fits({"active"}) # {} => Target("hangup", list) \in fits({"active"})
        /\ fits({"active"}) = {} =>
             IF fits(State \ {"disconnected"}) = {} THEN Target("hangup", list) = NoPath
             ELSE Target("hangup", list) \in fits(State \ {"disconnected"})
    <3>1. fits({"active"}) \subseteq Path
      BY DEF fits
    <3>2. FirstIn(list, {"active"}) # NoPath <=> fits({"active"}) # {}
      BY <2>1, <2>2, <2>4, <3>1
    <3>3. Target("hangup", list) = find_live_call(list)
      BY DEF Target
    <3>. QED
      BY <2>1, <2>4, <3>2, <3>3 DEF find_live_call
  <2>. QED
    BY <2>3, <2>5, <2>6 DEF TargetIsRight, Operation
<1>. QED
  BY <1>1, VoiceInvariant, PTL

-----------------------------------------------------------------------------
(* The invariant of SimLock.                                               *)

SimProperty == {"Present", "PinRequired"}
SimHeard == [Present : BOOLEAN, PinRequired : Pin]
Change == [Present : BOOLEAN] \cup [PinRequired : Pin]

(* One change, or the answer to GetProperties with both.                   *)
SimMessage ==
  {<<c>> : c \in Change}
    \cup [Present : BOOLEAN] \X [PinRequired : Pin]
    \cup [PinRequired : Pin] \X [Present : BOOLEAN]

SimHas(m) == UNION {DOMAIN m[n] : n \in 1..Len(m)}
SaysOf(m, p, v) == \A n \in 1..Len(m) : p \in DOMAIN m[n] => m[n][p] = v

(* As in Network: the last message that names a property says what holds.  *)
SimEndsWith(w, h, truth) ==
  \A p \in SimProperty :
    /\ (\A n \in 1..Len(w) : p \notin SimHas(w[n])) => h[p] = truth[p]
    /\ \A n \in 1..Len(w) :
         p \in SimHas(w[n]) /\ (\A m \in n + 1..Len(w) : p \notin SimHas(w[m]))
           => SaysOf(w[n], p, truth[p])

SimWireEndsWithTruth == SimEndsWith(sim_wire, sim_heard, card)

(* What was told is what was seen, if all of it was, and shows the lock.   *)
Honest(seen, told_s, unsaid_s, pin) ==
  /\ {seen, told_s} \subseteq SimStatus /\ pin \in PinStatus /\ unsaid_s \in BOOLEAN
  /\ ~unsaid_s => told_s = seen
  /\ told_s = "pin" => pin.required
  /\ told_s = "puk" => pin.puk_required

SimInv ==
  /\ SimTypeOK
  /\ sim_wire \in Seq(SimMessage)
  /\ IF sim THEN SimWireEndsWithTruth ELSE sim_wire = <<>> /\ sim_heard = NoCard
  /\ sim /\ sim_wire = <<>> => sim_status = determine_sim_status(sim_heard)
  /\ Honest(sim_status, told_status, unsaid, told_pin)

-----------------------------------------------------------------------------
(* Nothing heard is no card.                                               *)
LEMMA NoCardIsHeard == NoCard \in SimHeard /\ Card \subseteq SimHeard
<1>1. "none" \in Pin
  BY DEF Pin
<1>2. NoCard \in SimHeard
  BY <1>1 DEF NoCard, SimHeard
<1>3. [Present : {TRUE}, PinRequired : Pin] \subseteq SimHeard
  BY DEF SimHeard
<1>. QED
  BY <1>2, <1>3 DEF Card

(* A status is one of four.                                                *)
LEMMA StatusOfCard ==
  ASSUME NEW h \in SimHeard
  PROVE  determine_sim_status(h) \in SimStatus
BY DEF determine_sim_status, SimHeard, SimStatus, Pin

(* One change: what is seen is what was heard, and is told if it is new.   *)
LEMMA ChangeIsSeen ==
  ASSUME NEW s, s.heard \in SimHeard, Honest(s.seen, s.told, s.unsaid, s.pin),
         NEW change \in Change, NEW old \in PinStatus,
         s = [heard |-> s.heard, seen |-> s.seen, told |-> s.told, unsaid |-> s.unsaid,
              pin |-> s.pin]
  PROVE  LET t == sim_prop_changed_cb(s, change, old)
         IN  /\ t.heard \in SimHeard /\ t.heard = update_sim_property(s.heard, change)
             /\ t = [heard |-> t.heard, seen |-> t.seen, told |-> t.told, unsaid |-> t.unsaid,
                     pin |-> t.pin]
             /\ t.seen = determine_sim_status(t.heard)
             /\ Honest(t.seen, t.told, t.unsaid, t.pin)
<1>. DEFINE h == update_sim_property(s.heard, change)
            seen == determine_sim_status(h)
<1>1. h \in SimHeard
  BY DEF update_sim_property, SimHeard, Change
<1>2. seen \in SimStatus
  BY <1>1, StatusOfCard
<1>3. CASE seen = s.seen
  <2>1. sim_prop_changed_cb(s, change, old)
          = [heard |-> h, seen |-> s.seen, told |-> s.told, unsaid |-> s.unsaid, pin |-> s.pin]
    BY <1>3 DEF sim_prop_changed_cb
  <2>. QED
    BY <1>1, <1>3, <2>1
<1>4. CASE seen # s.seen
  <2>. DEFINE pin == determine_pin_status(h, old)
  <2>1. sim_prop_changed_cb(s, change, old)
          = [heard |-> h, seen |-> seen, told |-> seen, unsaid |-> FALSE, pin |-> pin]
    BY <1>4 DEF sim_prop_changed_cb, sim_status_notify
  <2>2. /\ pin \in PinStatus
        /\ seen = "pin" => pin.required
        /\ seen = "puk" => pin.puk_required
    BY <1>1 DEF determine_pin_status, PinStatus, SimHeard, determine_sim_status, Pin
  <2>. HIDE DEF pin
  <2>. QED
    BY <1>1, <1>2, <2>1, <2>2 DEF Honest
<1>. QED
  BY <1>3, <1>4

(* A change replaces the property it names.                                *)
LEMMA ChangeReplaces ==
  ASSUME NEW h \in SimHeard, NEW c \in Change
  PROVE  /\ update_sim_property(h, c) \in SimHeard
         /\ \A p \in SimProperty :
              update_sim_property(h, c)[p] = IF p \in DOMAIN c THEN c[p] ELSE h[p]
BY DEF update_sim_property, SimHeard, Change, SimProperty

(* A message has one change, or two of different properties.               *)
LEMMA MessageShape ==
  ASSUME NEW m \in SimMessage
  PROVE  \/ Len(m) = 1 /\ m[1] \in Change
         \/ Len(m) = 2 /\ m[1] \in Change /\ m[2] \in Change /\ DOMAIN m[1] \cap DOMAIN m[2] = {}
BY DEF SimMessage, Change

(* Handling a message replaces what it names, and ends with the status of  *)
(* what was heard seen, and told if it was not seen before.                *)
LEMMA SimMessageIsSeen ==
  ASSUME SimInv, sim_handles
  PROVE  /\ sim_heard' \in SimHeard /\ sim_status' = determine_sim_status(sim_heard')
         /\ Honest(sim_status', told_status', unsaid', told_pin')
         /\ \A p \in SimProperty :
              IF p \in SimHas(sim_wire[1]) THEN SaysOf(sim_wire[1], p, sim_heard'[p])
              ELSE sim_heard'[p] = sim_heard[p]
<1>1. /\ sim_heard \in SimHeard /\ sim_wire \in Seq(SimMessage)
      /\ Honest(sim_status, told_status, unsaid, told_pin)
  BY DEF SimInv, SimTypeOK, SimHeard
<1>. DEFINE m == sim_wire[1]
            before == [heard |-> sim_heard, seen |-> sim_status, told |-> told_status,
                       unsaid |-> unsaid, pin |-> told_pin]
<1>2. sim_wire # <<>> /\ Head(sim_wire) = m /\ m \in SimMessage
  BY <1>1 DEF sim_handles
<1>. HIDE DEF m
<1>3. PICK old \in PinStatus :
        LET first == sim_prop_changed_cb(before, m[1], old)
            s == IF Len(m) = 1 THEN first ELSE sim_prop_changed_cb(first, m[2], old)
        IN  /\ sim_heard' = s.heard /\ sim_status' = s.seen
            /\ told_status' = s.told /\ unsaid' = s.unsaid /\ told_pin' = s.pin
  BY <1>2 DEF sim_handles
<1>. DEFINE first == sim_prop_changed_cb(before, m[1], old)
            second == sim_prop_changed_cb(first, m[2], old)
<1>4. m[1] \in Change
  BY <1>2, MessageShape
<1>5. /\ before.heard = sim_heard /\ Honest(before.seen, before.told, before.unsaid, before.pin)
      /\ before = [heard |-> before.heard, seen |-> before.seen, told |-> before.told,
                   unsaid |-> before.unsaid, pin |-> before.pin]
  BY <1>1
<1>. HIDE DEF before
<1>6. /\ first.heard = update_sim_property(sim_heard, m[1]) /\ first.heard \in SimHeard
      /\ first.seen = determine_sim_status(first.heard)
      /\ Honest(first.seen, first.told, first.unsaid, first.pin)
      /\ first = [heard |-> first.heard, seen |-> first.seen, told |-> first.told,
                  unsaid |-> first.unsaid, pin |-> first.pin]
  BY <1>1, <1>4, <1>5, ChangeIsSeen
<1>7. \A p \in SimProperty :
        first.heard[p] = IF p \in DOMAIN m[1] THEN m[1][p] ELSE sim_heard[p]
  BY <1>1, <1>4, <1>6, ChangeReplaces
<1>. HIDE DEF first
<1>8. CASE Len(m) = 1
  <2>1. /\ sim_heard' = first.heard /\ sim_status' = first.seen
        /\ told_status' = first.told /\ unsaid' = first.unsaid /\ told_pin' = first.pin
    BY <1>3, <1>8 DEF first
  <2>2. \A p \in SimProperty : IF p \in SimHas(m) THEN SaysOf(m, p, first.heard[p])
                               ELSE first.heard[p] = sim_heard[p]
    BY <1>7, <1>8 DEF SimHas, SaysOf
  <2>. QED
    BY <1>6, <2>1, <2>2 DEF m
<1>9. CASE Len(m) # 1
  <2>1. Len(m) = 2 /\ m[2] \in Change /\ DOMAIN m[1] \cap DOMAIN m[2] = {}
    BY <1>2, <1>9, MessageShape
  <2>2. /\ second.heard = update_sim_property(first.heard, m[2]) /\ second.heard \in SimHeard
        /\ second.seen = determine_sim_status(second.heard)
        /\ Honest(second.seen, second.told, second.unsaid, second.pin)
    BY <1>6, <2>1, ChangeIsSeen
  <2>3. \A p \in SimProperty :
          second.heard[p] = IF p \in DOMAIN m[2] THEN m[2][p] ELSE first.heard[p]
    BY <1>6, <2>1, <2>2, ChangeReplaces
  <2>4. /\ sim_heard' = second.heard /\ sim_status' = second.seen
        /\ told_status' = second.told /\ unsaid' = second.unsaid /\ told_pin' = second.pin
    BY <1>3, <1>9 DEF first
  <2>. HIDE DEF second
  <2>5. \A p \in SimProperty : IF p \in SimHas(m) THEN SaysOf(m, p, second.heard[p])
                               ELSE second.heard[p] = sim_heard[p]
    <3>. SUFFICES ASSUME NEW p \in SimProperty
                  PROVE  IF p \in SimHas(m) THEN SaysOf(m, p, second.heard[p])
                         ELSE second.heard[p] = sim_heard[p]
      OBVIOUS
    <3>1. SimHas(m) = DOMAIN m[1] \cup DOMAIN m[2]
      BY <2>1 DEF SimHas
    <3>2. \A v : SaysOf(m, p, v) <=> /\ p \in DOMAIN m[1] => m[1][p] = v
                                     /\ p \in DOMAIN m[2] => m[2][p] = v
      BY <2>1 DEF SaysOf
    <3>. QED
      BY <1>7, <2>1, <2>3, <3>1, <3>2
  <2>. QED
    BY <2>2, <2>4, <2>5 DEF m
<1>. QED
  BY <1>8, <1>9

(* A message is handled: what it says holds, unless a later one says more. *)
LEMMA SimHandlingKeepsTruth ==
  ASSUME NEW w \in Seq(SimMessage), w # <<>>, NEW h, NEW h2, NEW truth, SimEndsWith(w, h, truth),
         \A p \in SimProperty : IF p \in SimHas(w[1]) THEN SaysOf(w[1], p, h2[p])
                                ELSE h2[p] = h[p]
  PROVE  SimEndsWith(Tail(w), h2, truth)
<1>. DEFINE t == Tail(w)
<1>1. /\ Len(t) = Len(w) - 1 /\ Len(w) \in Nat \ {0} /\ t \in Seq(SimMessage)
      /\ \A n \in 1..Len(t) : t[n] = w[n + 1]
  OBVIOUS
<1>. HIDE DEF t
<1>2. ASSUME NEW p \in SimProperty, NEW n \in 0..Len(t),
             \A m \in n + 1..Len(t) : p \notin SimHas(t[m]),
             NEW m \in (n + 1) + 1..Len(w)
      PROVE  p \notin SimHas(w[m])
  <2>1. m - 1 \in n + 1..Len(t) /\ m - 1 \in 1..Len(t) /\ (m - 1) + 1 = m
    BY <1>1
  <2>. QED
    BY <1>1, <1>2, <2>1
<1>3. ASSUME NEW p \in SimProperty, \A n \in 1..Len(t) : p \notin SimHas(t[n])
      PROVE  h2[p] = truth[p]
  <2>1. \A m \in 1 + 1..Len(w) : p \notin SimHas(w[m])
    <3>1. 0 \in 0..Len(t) /\ 0 + 1 = 1
      BY <1>1
    <3>. QED
      BY <1>2, <1>3, <3>1
  <2>2. CASE p \in SimHas(w[1])
    <3>1. SaysOf(w[1], p, truth[p]) /\ SaysOf(w[1], p, h2[p])
      BY <1>1, <2>1, <2>2 DEF SimEndsWith
    <3>. QED
      BY <2>2, <3>1 DEF SimHas, SaysOf
  <2>3. CASE p \notin SimHas(w[1])
    <3>1. \A m \in 1..Len(w) : p \notin SimHas(w[m])
      BY <1>1, <2>1, <2>3
    <3>. QED
      BY <2>3, <3>1 DEF SimEndsWith
  <2>. QED
    BY <2>2, <2>3
<1>4. ASSUME NEW p \in SimProperty, NEW n \in 1..Len(t), p \in SimHas(t[n]),
             \A m \in n + 1..Len(t) : p \notin SimHas(t[m])
      PROVE  SaysOf(t[n], p, truth[p])
  <2>1. n + 1 \in 1..Len(w) /\ t[n] = w[n + 1] /\ n \in 0..Len(t)
    BY <1>1
  <2>2. \A m \in (n + 1) + 1..Len(w) : p \notin SimHas(w[m])
    BY <1>2, <1>4, <2>1
  <2>. QED
    BY <1>4, <2>1, <2>2 DEF SimEndsWith
<1>5. SimEndsWith(t, h2, truth)
  BY <1>3, <1>4 DEF SimEndsWith
<1>. QED
  BY <1>5 DEF t

(* One property changes, and a message that says so is the last one.       *)
LEMMA SimSendingKeepsTruth ==
  ASSUME NEW w \in Seq(SimMessage), NEW h, NEW truth, SimEndsWith(w, h, truth),
         NEW q \in SimProperty, NEW c \in Change, DOMAIN c = {q},
         NEW truth2, truth2[q] = c[q], \A p \in SimProperty \ {q} : truth2[p] = truth[p]
  PROVE  Append(w, <<c>>) \in Seq(SimMessage) /\ SimEndsWith(Append(w, <<c>>), h, truth2)
<1>. DEFINE a == Append(w, <<c>>)
<1>1. <<c>> \in SimMessage /\ SimHas(<<c>>) = {q} /\ SaysOf(<<c>>, q, truth2[q])
  BY DEF SimMessage, SimHas, SaysOf
<1>2. /\ a \in Seq(SimMessage) /\ Len(a) = Len(w) + 1 /\ Len(w) \in Nat
      /\ \A n \in 1..Len(w) : a[n] = w[n]
      /\ a[Len(a)] = <<c>>
  BY <1>1
<1>. HIDE DEF a
<1>3. ASSUME NEW p \in SimProperty, \A n \in 1..Len(a) : p \notin SimHas(a[n])
      PROVE  h[p] = truth2[p]
  <2>1. p # q
    BY <1>1, <1>2, <1>3
  <2>2. \A n \in 1..Len(w) : p \notin SimHas(w[n])
    BY <1>2, <1>3
  <2>. QED
    BY <2>1, <2>2 DEF SimEndsWith
<1>4. ASSUME NEW p \in SimProperty, NEW n \in 1..Len(a), p \in SimHas(a[n]),
             \A m \in n + 1..Len(a) : p \notin SimHas(a[m])
      PROVE  SaysOf(a[n], p, truth2[p])
  <2>1. CASE n = Len(a)
    BY <1>1, <1>2, <1>4, <2>1
  <2>2. CASE n # Len(a)
    <3>1. n \in 1..Len(w) /\ p # q
      BY <1>1, <1>2, <1>4, <2>2
    <3>2. \A m \in n + 1..Len(w) : p \notin SimHas(w[m])
      BY <1>2, <1>4, <3>1
    <3>. QED
      BY <1>2, <1>4, <3>1, <3>2 DEF SimEndsWith
  <2>. QED
    BY <2>1, <2>2
<1>5. SimEndsWith(a, h, truth2)
  BY <1>3, <1>4 DEF SimEndsWith
<1>. QED
  BY <1>2, <1>5 DEF a

(* The card changes, and the SIM manager is sent word of what is another.  *)
LEMMA CardChangeIsSent ==
  ASSUME SimInv, CardChanges
  PROVE  SimInv'
<1>. USE DEF CardChanges
<1>1. /\ card \in Card /\ card' \in Card /\ sim_wire \in Seq(SimMessage) /\ sim \in BOOLEAN
      /\ card \in SimHeard /\ card' \in SimHeard
  BY NoCardIsHeard DEF SimInv, SimTypeOK
<1>2. CASE ~sim
  BY <1>1, <1>2 DEF SimInv, SimTypeOK, requests
<1>3. CASE sim
  <2>. DEFINE mid == [card EXCEPT !.Present = card'.Present]
              present == IF card'.Present = card.Present THEN sim_wire
                         ELSE Append(sim_wire, <<Present(card')>>)
              pin == IF card'.PinRequired = card.PinRequired THEN present
                     ELSE Append(present, <<PinRequired(card')>>)
  <2>1. /\ mid["Present"] = card'["Present"] /\ mid["PinRequired"] = card["PinRequired"]
        /\ Present(card') \in Change /\ DOMAIN Present(card') = {"Present"}
        /\ Present(card')["Present"] = card'["Present"]
        /\ PinRequired(card') \in Change /\ DOMAIN PinRequired(card') = {"PinRequired"}
        /\ PinRequired(card')["PinRequired"] = card'["PinRequired"]
    BY <1>1 DEF SimHeard, Change, Present, PinRequired
  <2>. HIDE DEF mid
  <2>2. SimEndsWith(sim_wire, sim_heard, card)
    BY <1>3 DEF SimInv, SimWireEndsWithTruth
  <2>3. present \in Seq(SimMessage) /\ SimEndsWith(present, sim_heard, mid)
    <3>1. CASE card'.Present = card.Present
      BY <1>1, <2>1, <2>2, <3>1 DEF SimEndsWith, SimProperty
    <3>2. CASE card'.Present # card.Present
      BY <1>1, <2>1, <2>2, <3>2, SimSendingKeepsTruth DEF SimProperty
    <3>. QED
      BY <3>1, <3>2
  <2>. HIDE DEF present
  <2>4. pin \in Seq(SimMessage) /\ SimEndsWith(pin, sim_heard, card')
    <3>1. CASE card'.PinRequired = card.PinRequired
      BY <2>1, <2>3, <3>1 DEF SimEndsWith, SimProperty
    <3>2. CASE card'.PinRequired # card.PinRequired
      BY <2>1, <2>3, <3>2, SimSendingKeepsTruth DEF SimProperty
    <3>. QED
      BY <3>1, <3>2
  <2>5. sim_wire' = pin
    BY <1>3 DEF present
  <2>6. sim_wire' = <<>> => sim_wire = <<>> /\ card'.Present = card.Present
                                           /\ card'.PinRequired = card.PinRequired
    <3>1. \A w \in Seq(SimMessage) : \A x : Append(w, x) # <<>>
      OBVIOUS
    <3>. QED
      BY <1>1, <2>3, <2>5, <3>1 DEF present
  <2>. HIDE DEF pin
  <2>7. SimWireEndsWithTruth' /\ sim_wire' \in Seq(SimMessage)
    BY <2>4, <2>5 DEF SimWireEndsWithTruth
  <2>. QED
    BY <1>1, <1>3, <2>6, <2>7 DEF SimInv, SimTypeOK, requests
<1>. QED
  BY <1>1, <1>2, <1>3

(* A SIM manager starts with nothing heard, and is told of all that holds. *)
LEMMA SimManagerAppears ==
  ASSUME SimInv, sim_create
  PROVE  SimInv'
<1>. USE DEF sim_create, ofono_sim_manager_create
<1>1. card \in SimHeard
  BY NoCardIsHeard DEF SimInv, SimTypeOK
<1>2. /\ Present(card) \in [Present : BOOLEAN] /\ Present(card).Present = card.Present
      /\ PinRequired(card) \in [PinRequired : Pin]
      /\ PinRequired(card).PinRequired = card.PinRequired
  BY <1>1 DEF Present, PinRequired, SimHeard
<1>3. PICK m \in SimMessage :
        /\ sim_wire' = <<m>> /\ Len(m) = 2 /\ SimHas(m) = SimProperty
        /\ \A p \in SimProperty : SaysOf(m, p, card[p])
  <2>1. CASE sim_wire' = <<<<Present(card), PinRequired(card)>>>>
    <3>. DEFINE m == <<Present(card), PinRequired(card)>>
    <3>1. m \in SimMessage
      BY <1>2 DEF SimMessage
    <3>2. Len(m) = 2 /\ SimHas(m) = SimProperty
      BY <1>2 DEF SimHas, SimProperty
    <3>3. \A p \in SimProperty : SaysOf(m, p, card[p])
      BY <1>2 DEF SaysOf, SimProperty
    <3>. QED
      BY <2>1, <3>1, <3>2, <3>3
  <2>2. CASE sim_wire' = <<<<PinRequired(card), Present(card)>>>>
    <3>. DEFINE m == <<PinRequired(card), Present(card)>>
    <3>1. m \in SimMessage
      BY <1>2 DEF SimMessage
    <3>2. Len(m) = 2 /\ SimHas(m) = SimProperty
      BY <1>2 DEF SimHas, SimProperty
    <3>3. \A p \in SimProperty : SaysOf(m, p, card[p])
      BY <1>2 DEF SaysOf, SimProperty
    <3>. QED
      BY <2>2, <3>1, <3>2, <3>3
  <2>. QED
    BY <2>1, <2>2
<1>4. sim_wire' \in Seq(SimMessage) /\ sim_wire' # <<>> /\ Len(sim_wire') = 1 /\ sim_wire'[1] = m
  BY <1>3
<1>5. SimWireEndsWithTruth'
  BY <1>3, <1>4 DEF SimWireEndsWithTruth, SimEndsWith
<1>. QED
  BY <1>4, <1>5 DEF SimInv, SimTypeOK, requests, NoCard, Pin

(* One that goes leaves nothing heard.                                     *)
LEMMA SimManagerGoes ==
  ASSUME SimInv, FreeSim, card' \in Card, slot' \in {"gone", "there", "ready"},
         UNCHANGED <<requests, told_status, told_pin>>,
         sim_status' \in {"invalid", sim_status}, unsaid' = (unsaid \/ sim_status' # sim_status)
  PROVE  SimInv'
<1>1. Honest(sim_status', told_status', unsaid', told_pin')
  BY DEF SimInv, Honest, SimStatus
<1>2. SimTypeOK'
  BY <1>1 DEF FreeSim, SimInv, SimTypeOK, Honest, NoCard, Pin, requests
<1>. QED
  BY <1>1, <1>2 DEF FreeSim, SimInv

(* The first message is handled.                                           *)
LEMMA SimMessageIsHandled ==
  ASSUME SimInv, sim_handles
  PROVE  SimInv'
<1>1. /\ sim_heard' \in SimHeard /\ sim_status' = determine_sim_status(sim_heard')
      /\ Honest(sim_status', told_status', unsaid', told_pin')
      /\ \A p \in SimProperty :
           IF p \in SimHas(sim_wire[1]) THEN SaysOf(sim_wire[1], p, sim_heard'[p])
           ELSE sim_heard'[p] = sim_heard[p]
  BY SimMessageIsSeen
<1>2. /\ sim_wire \in Seq(SimMessage) /\ sim_wire # <<>> /\ sim_wire' = Tail(sim_wire)
      /\ UNCHANGED <<slot, requests, moves, sim, card>>
  BY DEF SimInv, sim_handles
<1>3. sim /\ SimEndsWith(sim_wire, sim_heard, card)
  BY <1>2 DEF SimInv, SimTypeOK, SimWireEndsWithTruth
<1>4. SimWireEndsWithTruth' /\ sim_wire' \in Seq(SimMessage)
  BY <1>1, <1>2, <1>3, SimHandlingKeepsTruth DEF SimWireEndsWithTruth
<1>5. SimTypeOK'
  BY <1>1, <1>2 DEF SimInv, SimTypeOK, Honest, SimHeard, requests
<1>. QED
  BY <1>1, <1>2, <1>3, <1>4, <1>5 DEF SimInv

-----------------------------------------------------------------------------
(* The slot starts out gone, with no SIM manager.                          *)
LEMMA SimInitHolds == SimInit => SimInv
<1>. SUFFICES ASSUME SimInit PROVE SimInv
  OBVIOUS
<1>1. SimTypeOK
  BY NoCardIsHeard DEF SimInit, SimTypeOK, SimHeard, SimStatus, PinStatus
<1>2. Honest(sim_status, told_status, unsaid, told_pin)
  BY DEF SimInit, Honest, SimStatus, PinStatus
<1>. QED
  BY <1>1, <1>2 DEF SimInit, SimInv

(* Every step keeps the invariant.                                         *)
LEMMA SimStepHolds == SimInv /\ [SimNext]_simVars => SimInv'
<1>. SUFFICES ASSUME SimInv, [SimNext]_simVars PROVE SimInv'
  OBVIOUS
<1>1. ASSUME UNCHANGED simOwn, SimTypeOK' PROVE SimInv'
  BY <1>1 DEF simOwn, SimInv, SimWireEndsWithTruth
<1>2. ASSUME NEW g \in Client, pin1_request(g) PROVE SimInv'
  <2>1. calls' = calls \cup {PinCall(g)} /\ waiting' = waiting \cup {g}
    BY <1>2 DEF pin1_request, ofono_pin1_operation, CallSimManager, Ask, PinCall
  <2>2. PinCall(g) \in {PinCall(h) : h \in Client} /\ PinCall(g).who = g
    BY DEF PinCall
  <2>3. /\ calls' \subseteq {PinCall(h) : h \in Client}
        /\ waiting' = {k.who : k \in calls'}
    BY <2>1, <2>2 DEF SimInv, SimTypeOK
  <2>4. SimTypeOK'
    BY <1>2, <2>3 DEF pin1_request, SimInv, SimTypeOK, simOwn
  <2>. QED
    BY <1>1, <1>2, <2>4 DEF pin1_request
<1>3. CASE sim_status_query
  <2>1. sim_heard \in SimHeard /\ sim_status' = determine_sim_status(sim_heard)
    BY <1>3 DEF sim_status_query, ofono_sim_status_query, SimInv, SimTypeOK, SimHeard
  <2>2. sim_status' \in SimStatus
    BY <2>1, StatusOfCard
  <2>3. Honest(sim_status', told_status', unsaid', told_pin')
    BY <1>3, <2>2 DEF sim_status_query, SimInv, Honest
  <2>. QED
    BY <1>3, <2>1, <2>2, <2>3
    DEF sim_status_query, SimInv, SimTypeOK, SimWireEndsWithTruth, requests
<1>4. CASE CardChanges
  BY <1>4, CardChangeIsSent
<1>5. CASE sim_create
  BY <1>5, SimManagerAppears
<1>6. CASE sim_free
  BY <1>6, SimManagerGoes DEF sim_free, SimInv, SimTypeOK, Honest
<1>7. CASE sim_modem_changed
  <2>1. CASE modem_added /\ UNCHANGED <<simOwn, requests>>
    BY <1>1, <2>1 DEF modem_added, SimInv, SimTypeOK, simOwn, requests
  <2>2. CASE /\ modem_replaced /\ FreeSim /\ card' \in Card
             /\ UNCHANGED <<requests, sim_status, told_status, told_pin, unsaid>>
    BY <2>2, SimManagerGoes DEF modem_replaced, SimInv, SimTypeOK, Honest
  <2>3. CASE /\ modem_removed /\ FreeSim /\ card' \in Card
             /\ sim_status' = "invalid" /\ unsaid' = (unsaid \/ sim_status # "invalid")
             /\ UNCHANGED <<requests, told_status, told_pin>>
    BY <2>3, SimManagerGoes DEF modem_removed, SimInv, SimTypeOK, Honest
  <2>. QED
    BY <1>7, <2>1, <2>2, <2>3 DEF sim_modem_changed
<1>8. ASSUME NEW k \in calls, pin1_common_cb(k) PROVE SimInv'
  <2>1. \A j \in calls : j.who = k.who => j = k
    <3>1. \A j \in calls : j = PinCall(j.who)
      BY DEF SimInv, SimTypeOK, PinCall
    <3>. QED
      BY <3>1
  <2>2. calls' = calls \ {k} /\ waiting' = {j.who : j \in calls'}
    BY <1>8, <2>1 DEF pin1_common_cb, common_pin_cb, Answered, SimInv, SimTypeOK
  <2>3. SimTypeOK'
    BY <1>8, <2>2 DEF pin1_common_cb, SimInv, SimTypeOK, simOwn
  <2>. QED
    BY <1>1, <1>8, <2>3 DEF pin1_common_cb
<1>9. CASE sim_handles
  BY <1>9, SimMessageIsHandled
<1>10. CASE sim_available
  BY <1>1, <1>10 DEF sim_available, modem_powered, SimInv, SimTypeOK, simOwn, requests
<1>11. CASE UNCHANGED simVars
  BY <1>1, <1>11 DEF simVars, SimInv, SimTypeOK, simOwn, requests
<1>. QED
  BY <1>2, <1>3, <1>4, <1>5, <1>6, <1>7, <1>8, <1>9, <1>10, <1>11 DEF SimNext, sim_due

(* The invariant holds of every behaviour.                                 *)
LEMMA SimInvariant == SimSpec => []SimInv
BY SimInitHolds, SimStepHolds, PTL DEF SimSpec

(* The state keeps its type: every client that waits has its call.         *)
THEOREM SimIsWellTyped == SimSpec => []SimTypeOK
<1>1. SimInv => SimTypeOK
  BY DEF SimInv
<1>. QED
  BY <1>1, SimInvariant, PTL

(* telephonyservice_sim.c: with nothing left to handle, subscribers know   *)
(* the status of the card as it is, and which PIN it waits for.            *)
THEOREM SimStatusStaysTold == SimSpec => []SimStatusIsTold
<1>1. ASSUME SimInv PROVE SimStatusIsTold
  <2>. SUFFICES ASSUME sim, sim_wire = <<>>, ~unsaid
                PROVE  /\ told_status = determine_sim_status(card)
                       /\ told_status = "pin" => told_pin.required
                       /\ told_status = "puk" => told_pin.puk_required
    BY DEF SimStatusIsTold
  <2>1. \A p \in SimProperty : sim_heard[p] = card[p]
    BY <1>1 DEF SimInv, SimWireEndsWithTruth, SimEndsWith
  <2>2. determine_sim_status(sim_heard) = determine_sim_status(card)
    BY <2>1 DEF determine_sim_status, SimProperty
  <2>. QED
    BY <1>1, <2>2 DEF SimInv, Honest
<1>. QED
  BY <1>1, SimInvariant, PTL

-----------------------------------------------------------------------------
(* SimTable, for any number of slots, any roles and any set of cards.      *)

(* The choice is the user's, in memory and as it is stored.                *)
ChoiceIsStored == default_sim_iccid = chosen /\ settings.choice = chosen

(* The slot that serves a role names the card chosen for it, if one does.  *)
RoleIsNamed ==
  /\ \A r \in Role : Naming(r) # {} => default_sim[r] \in Naming(r)
  /\ default_sim["data"] \in {NoSlot, data_sim_id}

TableInv == TableTypeOK /\ ChoiceIsStored /\ RoleIsNamed

(* The slot that serves a card: a slot of the table, or none, and one that *)
(* says it has the card if there is one.                                   *)
LEMMA ServingSlot ==
  ASSUME NEW n \in Nat, NEW table \in [0..n - 1 -> Sim], NEW iccid \in Iccid \cup {NoIccid}
  PROVE  /\ serving_slot(table, iccid) \in DOMAIN table \cup {NoSlot}
         /\ LET with == {k \in DOMAIN table : iccid # NoIccid /\ table[k].iccid = iccid}
            IN  with # {} => serving_slot(table, iccid) \in with
<1>. DEFINE known == {k \in DOMAIN table : iccid # NoIccid /\ table[k].iccid = iccid}
            usable == {k \in DOMAIN table : table[k].present}
<1>1. known \in SUBSET Nat /\ usable \in SUBSET Nat
  OBVIOUS
<1>2. CASE known # {}
  BY <1>1, <1>2, LeastIsMember DEF serving_slot
<1>3. CASE known = {} /\ usable # {}
  BY <1>1, <1>3, LeastIsMember DEF serving_slot
<1>4. CASE known = {} /\ usable = {}
  <2>1. table # <<>> => 0 \in DOMAIN table
    OBVIOUS
  <2>. QED
    BY <1>4, <2>1 DEF serving_slot
<1>. QED
  BY <1>2, <1>3, <1>4

(* What the driver tells of a slot is a slot.                              *)
LEMMA SlotToldIsSim ==
  ASSUME TableTypeOK, NEW s \in Sim, NEW present \in BOOLEAN, NEW iccid \in Iccid \cup {NoIccid}
  PROVE  sim_info_changed(s, present, iccid) \in Sim
BY SimTableAssumption DEF sim_info_changed, Sim, TableTypeOK, SimNames

(* Whatever the table becomes, the slots that serve are computed anew from *)
(* the choice, and packet data follows.                                    *)
LEMMA RecomputeKeepsChoice ==
  ASSUME TableInv, recompute_default_sims,
         NEW n \in 0..MaxSlots, sims' \in [0..n - 1 -> Sim], unread' \subseteq DOMAIN sims',
         UNCHANGED <<default_sim_iccid, sim_names, settings, chosen>>
  PROVE  TableInv'
<1>1. default_sim_iccid \in Choice /\ default_sim_iccid = chosen
  BY DEF TableInv, TableTypeOK, ChoiceIsStored
<1>2. ASSUME NEW r \in Role
      PROVE  /\ default_sim'[r] = serving_slot(sims', chosen[r])
             /\ default_sim'[r] \in DOMAIN sims' \cup {NoSlot}
             /\ LET with == {k \in DOMAIN sims' : chosen[r] # NoIccid /\ sims'[k].iccid = chosen[r]}
                IN  with # {} => default_sim'[r] \in with
  <2>1. default_sim'[r] = serving_slot(sims', chosen[r]) /\ chosen[r] \in Iccid \cup {NoIccid}
    BY <1>1 DEF recompute_default_sims, Choice
  <2>2. PICK table : table = sims'
    OBVIOUS
  <2>3. PICK iccid \in Iccid \cup {NoIccid} : iccid = chosen[r]
    BY <2>1
  <2>4. n \in Nat /\ table \in [0..n - 1 -> Sim]
    BY <2>2, SimTableAssumption
  <2>5. /\ serving_slot(table, iccid) \in DOMAIN table \cup {NoSlot}
        /\ LET with == {k \in DOMAIN table : iccid # NoIccid /\ table[k].iccid = iccid}
           IN  with # {} => serving_slot(table, iccid) \in with
    BY <2>4, ServingSlot
  <2>. QED
    BY <2>1, <2>2, <2>3, <2>5
<1>3. default_sim' \in [Role -> DOMAIN sims' \cup {NoSlot}]
  BY <1>2 DEF recompute_default_sims
<1>4. DOMAIN sims' \subseteq SlotId
  BY SimTableAssumption DEF SlotId
<1>5. /\ data_sim_id' \in SlotId \cup {NoSlot}
      /\ default_sim'["data"] \in {NoSlot, data_sim_id'}
  <2>1. default_sim'["data"] \in SlotId \cup {NoSlot}
    BY <1>3, <1>4, SimTableAssumption
  <2>2. CASE default_sim'["data"] = default_sim["data"]
    BY <2>2 DEF recompute_default_sims, TableInv, TableTypeOK, RoleIsNamed, Naming
  <2>3. CASE default_sim'["data"] # default_sim["data"]
    BY <2>1, <2>3 DEF recompute_default_sims
  <2>. QED
    BY <2>2, <2>3
<1>6. TableTypeOK'
  BY <1>3, <1>5 DEF TableInv, TableTypeOK, Choice, SimNames
<1>7. ChoiceIsStored'
  BY DEF TableInv, ChoiceIsStored
<1>8. RoleIsNamed'
  BY <1>2, <1>5 DEF RoleIsNamed, Naming
<1>. QED
  BY <1>6, <1>7, <1>8 DEF TableInv

(* The service starts with an empty table, and settings to match.          *)
LEMMA TableInitHolds == TableInit => TableInv
<1>. SUFFICES ASSUME TableInit PROVE TableInv
  OBVIOUS
<1>1. TableTypeOK
  <2>1. 0 \in 0..MaxSlots /\ sims \in [0..0 - 1 -> Sim]
    BY SimTableAssumption DEF TableInit
  <2>. QED
    BY <2>1, SimTableAssumption
    DEF TableInit, TableTypeOK, Choice, SimNames, Nowhere, SlotId, NoSlot
<1>2. ChoiceIsStored
  BY DEF TableInit, ChoiceIsStored
<1>3. RoleIsNamed
  BY SimTableAssumption DEF TableInit, RoleIsNamed, Naming, Nowhere
<1>. QED
  BY <1>1, <1>2, <1>3 DEF TableInv

(* The user's choice is of slots that exist, and is stored as it is made.  *)
LEMMA SetDefaultSimHolds ==
  ASSUME TableInv, NEW to \in Requests, default_sim_set(to)
  PROVE  TableInv'
<1>1. PICK n \in 0..MaxSlots : sims \in [0..n - 1 -> Sim]
  BY DEF TableInv, TableTypeOK
<1>2. to \in [Role -> DOMAIN sims \cup {NoSlot}]
  BY DEF Requests
<1>3. \A r \in Role :
        to[r] # NoSlot => to[r] \in DOMAIN sims /\ sims[to[r]].iccid \in Iccid \cup {NoIccid}
  BY <1>1, <1>2 DEF Sim
<1>. USE DEF default_sim_set, telephony_service_set_default_sim, store_default_sim_preferences
<1>4. default_sim' \in [Role -> DOMAIN sims' \cup {NoSlot}]
  BY <1>2 DEF TableInv, TableTypeOK
<1>5. default_sim_iccid' \in Choice /\ chosen' = default_sim_iccid'
  BY <1>3 DEF TableInv, TableTypeOK, ChoiceIsStored, Choice
<1>6. data_sim_id' \in SlotId \cup {NoSlot} /\ default_sim'["data"] \in {NoSlot, data_sim_id'}
  BY <1>1, <1>2, SimTableAssumption
  DEF TableInv, TableTypeOK, RoleIsNamed, Naming, SlotId, NoSlot
<1>7. TableTypeOK' /\ ChoiceIsStored'
  BY <1>4, <1>5, <1>6 DEF TableInv, TableTypeOK, ChoiceIsStored
<1>8. ASSUME NEW r \in Role,
             NEW k \in DOMAIN sims', chosen'[r] # NoIccid, sims'[k].iccid = chosen'[r]
      PROVE  default_sim'[r] \in DOMAIN sims' /\ sims'[default_sim'[r]].iccid = chosen'[r]
  <2>1. CASE to[r] = NoSlot
    BY <1>8, <2>1 DEF TableInv, RoleIsNamed, Naming
  <2>2. CASE to[r] # NoSlot
    BY <1>3, <2>2
  <2>. QED
    BY <2>1, <2>2
<1>. QED
  BY <1>6, <1>7, <1>8 DEF TableInv, RoleIsNamed, Naming

(* A label changes neither the cards nor the choice.                       *)
LEMMA SetSimNameHolds ==
  ASSUME TableInv, NEW n \in DOMAIN sims, NEW label \in Label \cup {NoLabel}, sim_name_set(n, label)
  PROVE  TableInv'
<1>1. PICK m \in 0..MaxSlots : sims \in [0..m - 1 -> Sim]
  BY DEF TableInv, TableTypeOK
<1>. USE DEF sim_name_set, telephony_service_set_sim_name, store_sim_names
<1>2. sims' \in [0..m - 1 -> Sim] /\ \A k \in DOMAIN sims : sims'[k].iccid = sims[k].iccid
  BY <1>1 DEF Sim
<1>3. sim_names' \in SimNames /\ settings' \in [choice : Choice, names : SimNames]
      /\ settings'.choice = settings.choice
  <2>1. sims[n].iccid \in Iccid \cup {NoIccid}
    BY <1>1 DEF Sim
  <2>. QED
    BY <2>1 DEF TableInv, TableTypeOK, SimNames
<1>4. TableTypeOK' /\ ChoiceIsStored'
  BY <1>1, <1>2, <1>3 DEF TableInv, TableTypeOK, ChoiceIsStored
<1>5. RoleIsNamed'
  BY <1>1, <1>2 DEF TableInv, RoleIsNamed, Naming
<1>. QED
  BY <1>4, <1>5 DEF TableInv

(* Every step keeps the invariant.                                         *)
LEMMA TableStepHolds == TableInv /\ [TableNext]_tableVars => TableInv'
<1>. SUFFICES ASSUME TableInv, [TableNext]_tableVars PROVE TableInv'
  OBVIOUS
<1>0. PICK m \in 0..MaxSlots : sims \in [0..m - 1 -> Sim]
  BY DEF TableInv, TableTypeOK
<1>1. CASE \E to \in Requests : default_sim_set(to)
  BY <1>1, SetDefaultSimHolds
<1>2. CASE \E n \in DOMAIN sims, label \in Label \cup {NoLabel} : sim_name_set(n, label)
  BY <1>2, SetSimNameHolds
<1>3. ASSUME NEW n \in DOMAIN sims, sim_prop_changed(n)
      PROVE  TableInv'
  <2>1. /\ sims[n] \in Sim /\ sims[n].present \in BOOLEAN
        /\ sims[n].iccid \in Iccid \cup {NoIccid}
    BY <1>0 DEF Sim
  <2>2. PICK s \in Sim : sims' = [sims EXCEPT ![n] = s]
    BY <1>3, <2>1, SlotToldIsSim DEF sim_prop_changed, TableInv
  <2>3. sims' \in [0..m - 1 -> Sim] /\ unread' \subseteq DOMAIN sims'
    BY <1>0, <1>3, <2>2 DEF sim_prop_changed, TableInv, TableTypeOK
  <2>. QED
    BY <1>3, <2>3, RecomputeKeepsChoice DEF sim_prop_changed
<1>4. ASSUME NEW count \in 0..MaxSlots, NEW moved \in SUBSET SlotId, modems_changed(count, moved)
      PROVE  TableInv'
  <2>1. ASSUME NEW k \in 0..count - 1
        PROVE  sims'[k] \in Sim
    <3>1. CASE k \notin DOMAIN sims
      BY <1>4, <2>1, <3>1 DEF modems_changed, sim_state_new, Sim
    <3>2. CASE k \in DOMAIN sims
      <4>1. /\ sims[k] \in Sim /\ sims[k].present \in BOOLEAN
            /\ sims[k].iccid \in Iccid \cup {NoIccid}
        BY <1>0, <3>2 DEF Sim
      <4>2. /\ sim_info_changed(sims[k], sims[k].present, sims[k].iccid) \in Sim
            /\ sim_info_changed(sims[k], FALSE, NoIccid) \in Sim
        BY <4>1, SlotToldIsSim DEF TableInv
      <4>. QED
        BY <1>4, <2>1, <3>2, <4>2 DEF modems_changed
    <3>. QED
      BY <3>1, <3>2
  <2>2. sims' \in [0..count - 1 -> Sim]
    BY <1>4, <2>1 DEF modems_changed
  <2>. QED
    BY <1>4, <2>2, RecomputeKeepsChoice DEF modems_changed
<1>5. CASE telephony_service_create
  <2>1. 0 \in 0..MaxSlots /\ sims' \in [0..0 - 1 -> Sim]
    BY <1>5, SimTableAssumption DEF telephony_service_create
  <2>2. /\ default_sim_iccid' \in Choice /\ default_sim_iccid' = chosen'
        /\ sim_names' \in SimNames /\ UNCHANGED <<settings, chosen>>
    BY <1>5
    DEF TableInv, TableTypeOK, ChoiceIsStored, telephony_service_create,
        load_default_sim_preferences, load_sim_names
  <2>3. /\ default_sim' \in [Role -> DOMAIN sims' \cup {NoSlot}]
        /\ data_sim_id' \in SlotId \cup {NoSlot} /\ unread' \subseteq DOMAIN sims'
    BY <1>5, SimTableAssumption DEF telephony_service_create, Nowhere, SlotId, NoSlot
  <2>4. TableTypeOK' /\ ChoiceIsStored'
    BY <2>1, <2>2, <2>3 DEF TableInv, TableTypeOK, ChoiceIsStored
  <2>5. RoleIsNamed'
    BY <1>5, SimTableAssumption DEF telephony_service_create, RoleIsNamed, Naming, Nowhere
  <2>. QED
    BY <2>4, <2>5 DEF TableInv
<1>6. CASE UNCHANGED tableVars
  BY <1>6 DEF tableVars, TableInv, TableTypeOK, ChoiceIsStored, RoleIsNamed, Naming
<1>. QED
  BY <1>1, <1>2, <1>3, <1>4, <1>5, <1>6 DEF TableNext

(* The invariant holds of every behaviour.                                 *)
LEMMA TableInvariant == TableSpec => []TableInv
BY TableInitHolds, TableStepHolds, PTL DEF TableSpec

(* The table of slots keeps its type: the slots that serve exist.          *)
THEOREM TableIsWellTyped == TableSpec => []TableTypeOK
<1>1. TableInv => TableTypeOK
  BY DEF TableInv
<1>. QED
  BY <1>1, TableInvariant, PTL

(* telephonyservice_simmgmt.c: the card that was chosen for a role serves  *)
(* it, in whatever slot it is, once no slot that it has been taken out of  *)
(* names it still; and packet data uses the slot that serves it.           *)
THEOREM ChoiceFollows == TableSpec => []ChoiceFollowsCard
<1>1. TableInv => ChoiceFollowsCard
  BY DEF TableInv, RoleIsNamed, ChoiceFollowsCard, Having
<1>. QED
  BY <1>1, TableInvariant, PTL
=============================================================================
