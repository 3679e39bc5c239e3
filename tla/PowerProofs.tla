---------------------------- MODULE PowerProofs ----------------------------
(***************************************************************************)
(* Proofs about Power, for any finite set of slots and any number of       *)
(* requests, errors, restarts and losses of power.                         *)
(***************************************************************************)
EXTENDS Power, FiniteSetTheorems, TLAPS

(* The owner of a call or a reply: a request, or nobody.                   *)
Owner == {Nobody} \cup 1..MaxRequests

CallRecord == [kind: {"get", "Online", "Powered"}, value: BOOLEAN, owner: Owner, lost: BOOLEAN]
MessageRecord ==
  [kind: {"Online", "Powered", "OnlineReply", "PoweredReply"}, value: BOOLEAN, owner: Owner]
    \cup [kind: {"Properties"}, value: ModemStates, owner: Owner]

(* What a callback of the driver still waits for: a call that switches,    *)
(* unless the daemon that made it is gone, and its reply.                  *)
Switching == {c \in CallRecord : c.kind # "get" /\ ~c.lost}
Answering == {m \in MessageRecord : m.kind \in {"OnlineReply", "PoweredReply"}}

Open(q, K)   == {i \in DOMAIN q : q[i] \in K}
Owners(q, K) == {q[i].owner : i \in Open(q, K)}
One(q, K)    == \A i, j \in Open(q, K) : i = j

-----------------------------------------------------------------------------
(***************************************************************************)
(* Queues of calls and messages.                                           *)
(***************************************************************************)
(* Nothing of the kind is in it, so nobody waits.                          *)
LEMMA NoneOpen ==
  ASSUME NEW K, NEW q, Open(q, K) = {}
  PROVE  Owners(q, K) = {} /\ One(q, K)
BY DEF Owners, One

(* Something of another kind is added.                                     *)
LEMMA AddOther ==
  ASSUME NEW S, NEW K, NEW q \in Seq(S), NEW x \in S, x \notin K
  PROVE  /\ Append(q, x) \in Seq(S) /\ Open(Append(q, x), K) = Open(q, K)
         /\ Owners(Append(q, x), K) = Owners(q, K) /\ (One(q, K) => One(Append(q, x), K))
<1>. DEFINE p == Append(q, x)
<1>1. /\ p \in Seq(S) /\ Len(q) \in Nat /\ DOMAIN q = 1..Len(q) /\ DOMAIN p = 1..(Len(q) + 1)
      /\ p[Len(q) + 1] = x /\ \A i \in DOMAIN q : i \in DOMAIN p /\ p[i] = q[i]
  OBVIOUS
<1>. HIDE DEF p
<1>2. Open(p, K) = Open(q, K)
  BY <1>1 DEF Open
<1>3. \A i \in Open(q, K) : p[i] = q[i]
  BY <1>1 DEF Open
<1>4. Owners(p, K) = Owners(q, K)
  BY <1>2, <1>3 DEF Owners
<1>. QED
  BY <1>1, <1>2, <1>4 DEF p, One

(* The first of the kind is added.                                         *)
LEMMA AddOpen ==
  ASSUME NEW S, NEW K, NEW q \in Seq(S), NEW x \in S, x \in K, Open(q, K) = {}
  PROVE  /\ Append(q, x) \in Seq(S) /\ Open(Append(q, x), K) # {}
         /\ Owners(Append(q, x), K) = {x.owner} /\ One(Append(q, x), K)
<1>. DEFINE p == Append(q, x)
<1>1. /\ p \in Seq(S) /\ Len(q) \in Nat /\ DOMAIN q = 1..Len(q) /\ DOMAIN p = 1..(Len(q) + 1)
      /\ p[Len(q) + 1] = x /\ \A i \in DOMAIN q : i \in DOMAIN p /\ p[i] = q[i]
  OBVIOUS
<1>. HIDE DEF p
<1>2. Open(p, K) = {Len(q) + 1}
  BY <1>1 DEF Open
<1>3. Owners(p, K) = {x.owner} /\ One(p, K)
  BY <1>1, <1>2 DEF Owners, One
<1>. QED
  BY <1>1, <1>2, <1>3 DEF p

(* The first element goes, and it is of another kind.                      *)
LEMMA TakeOther ==
  ASSUME NEW S, NEW K, NEW q \in Seq(S), q # <<>>, Head(q) \notin K
  PROVE  /\ Tail(q) \in Seq(S) /\ Owners(Tail(q), K) = Owners(q, K)
         /\ (One(q, K) => One(Tail(q), K)) /\ (Open(Tail(q), K) = {} <=> Open(q, K) = {})
<1>. DEFINE p == Tail(q)
<1>1. /\ p \in Seq(S) /\ Len(q) \in Nat \ {0} /\ DOMAIN q = 1..Len(q) /\ DOMAIN p = 1..(Len(q) - 1)
      /\ q[1] = Head(q) /\ \A i \in DOMAIN p : p[i] = q[i + 1]
  OBVIOUS
<1>. HIDE DEF p
<1>2. \A i \in Open(p, K) : i \in Nat /\ i + 1 \in Open(q, K) /\ p[i] = q[i + 1]
  BY <1>1 DEF Open
<1>3. \A i \in Open(q, K) : i \in Nat /\ i - 1 \in Open(p, K) /\ p[i - 1] = q[i]
  BY <1>1 DEF Open
<1>4. Owners(p, K) = Owners(q, K)
  BY <1>2, <1>3 DEF Owners
<1>5. One(q, K) => One(p, K)
  <2>1. SUFFICES ASSUME One(q, K), NEW i \in Open(p, K), NEW j \in Open(p, K)
                 PROVE  i = j
    BY DEF One
  <2>2. i + 1 = j + 1 /\ i \in Nat /\ j \in Nat
    BY <1>2, <2>1 DEF One
  <2>. QED
    BY <2>2
<1>6. Open(p, K) = {} <=> Open(q, K) = {}
  BY <1>2, <1>3
<1>. QED
  BY <1>1, <1>4, <1>5, <1>6 DEF p

(* The first element goes, and it was the one of the kind.                 *)
LEMMA TakeOpen ==
  ASSUME NEW S, NEW K, NEW q \in Seq(S), q # <<>>, Head(q) \in K, One(q, K)
  PROVE  /\ Tail(q) \in Seq(S) /\ Open(Tail(q), K) = {}
         /\ Open(q, K) # {} /\ Owners(q, K) = {Head(q).owner}
<1>. DEFINE p == Tail(q)
<1>1. /\ p \in Seq(S) /\ Len(q) \in Nat \ {0} /\ DOMAIN q = 1..Len(q) /\ DOMAIN p = 1..(Len(q) - 1)
      /\ q[1] = Head(q) /\ \A i \in DOMAIN p : p[i] = q[i + 1]
  OBVIOUS
<1>. HIDE DEF p
<1>2. 1 \in Open(q, K) /\ \A i \in Open(q, K) : i = 1
  BY <1>1 DEF Open, One
<1>3. Open(p, K) = {}
  <2>1. ASSUME NEW i \in Open(p, K)
        PROVE  FALSE
    <3>1. i \in Nat /\ i >= 1 /\ i + 1 \in Open(q, K)
      BY <1>1 DEF Open
    <3>2. i + 1 = 1
      BY <1>2, <3>1
    <3>. QED
      BY <3>1, <3>2
  <2>. QED
    BY <2>1
<1>4. Owners(q, K) = {Head(q).owner}
  BY <1>1, <1>2 DEF Owners
<1>. QED
  BY <1>1, <1>2, <1>3, <1>4 DEF p

-----------------------------------------------------------------------------
(***************************************************************************)
(* One slot: d is the driver's, p the service's, calls go to its modem and *)
(* messages come from it.  At most one switch is under way; the driver's   *)
(* marker says whether, and the service's only of one that it will hear    *)
(* the end of.                                                             *)
(***************************************************************************)
Holders(calls, messages) == Owners(calls, Switching) \cup Owners(messages, Answering)

SlotOK(d, p, calls, messages) ==
  /\ calls \in Seq(CallRecord) /\ messages \in Seq(MessageRecord)
  /\ One(calls, Switching) /\ One(messages, Answering)
  /\ Open(calls, Switching) = {} \/ Open(messages, Answering) = {}
  /\ d.power_set_pending <=> Open(calls, Switching) # {} \/ Open(messages, Answering) # {}
  /\ p.power_off_pending => d.power_set_pending /\ Nobody \notin Holders(calls, messages)
  /\ p.initialized => p.there
  /\ ~p.there => messages = <<>> /\ \A i \in DOMAIN calls : calls[i].lost
  /\ \A i \in DOMAIN calls : calls[i] \in Switching \/ calls[i].owner = Nobody

SimRecord == [there: BOOLEAN, initialized: BOOLEAN, powered: BOOLEAN, power_off_pending: BOOLEAN]
OdRecord  == [initializing: BOOLEAN, power_set_pending: BOOLEAN, power_target: BOOLEAN]
ObjRecord == [powered: BOOLEAN, online: BOOLEAN]

(* Nobody, or one, waits for a slot.                                       *)
LEMMA OneHolder ==
  ASSUME NEW d, NEW p, NEW calls, NEW messages, SlotOK(d, p, calls, messages)
  PROVE  /\ ~d.power_set_pending => Holders(calls, messages) = {}
         /\ \A a, b \in Holders(calls, messages) : a = b
<1>1. \A a, b \in Owners(calls, Switching) : a = b
  BY DEF SlotOK, One, Owners
<1>2. \A a, b \in Owners(messages, Answering) : a = b
  BY DEF SlotOK, One, Owners
<1>3. Open(calls, Switching) = {} => Owners(calls, Switching) = {}
  BY NoneOpen
<1>4. Open(messages, Answering) = {} => Owners(messages, Answering) = {}
  BY NoneOpen
<1>. QED
  BY <1>1, <1>2, <1>3, <1>4 DEF SlotOK, Holders

(* ofono_power_set on a slot that is there: it answers at once and leaves  *)
(* everything as it was, or it is the one switch of the slot now.          *)
LEMMA SwitchSlot ==
  ASSUME NEW d \in OdRecord, NEW p, NEW q, NEW calls, NEW messages,
         SlotOK(d, p, calls, messages), p.there, q.there,
         NEW o \in ObjRecord, NEW on \in BOOLEAN, NEW owner \in Owner,
         q.power_off_pending => p.power_off_pending \/ (owner # Nobody /\ ~AtOnce(d, o, on))
  PROVE  /\ SlotOK(ofono_power_set(d, o, on), q, calls \o FirstCalls(d, o, on, owner), messages)
         /\ Holders(calls \o FirstCalls(d, o, on, owner), messages)
              = IF AtOnce(d, o, on) THEN Holders(calls, messages) ELSE {owner}
         /\ ~AtOnce(d, o, on) => Holders(calls, messages) = {}
<1>. calls \in Seq(CallRecord)
  BY DEF SlotOK
<1>1. CASE AtOnce(d, o, on)
  <2>1. calls \o FirstCalls(d, o, on, owner) = calls
    BY <1>1 DEF FirstCalls
  <2>2. ofono_power_set(d, o, on).power_set_pending <=> d.power_set_pending
    BY <1>1 DEF ofono_power_set, AtOnce, OdRecord
  <2>3. SlotOK(ofono_power_set(d, o, on), q, calls, messages)
    BY <1>1, <2>2 DEF SlotOK
  <2>. QED
    BY <1>1, <2>1, <2>3
<1>2. CASE ~AtOnce(d, o, on)
  <2>. DEFINE c == Call(IF o.powered THEN "Online" ELSE "Powered", on, owner)
  <2>1. c \in CallRecord /\ c \in Switching /\ c.owner = owner /\ ~c.lost
    BY DEF Call, CallRecord, Switching
  <2>2. FirstCalls(d, o, on, owner) = <<c>>
    BY <1>2 DEF FirstCalls
  <2>3. ~d.power_set_pending /\ ofono_power_set(d, o, on).power_set_pending
    BY <1>2 DEF ofono_power_set, AtOnce, OdRecord
  <2>. HIDE DEF c
  <2>4. Open(calls, Switching) = {} /\ Open(messages, Answering) = {}
    BY <2>3 DEF SlotOK
  <2>5. calls \o <<c>> = Append(calls, c)
    BY <2>1
  <2>. DEFINE cc == Append(calls, c)
  <2>6. cc \in Seq(CallRecord) /\ Open(cc, Switching) # {} /\ Owners(cc, Switching) = {owner}
        /\ One(cc, Switching)
    BY <2>1, <2>4, AddOpen
  <2>7. \A i \in DOMAIN cc : cc[i] \in Switching \/ cc[i].owner = Nobody
    BY <2>1 DEF SlotOK
  <2>. HIDE DEF cc
  <2>8. Holders(cc, messages) = {owner}
    BY <2>4, <2>6, NoneOpen DEF Holders
  <2>9. SlotOK(ofono_power_set(d, o, on), q, cc, messages)
    BY <2>3, <2>4, <2>6, <2>7, <2>8 DEF SlotOK
  <2>10. Holders(calls, messages) = {}
    BY <2>3, OneHolder
  <2>. QED
    BY <1>2, <2>2, <2>5, <2>8, <2>9, <2>10 DEF cc
<1>. QED
  BY <1>1, <1>2

(* Something else is said by the modem, and the service or the driver      *)
(* changes what has nothing to do with switching.                          *)
LEMMA Told ==
  ASSUME NEW d, NEW p, NEW calls, NEW messages, SlotOK(d, p, calls, messages),
         p.there, NEW m \in MessageRecord, m \notin Answering
  PROVE  /\ SlotOK(d, p, calls, Append(messages, m))
         /\ Holders(calls, Append(messages, m)) = Holders(calls, messages)
<1>. DEFINE mm == Append(messages, m)
<1>. messages \in Seq(MessageRecord)
  BY DEF SlotOK
<1>1. /\ mm \in Seq(MessageRecord) /\ Open(mm, Answering) = Open(messages, Answering)
      /\ Owners(mm, Answering) = Owners(messages, Answering)
      /\ One(messages, Answering) => One(mm, Answering)
  BY AddOther
<1>. HIDE DEF mm
<1>2. Holders(calls, mm) = Holders(calls, messages)
  BY <1>1 DEF Holders
<1>3. SlotOK(d, p, calls, mm)
  BY <1>1, <1>2 DEF SlotOK
<1>. QED
  BY <1>2, <1>3 DEF mm

(* Something else said by the modem is handled.                            *)
LEMMA Heard ==
  ASSUME NEW d, NEW p, NEW calls, NEW messages, SlotOK(d, p, calls, messages),
         messages # <<>>, Head(messages) \notin Answering
  PROVE  /\ p.there
         /\ SlotOK(d, p, calls, Tail(messages))
         /\ Holders(calls, Tail(messages)) = Holders(calls, messages)
<1>. DEFINE mm == Tail(messages)
<1>. messages \in Seq(MessageRecord)
  BY DEF SlotOK
<1>1. /\ mm \in Seq(MessageRecord) /\ (Open(mm, Answering) = {} <=> Open(messages, Answering) = {})
      /\ Owners(mm, Answering) = Owners(messages, Answering)
      /\ One(messages, Answering) => One(mm, Answering)
  BY TakeOther
<1>. HIDE DEF mm
<1>2. Holders(calls, mm) = Holders(calls, messages)
  BY <1>1 DEF Holders
<1>3. p.there
  BY DEF SlotOK
<1>4. SlotOK(d, p, calls, mm)
  BY <1>1, <1>2, <1>3 DEF SlotOK
<1>. QED
  BY <1>2, <1>3, <1>4 DEF mm

(* The reply is handled: nothing is under way any more.                    *)
LEMMA Answered ==
  ASSUME NEW d, NEW p, NEW calls, NEW messages, SlotOK(d, p, calls, messages),
         messages # <<>>, Head(messages) \in Answering
  PROVE  /\ p.there /\ Holders(calls, messages) = {Head(messages).owner}
         /\ Head(messages).owner \in Owner /\ d.power_set_pending
         /\ Tail(messages) \in Seq(MessageRecord)
         /\ Open(calls, Switching) = {} /\ Open(Tail(messages), Answering) = {}
         /\ Holders(calls, Tail(messages)) = {}
         /\ \A e, q : ~e.power_set_pending /\ ~q.power_off_pending /\ q.there
                       => SlotOK(e, q, calls, Tail(messages))
<1>. DEFINE mm == Tail(messages)
<1>. messages \in Seq(MessageRecord)
  BY DEF SlotOK
<1>1. /\ mm \in Seq(MessageRecord) /\ Open(mm, Answering) = {}
      /\ Open(messages, Answering) # {} /\ Owners(messages, Answering) = {Head(messages).owner}
  BY TakeOpen DEF SlotOK
<1>. HIDE DEF mm
<1>2. Open(calls, Switching) = {} /\ d.power_set_pending /\ p.there
  BY <1>1 DEF SlotOK
<1>3. Owners(calls, Switching) = {} /\ Owners(mm, Answering) = {} /\ One(mm, Answering)
  BY <1>1, <1>2, NoneOpen
<1>4. Holders(calls, messages) = {Head(messages).owner} /\ Holders(calls, mm) = {}
  BY <1>1, <1>3 DEF Holders
<1>5. Head(messages).owner \in Owner
  <2>1. Head(messages) \in MessageRecord
    BY DEF Answering
  <2>. QED
    BY <2>1 DEF MessageRecord
<1>6. ASSUME NEW e, NEW q, ~e.power_set_pending, ~q.power_off_pending, q.there
      PROVE  SlotOK(e, q, calls, mm)
  BY <1>1, <1>2, <1>3, <1>6 DEF SlotOK
<1>. QED
  BY <1>1, <1>2, <1>4, <1>5, <1>6 DEF mm

(* A call that switches nothing reaches the modem.                         *)
LEMMA OtherCallTaken ==
  ASSUME NEW d, NEW p, NEW calls, NEW messages, SlotOK(d, p, calls, messages),
         calls # <<>>, Head(calls) \notin Switching
  PROVE  /\ SlotOK(d, p, Tail(calls), messages)
         /\ Holders(Tail(calls), messages) = Holders(calls, messages)
<1>. DEFINE cc == Tail(calls)
<1>. calls \in Seq(CallRecord)
  BY DEF SlotOK
<1>1. /\ cc \in Seq(CallRecord) /\ (Open(cc, Switching) = {} <=> Open(calls, Switching) = {})
      /\ Owners(cc, Switching) = Owners(calls, Switching)
      /\ One(calls, Switching) => One(cc, Switching)
  BY TakeOther
<1>2. \A i \in DOMAIN cc : i + 1 \in DOMAIN calls /\ cc[i] = calls[i + 1]
  OBVIOUS
<1>. HIDE DEF cc
<1>3. Holders(cc, messages) = Holders(calls, messages)
  BY <1>1 DEF Holders
<1>4. SlotOK(d, p, cc, messages)
  BY <1>1, <1>2, <1>3 DEF SlotOK
<1>. QED
  BY <1>3, <1>4 DEF cc

(* The call that switches reaches the modem and is replied to.             *)
LEMMA CallAnswered ==
  ASSUME NEW d, NEW p, NEW calls, NEW messages, SlotOK(d, p, calls, messages),
         calls # <<>>, Head(calls) \in Switching,
         NEW m \in Answering, m.owner = Head(calls).owner
  PROVE  /\ p.there
         /\ SlotOK(d, p, Tail(calls), Append(messages, m))
         /\ Holders(Tail(calls), Append(messages, m)) = Holders(calls, messages)
<1>. DEFINE cc == Tail(calls)
            mm == Append(messages, m)
<1>. calls \in Seq(CallRecord) /\ messages \in Seq(MessageRecord) /\ m \in MessageRecord
  BY DEF SlotOK, Answering
<1>1. /\ cc \in Seq(CallRecord) /\ Open(cc, Switching) = {}
      /\ Open(calls, Switching) # {} /\ Owners(calls, Switching) = {m.owner}
  BY TakeOpen DEF SlotOK
<1>2. Open(messages, Answering) = {} /\ d.power_set_pending
  BY <1>1 DEF SlotOK
<1>3. /\ mm \in Seq(MessageRecord) /\ Open(mm, Answering) # {}
      /\ Owners(mm, Answering) = {m.owner} /\ One(mm, Answering)
  BY <1>2, AddOpen
<1>4. \A i \in DOMAIN cc : i + 1 \in DOMAIN calls /\ cc[i] = calls[i + 1]
  OBVIOUS
<1>. HIDE DEF cc, mm
<1>5. Owners(cc, Switching) = {} /\ One(cc, Switching) /\ Owners(messages, Answering) = {}
  BY <1>1, <1>2, NoneOpen
<1>6. Holders(cc, mm) = Holders(calls, messages)
  BY <1>1, <1>3, <1>5 DEF Holders
<1>7. p.there
  <2>1. ~Head(calls).lost /\ Head(calls) = calls[1] /\ 1 \in DOMAIN calls
    BY DEF Switching
  <2>. QED
    BY <2>1 DEF SlotOK
<1>8. SlotOK(d, p, cc, mm)
  BY <1>1, <1>2, <1>3, <1>4, <1>5, <1>6, <1>7 DEF SlotOK
<1>. QED
  BY <1>6, <1>7, <1>8 DEF cc, mm

(* A slot that is gone: the calls of a daemon that died may still be on    *)
(* their way, nobody waits for them.                                       *)
LEMMA GoneSlot ==
  ASSUME NEW d, NEW p, NEW calls, NEW messages, SlotOK(d, p, calls, messages), ~p.there
  PROVE  /\ Open(calls, Switching) = {} /\ messages = <<>> /\ Open(messages, Answering) = {}
         /\ Holders(calls, messages) = {}
<1>1. Open(calls, Switching) = {} /\ messages = <<>> /\ Open(messages, Answering) = {}
  BY DEF SlotOK, Open, Switching
<1>. QED
  BY <1>1, NoneOpen DEF Holders

-----------------------------------------------------------------------------
(***************************************************************************)
(* The invariant: as many answers are due to a request as there are slots  *)
(* that switch for it, or whose call for it is being cancelled.            *)
(***************************************************************************)
Switchers == {"power", "airplane", "ground"}

RequestRecord == [kind: Switchers \cup {"none", "lost"}, pending: Nat, failed: BOOLEAN,
                  answers: Nat]

Shape ==
  /\ stored \in [Slot -> {"unset", "on", "off"}]
  /\ device \in BOOLEAN /\ stored_airplane \in BOOLEAN
  /\ airplane_mode \in BOOLEAN
  /\ sim \in [Slot -> SimRecord] /\ od \in [Slot -> OdRecord] /\ mdm \in [Slot -> ObjRecord]
  /\ radio \in [Slot -> ModemStates]
  /\ toModem \in [Slot -> Seq(CallRecord)] /\ news \in [Slot -> Seq(MessageRecord)]
  /\ cancelled \subseteq [slot: Slot, owner: Owner]
  /\ req \in [1..MaxRequests -> RequestRecord]

SlotsOK == \A s \in Slot : SlotOK(od[s], sim[s], toModem[s], news[s])

(* A call is cancelled with its slot, and slots come back only when the    *)
(* callbacks have run.                                                     *)
CancelledGone == cancelled # {} => \A s \in Slot : ~sim[s].there

Held(r) ==
  {s \in Slot : r \in Holders(toModem[s], news[s]) \/ [slot |-> s, owner |-> r] \in cancelled}

RequestOK(r) ==
  /\ req[r].pending = Cardinality(Held(r))
  /\ req[r].pending > 0 => req[r].kind \in Switchers
  /\ req[r].answers = IF req[r].pending = 0 /\ req[r].kind \notin {"none", "lost"} THEN 1 ELSE 0

RequestsOK == \A r \in 1..MaxRequests : RequestOK(r)

(* The requests are made in the order of their numbers.                    *)
InOrder == \E n \in 0..MaxRequests : \A r \in 1..MaxRequests : req[r].kind # "none" <=> r <= n

PInv == Shape /\ SlotsOK /\ CancelledGone /\ RequestsOK /\ InOrder

(* Finitely many slots hold a request.                                     *)
LEMMA HeldFinite ==
  ASSUME NEW r
  PROVE  IsFiniteSet(Held(r)) /\ Cardinality(Held(r)) \in Nat
<1>1. Held(r) \subseteq Slot
  BY DEF Held
<1>. QED
  BY <1>1, PowerAssumption, FS_Subset, FS_CardinalityType

(* No request ends in the step.                                            *)
LEMMA NobodyAnswered ==
  ASSUME PInv, req' = req,
         \A s \in Slot : Holders(toModem'[s], news'[s]) = Holders(toModem[s], news[s]),
         cancelled' = cancelled
  PROVE  RequestsOK' /\ InOrder'
<1>1. \A r \in 1..MaxRequests : Held(r)' = Held(r)
  BY DEF Held
<1>2. RequestsOK'
  BY <1>1 DEF PInv, RequestsOK, RequestOK
<1>. QED
  BY <1>2 DEF PInv, InOrder

(* A slot has switched for request r, or failed to.                        *)
LEMMA SlotAnswers ==
  ASSUME PInv, NEW r \in 1..MaxRequests, NEW s \in Held(r), Held(r)' = Held(r) \ {s},
         \A q \in 1..MaxRequests : q # r => Held(q)' = Held(q),
         NEW ok, req' = [req EXCEPT ![r] = HasAnswered(@, ok)]
  PROVE  RequestsOK' /\ InOrder' /\ req' \in [1..MaxRequests -> RequestRecord]
<1>1. Cardinality(Held(r) \ {s}) = Cardinality(Held(r)) - 1
  BY HeldFinite, FS_RemoveElement
<1>2. Cardinality(Held(r) \ {s}) \in Nat
  BY HeldFinite, FS_RemoveElement, FS_CardinalityType
<1>3. RequestOK(r) /\ req \in [1..MaxRequests -> RequestRecord] /\ req[r] \in RequestRecord
  BY DEF PInv, RequestsOK, Shape
<1>4. req[r].pending - 1 \in Nat
  BY <1>1, <1>2, <1>3 DEF RequestOK
<1>5. HasAnswered(req[r], ok) =
        [kind |-> req[r].kind, pending |-> req[r].pending - 1, failed |-> (req[r].failed \/ ~ok),
         answers |-> req[r].answers + (IF req[r].pending = 1 THEN 1 ELSE 0)]
  BY DEF HasAnswered
<1>6. HasAnswered(req[r], ok) \in RequestRecord
  <2>1. /\ req[r].answers + (IF req[r].pending = 1 THEN 1 ELSE 0) \in Nat
        /\ req[r].kind \in Switchers \cup {"none", "lost"}
    BY <1>3 DEF RequestRecord
  <2>2. (req[r].failed \/ ~ok) \in BOOLEAN
    OBVIOUS
  <2>. QED
    BY <1>4, <1>5, <2>1, <2>2 DEF RequestRecord
<1>7. /\ req' \in [1..MaxRequests -> RequestRecord]
      /\ req'[r] = HasAnswered(req[r], ok) /\ \A q \in 1..MaxRequests : q # r => req'[q] = req[q]
  BY <1>3, <1>6
<1>8. /\ req'[r].kind = req[r].kind /\ req'[r].pending = req[r].pending - 1
      /\ req'[r].answers = req[r].answers + (IF req[r].pending = 1 THEN 1 ELSE 0)
  BY <1>5, <1>7
<1>9. RequestOK(r)'
  <2>1. req[r].pending \in Nat /\ req[r].pending > 0
    BY <1>3, <1>4 DEF RequestRecord
  <2>. QED
    BY <1>1, <1>3, <1>4, <1>8, <2>1 DEF RequestOK, Switchers
<1>10. \A q \in 1..MaxRequests : q # r => RequestOK(q)'
  BY <1>7 DEF PInv, RequestsOK, RequestOK
<1>11. RequestsOK'
  BY <1>9, <1>10 DEF RequestsOK
<1>12. InOrder'
  <2>1. \A q \in 1..MaxRequests : req'[q].kind = req[q].kind
    BY <1>7, <1>8
  <2>. QED
    BY <2>1 DEF PInv, InOrder
<1>. QED
  BY <1>7, <1>11, <1>12

(* The callback of the driver's call runs.                                 *)
LEMMA FinishStep ==
  ASSUME PInv, NEW s \in Slot, news[s] # <<>>, Head(news[s]) \in Answering,
         news' = [news EXCEPT ![s] = Tail(@)],
         od' = [od EXCEPT ![s].power_set_pending = FALSE],
         NEW ok, Finish(s, Head(news[s]).owner, ok),
         UNCHANGED <<settings, airplane_mode, mdm, radio, toModem, cancelled>>
  PROVE  PInv'
<1>0. PICK o : o = Head(news[s]).owner
  OBVIOUS
<1>1. SlotOK(od[s], sim[s], toModem[s], news[s])
  BY DEF PInv, SlotsOK
<1>2. /\ sim[s].there /\ Holders(toModem[s], news[s]) = {o} /\ o \in Owner
      /\ od[s].power_set_pending /\ Tail(news[s]) \in Seq(MessageRecord)
      /\ Holders(toModem[s], Tail(news[s])) = {}
      /\ \A e, q : ~e.power_set_pending /\ ~q.power_off_pending /\ q.there
                    => SlotOK(e, q, toModem[s], Tail(news[s]))
  BY <1>0, <1>1, Answered
<1>3. /\ news' \in [Slot -> Seq(MessageRecord)] /\ news'[s] = Tail(news[s])
      /\ \A u \in Slot : u # s => news'[u] = news[u]
  BY <1>2 DEF PInv, Shape
<1>4. /\ od' \in [Slot -> OdRecord] /\ ~od'[s].power_set_pending
      /\ \A u \in Slot : u # s => od'[u] = od[u]
  BY DEF PInv, Shape, OdRecord
<1>5. \A u \in Slot : u # s => Holders(toModem'[u], news'[u]) = Holders(toModem[u], news[u])
  BY <1>3
<1>6. Holders(toModem'[s], news'[s]) = {}
  BY <1>2, <1>3
<1>7. cancelled = {}
  BY <1>2 DEF PInv, CancelledGone
<1>8. CASE o = Nobody
  <2>1. UNCHANGED <<sim, req>>
    BY <1>0, <1>8 DEF Finish
  <2>2. ~sim[s].power_off_pending
    BY <1>1, <1>2, <1>8 DEF SlotOK
  <2>3. SlotsOK'
    BY <1>2, <1>3, <1>4, <2>1, <2>2 DEF PInv, SlotsOK
  <2>4. \A r \in 1..MaxRequests : r # Nobody
    BY DEF Nobody
  <2>5. \A r \in 1..MaxRequests : Held(r)' = Held(r)
    BY <1>2, <1>5, <1>6, <1>8, <2>4 DEF Held
  <2>6. RequestsOK'
    BY <2>1, <2>5 DEF PInv, RequestsOK, RequestOK
  <2>7. InOrder' /\ CancelledGone'
    BY <2>1 DEF PInv, InOrder, CancelledGone
  <2>8. Shape'
    BY <1>3, <1>4, <2>1 DEF PInv, Shape, settings
  <2>. QED
    BY <2>3, <2>6, <2>7, <2>8 DEF PInv
<1>9. CASE o # Nobody
  <2>1. o \in 1..MaxRequests
    BY <1>2, <1>9 DEF Owner
  <2>2. req' = [req EXCEPT ![o] = HasAnswered(@, ok)] /\ sim' = [sim EXCEPT ![s].power_off_pending = FALSE]
    BY <1>0, <1>9 DEF Finish
  <2>3. /\ sim' \in [Slot -> SimRecord] /\ ~sim'[s].power_off_pending /\ sim'[s].there
        /\ \A u \in Slot : u # s => sim'[u] = sim[u]
    BY <1>2, <2>2 DEF PInv, Shape, SimRecord
  <2>4. SlotsOK'
    BY <1>2, <1>3, <1>4, <2>3 DEF PInv, SlotsOK
  <2>5. cancelled' = {}
    BY <1>7
  <2>6. s \in Held(o) /\ Held(o)' = Held(o) \ {s}
    <3>1. \A u \in Slot : u \in Held(o) <=> o \in Holders(toModem[u], news[u])
      BY <1>7 DEF Held
    <3>2. \A u \in Slot : u \in Held(o)' <=> o \in Holders(toModem'[u], news'[u])
      BY <2>5 DEF Held
    <3>3. Held(o) \subseteq Slot /\ Held(o)' \subseteq Slot
      BY DEF Held
    <3>4. s \in Held(o) /\ s \notin Held(o)'
      BY <1>2, <1>6, <3>1, <3>2
    <3>5. \A u \in Slot : u # s => (u \in Held(o)' <=> u \in Held(o))
      BY <1>5, <3>1, <3>2
    <3>. QED
      BY <3>3, <3>4, <3>5
  <2>7. \A r \in 1..MaxRequests : r # o => Held(r)' = Held(r)
    BY <1>2, <1>5, <1>6, <1>7 DEF Held
  <2>8. RequestsOK' /\ InOrder' /\ req' \in [1..MaxRequests -> RequestRecord]
    BY <2>1, <2>2, <2>6, <2>7, SlotAnswers
  <2>9. CancelledGone'
    BY <1>7 DEF CancelledGone
  <2>10. Shape'
    BY <1>3, <1>4, <2>3, <2>8 DEF PInv, Shape, settings
  <2>. QED
    BY <2>4, <2>8, <2>9, <2>10 DEF PInv
<1>. QED
  BY <1>8, <1>9

(* What SlotOK reads of the two slots.                                     *)
LEMMA SameSlot ==
  ASSUME NEW d, NEW p, NEW e, NEW q, NEW calls, NEW messages, SlotOK(d, p, calls, messages),
         e.power_set_pending <=> d.power_set_pending,
         q.power_off_pending => p.power_off_pending,
         q.there <=> p.there, q.initialized => q.there
  PROVE  SlotOK(e, q, calls, messages)
BY DEF SlotOK

(* One slot changes, and who waits for it stays the same.                  *)
LEMMA OneSlotChanges ==
  ASSUME PInv, Shape', NEW s \in Slot,
         SlotOK(od'[s], sim'[s], toModem'[s], news'[s]), sim'[s].there = sim[s].there,
         \A r \in 1..MaxRequests :
           r \in Holders(toModem'[s], news'[s]) <=> r \in Holders(toModem[s], news[s]),
         \A u \in Slot : u # s => /\ od'[u] = od[u] /\ sim'[u] = sim[u]
                                  /\ toModem'[u] = toModem[u] /\ news'[u] = news[u],
         cancelled' = cancelled, req' = req
  PROVE  PInv'
<1>1. SlotsOK'
  BY DEF PInv, SlotsOK
<1>2. CancelledGone'
  BY DEF PInv, CancelledGone
<1>3. \A r \in 1..MaxRequests : Held(r)' = Held(r)
  BY DEF Held
<1>4. RequestsOK'
  BY <1>3 DEF PInv, RequestsOK, RequestOK
<1>5. InOrder'
  BY DEF PInv, InOrder
<1>. QED
  BY <1>1, <1>2, <1>4, <1>5 DEF PInv

(* The number of the next request is that of none yet, and nobody waits    *)
(* for it.                                                                 *)
LEMMA FreshIsNew ==
  ASSUME PInv, Fresh <= MaxRequests
  PROVE  /\ Fresh \in 1..MaxRequests /\ Held(Fresh) = {}
         /\ \A r \in 1..MaxRequests : req[r].kind # "none" <=> r < Fresh
<1>1. PICK n \in 0..MaxRequests : \A r \in 1..MaxRequests : req[r].kind # "none" <=> r <= n
  BY DEF PInv, InOrder
<1>2. MaxRequests \in Nat
  BY PowerAssumption
<1>3. {r \in 1..MaxRequests : req[r].kind # "none"} = 1..n
  BY <1>1, <1>2
<1>4. Cardinality(1..n) = n
  BY <1>1, <1>2, FS_Interval
<1>5. Fresh = n + 1 /\ Fresh \in 1..MaxRequests
  <2>1. Fresh = 1 + Cardinality(1..n)
    BY <1>3, Zenon DEF Fresh
  <2>. QED
    BY <1>1, <1>2, <1>4, <2>1
<1>6. req[Fresh].kind = "none" /\ RequestOK(Fresh)
  BY <1>1, <1>2, <1>5 DEF PInv, RequestsOK
<1>7. req[Fresh].pending = 0
  <2>1. req[Fresh] \in RequestRecord
    BY <1>5 DEF PInv, Shape
  <2>. QED
    BY <1>6, <2>1 DEF RequestOK, Switchers, RequestRecord
<1>8. Held(Fresh) = {}
  BY <1>6, <1>7, HeldFinite, FS_EmptySet DEF RequestOK
<1>. QED
  BY <1>1, <1>2, <1>5, <1>8

(* A request is made, for which as many slots switch as it waits for.      *)
LEMMA RequestMade ==
  ASSUME PInv, NEW f \in 1..MaxRequests,
         \A r \in 1..MaxRequests : req[r].kind # "none" <=> r < f,
         NEW kind \in Switchers, NEW n \in Nat, NEW failed \in BOOLEAN,
         n = Cardinality(Held(f)'), req' = [req EXCEPT ![f] = Made(kind, n, failed)],
         \A r \in 1..MaxRequests : r # f => Held(r)' = Held(r)
  PROVE  RequestsOK' /\ InOrder' /\ req' \in [1..MaxRequests -> RequestRecord]
<1>1. /\ Made(kind, n, failed) \in RequestRecord
      /\ Made(kind, n, failed).kind = kind /\ Made(kind, n, failed).pending = n
      /\ Made(kind, n, failed).answers = IF n = 0 THEN 1 ELSE 0
  BY DEF Made, RequestRecord
<1>2. /\ req' \in [1..MaxRequests -> RequestRecord] /\ req'[f] = Made(kind, n, failed)
      /\ \A r \in 1..MaxRequests : r # f => req'[r] = req[r]
  BY <1>1 DEF PInv, Shape
<1>3. RequestOK(f)'
  BY <1>1, <1>2 DEF RequestOK, Switchers
<1>4. \A r \in 1..MaxRequests : r # f => RequestOK(r)'
  BY <1>2 DEF PInv, RequestsOK, RequestOK
<1>5. RequestsOK'
  BY <1>3, <1>4 DEF RequestsOK
<1>6. InOrder'
  <2>1. \A r \in 1..MaxRequests : req'[r].kind # "none" <=> r <= f
    BY <1>1, <1>2, PowerAssumption DEF Switchers
  <2>2. f \in 0..MaxRequests
    BY PowerAssumption
  <2>. QED
    BY <2>1, <2>2 DEF InOrder
<1>. QED
  BY <1>2, <1>5, <1>6

(* A request that is answered at once with an error.                       *)
LEMMA RefusedStep ==
  ASSUME PInv, power_set_refused \/ airplane_mode_not_stored
  PROVE  PInv'
<1>1. PICK f : f = Fresh
  OBVIOUS
<1>2. PICK kind \in Switchers : req' = [req EXCEPT ![f] = Made(kind, 0, TRUE)]
  BY <1>1 DEF power_set_refused, airplane_mode_not_stored, Switchers
<1>3. UNCHANGED <<settings, copies, radio, bus>>
  BY DEF power_set_refused, airplane_mode_not_stored
<1>4. /\ f \in 1..MaxRequests /\ Held(f) = {}
      /\ \A r \in 1..MaxRequests : req[r].kind # "none" <=> r < f
  BY <1>1, FreshIsNew DEF power_set_refused, airplane_mode_not_stored
<1>5. \A r \in 1..MaxRequests : Held(r)' = Held(r)
  BY <1>3 DEF Held, bus
<1>6. 0 = Cardinality(Held(f)')
  BY <1>4, <1>5, FS_EmptySet
<1>7. RequestsOK' /\ InOrder' /\ req' \in [1..MaxRequests -> RequestRecord]
  <2>1. PICK n \in Nat, failed \in BOOLEAN : n = 0 /\ failed = TRUE
    OBVIOUS
  <2>2. n = Cardinality(Held(f)') /\ req' = [req EXCEPT ![f] = Made(kind, n, failed)]
    BY <1>2, <1>6, <2>1
  <2>3. \A r \in 1..MaxRequests : r # f => Held(r)' = Held(r)
    BY <1>5
  <2>. QED
    BY <1>4, <2>2, <2>3, RequestMade
<1>8. SlotsOK' /\ CancelledGone'
  BY <1>3 DEF PInv, SlotsOK, CancelledGone, copies, bus
<1>9. Shape'
  BY <1>3, <1>7 DEF PInv, Shape, settings, copies, bus
<1>. QED
  BY <1>7, <1>8, <1>9 DEF PInv

(* The call of a callback that is due is cancelled with its slot.          *)
LEMMA CancelledStep ==
  ASSUME PInv, CallCancelled
  PROVE  PInv'
<1>1. PICK c \in cancelled :
        /\ cancelled' = cancelled \ {c}
        /\ req' = IF c.owner = Nobody THEN req ELSE [req EXCEPT ![c.owner] = HasAnswered(@, FALSE)]
  BY DEF CallCancelled
<1>2. UNCHANGED <<settings, copies, radio, toModem, news>>
  BY DEF CallCancelled
<1>3. c \in [slot: Slot, owner: Owner] /\ c = [slot |-> c.slot, owner |-> c.owner]
  BY <1>1 DEF PInv, Shape
<1>4. \A u \in Slot : Holders(toModem[u], news[u]) = {}
  <2>1. \A u \in Slot : ~sim[u].there /\ SlotOK(od[u], sim[u], toModem[u], news[u])
    BY <1>1 DEF PInv, SlotsOK, CancelledGone
  <2>. QED
    BY <2>1, GoneSlot
<1>5. \A r, u : u \in Held(r) <=> u \in Slot /\ [slot |-> u, owner |-> r] \in cancelled
  BY <1>4 DEF Held
<1>6. \A r, u : u \in Held(r)' <=> u \in Slot /\ [slot |-> u, owner |-> r] \in cancelled \ {c}
  BY <1>1, <1>2, <1>4 DEF Held
<1>7. \A r, u : [slot |-> u, owner |-> r] = c <=> u = c.slot /\ r = c.owner
  BY <1>3
<1>8. \A r : r # c.owner => Held(r)' = Held(r)
  <2>1. \A r : r # c.owner => \A u : u \in Held(r)' <=> u \in Held(r)
    BY <1>5, <1>6, <1>7
  <2>. QED
    BY <2>1
<1>9. RequestsOK' /\ InOrder' /\ req' \in [1..MaxRequests -> RequestRecord]
  <2>1. CASE c.owner = Nobody
    <3>1. req' = req /\ \A r \in 1..MaxRequests : Held(r)' = Held(r)
      BY <1>1, <1>8, <2>1 DEF Nobody
    <3>. QED
      BY <3>1 DEF PInv, RequestsOK, RequestOK, InOrder, Shape
  <2>2. CASE c.owner # Nobody
    <3>1. PICK o, s : o = c.owner /\ s = c.slot
      OBVIOUS
    <3>2. o \in 1..MaxRequests /\ s \in Slot
      BY <1>3, <2>2, <3>1 DEF Owner
    <3>3. s \in Held(o) /\ \A u : u \in Held(o)' <=> u \in Held(o) /\ u # s
      <4>1. [slot |-> s, owner |-> o] = c
        BY <1>3, <3>1
      <4>2. s \in Held(o)
        BY <1>1, <1>5, <3>2, <4>1
      <4>3. ASSUME NEW u
            PROVE  u \in Held(o)' <=> u \in Held(o) /\ u # s
        <5>1. [slot |-> u, owner |-> o] = c <=> u = s
          BY <1>7, <3>1
        <5>2. u \in Held(o)' <=> u \in Slot /\ [slot |-> u, owner |-> o] \in cancelled \ {c}
          BY <1>6
        <5>3. u \in Held(o) <=> u \in Slot /\ [slot |-> u, owner |-> o] \in cancelled
          BY <1>5
        <5>. QED
          BY <3>2, <5>1, <5>2, <5>3
      <4>. QED
        BY <4>2, <4>3
    <3>4. Held(o)' = Held(o) \ {s}
      BY <3>3
    <3>5. req' = [req EXCEPT ![o] = HasAnswered(@, FALSE)]
      BY <1>1, <2>2, <3>1
    <3>. QED
      BY <1>8, <3>1, <3>2, <3>3, <3>4, <3>5, SlotAnswers
  <2>. QED
    BY <2>1, <2>2
<1>10. SlotsOK' /\ CancelledGone'
  BY <1>1, <1>2 DEF PInv, SlotsOK, CancelledGone, copies
<1>11. Shape'
  BY <1>1, <1>2, <1>9 DEF PInv, Shape, settings, copies
<1>. QED
  BY <1>9, <1>10, <1>11 DEF PInv

(* The daemon starts with no slot and no request.                          *)
LEMMA InitPInv ==
  ASSUME PowerInit
  PROVE  PInv
<1>1. \A K : Open(<<>>, K) = {} /\ One(<<>>, K) /\ Owners(<<>>, K) = {}
  BY NoneOpen DEF Open
<1>2. Shape
  <2>1. NoSim \in SimRecord /\ NoOd \in OdRecord /\ Off \in ObjRecord /\ NoRequest \in RequestRecord
    BY DEF NoSim, NoOd, Off, NoRequest, SimRecord, OdRecord, ObjRecord, RequestRecord
  <2>2. toModem \in [Slot -> Seq(CallRecord)] /\ news \in [Slot -> Seq(MessageRecord)]
    BY DEF PowerInit
  <2>. QED
    BY <2>1, <2>2 DEF PowerInit, Shape
<1>3. SlotsOK
  <2>1. ASSUME NEW s \in Slot
        PROVE  SlotOK(od[s], sim[s], toModem[s], news[s])
    <3>1. od[s] = NoOd /\ sim[s] = NoSim /\ toModem[s] = <<>> /\ news[s] = <<>>
      BY DEF PowerInit
    <3>2. SlotOK(NoOd, NoSim, <<>>, <<>>)
      BY <1>1 DEF SlotOK, NoOd, NoSim
    <3>. QED
      BY <3>1, <3>2
  <2>. QED
    BY <2>1 DEF SlotsOK
<1>4. CancelledGone
  BY DEF PowerInit, CancelledGone
<1>5. RequestsOK
  <2>1. ASSUME NEW r \in 1..MaxRequests
        PROVE  RequestOK(r)
    <3>1. \A s \in Slot : Holders(toModem[s], news[s]) = {}
      BY <1>1 DEF PowerInit, Holders
    <3>2. Held(r) = {}
      BY <3>1 DEF Held, PowerInit
    <3>3. req[r] = NoRequest
      BY DEF PowerInit
    <3>. QED
      BY <3>2, <3>3, FS_EmptySet DEF RequestOK, NoRequest
  <2>. QED
    BY <2>1 DEF RequestsOK
<1>6. InOrder
  <2>1. 0 \in 0..MaxRequests /\ \A r \in 1..MaxRequests : req[r].kind # "none" <=> r <= 0
    BY PowerAssumption DEF PowerInit, NoRequest
  <2>. QED
    BY <2>1 DEF InOrder
<1>. QED
  BY <1>2, <1>3, <1>4, <1>5, <1>6 DEF PInv

(* What a slot is asked for, it is asked as a Boolean.                     *)
LEMMA EffectiveIsBoolean ==
  ASSUME NEW airplane, NEW s
  PROVE  effective_power_state(airplane, s) \in BOOLEAN
BY DEF effective_power_state

(* powerSet: the slot switches for the request, or answers at once.        *)
LEMMA PowerSetStep ==
  ASSUME PInv, power_set
  PROVE  PInv'
<1>1. PICK f : f = Fresh
  OBVIOUS
<1>2. /\ f \in 1..MaxRequests /\ Held(f) = {}
      /\ \A r \in 1..MaxRequests : req[r].kind # "none" <=> r < f
  BY <1>1, FreshIsNew DEF power_set
<1>3. PICK s \in Slot, on \in BOOLEAN, saves \in SUBSET {"slot", "device"} :
       /\ sim[s].there /\ sim[s].initialized /\ ~(on /\ airplane_mode)
       /\ stored' = IF "slot" \in saves THEN [stored EXCEPT ![s] = IF on THEN "on" ELSE "off"]
                    ELSE stored
       /\ device' = IF "device" \in saves THEN on ELSE device
       /\ req' = [req EXCEPT ![f] = Made("power", IF AtOnce(od[s], mdm[s], on) THEN 0 ELSE 1,
                                         od[s].power_set_pending)]
       /\ sim' = [sim EXCEPT ![s].power_off_pending = power_off_pending(od[s], mdm[s], on)]
       /\ od' = [od EXCEPT ![s] = ofono_power_set(od[s], mdm[s], on)]
       /\ toModem' = [toModem EXCEPT ![s] = @ \o FirstCalls(od[s], mdm[s], on, f)]
  BY <1>1, ZenonT(60) DEF power_set
<1>4. UNCHANGED <<stored_airplane, airplane_mode, mdm, radio, news, cancelled>>
  BY DEF power_set
<1>5. /\ SlotOK(od[s], sim[s], toModem[s], news[s])
      /\ od[s] \in OdRecord /\ mdm[s] \in ObjRecord /\ sim[s] \in SimRecord
      /\ toModem[s] \in Seq(CallRecord) /\ f \in Owner /\ f # Nobody
  BY <1>2, PowerAssumption DEF PInv, SlotsOK, Shape, Owner, Nobody
<1>. DEFINE once == AtOnce(od[s], mdm[s], on)
            calls == toModem[s] \o FirstCalls(od[s], mdm[s], on, f)
<1>6. /\ sim'[s] \in SimRecord /\ sim'[s].there = sim[s].there
      /\ (sim'[s].power_off_pending <=> power_off_pending(od[s], mdm[s], on))
      /\ sim' \in [Slot -> SimRecord] /\ \A u \in Slot : u # s => sim'[u] = sim[u]
  <2>1. power_off_pending(od[s], mdm[s], on) \in BOOLEAN
    BY DEF power_off_pending
  <2>. QED
    BY <1>3, <2>1 DEF PInv, Shape, SimRecord
<1>7. /\ SlotOK(ofono_power_set(od[s], mdm[s], on), sim'[s], calls, news[s])
      /\ Holders(calls, news[s]) = IF once THEN Holders(toModem[s], news[s]) ELSE {f}
      /\ ~once => Holders(toModem[s], news[s]) = {}
  <2>1. sim'[s].power_off_pending => f # Nobody /\ ~AtOnce(od[s], mdm[s], on)
    BY <1>5, <1>6 DEF power_off_pending
  <2>2. sim'[s].there
    BY <1>3, <1>6
  <2>3. PICK q : q = sim'[s]
    OBVIOUS
  <2>4. /\ SlotOK(ofono_power_set(od[s], mdm[s], on), q, calls, news[s])
        /\ Holders(calls, news[s]) = IF once THEN Holders(toModem[s], news[s]) ELSE {f}
        /\ ~once => Holders(toModem[s], news[s]) = {}
    <3>1. /\ sim[s].there /\ q.there
          /\ q.power_off_pending
               => sim[s].power_off_pending \/ (f # Nobody /\ ~AtOnce(od[s], mdm[s], on))
      BY <1>3, <2>1, <2>2, <2>3
    <3>2. ASSUME NEW d \in OdRecord, NEW p, NEW cs, NEW ms, SlotOK(d, p, cs, ms), p.there,
                 NEW o \in ObjRecord,
                 q.power_off_pending => p.power_off_pending \/ (f # Nobody /\ ~AtOnce(d, o, on))
          PROVE  /\ SlotOK(ofono_power_set(d, o, on), q, cs \o FirstCalls(d, o, on, f), ms)
                 /\ Holders(cs \o FirstCalls(d, o, on, f), ms)
                      = IF AtOnce(d, o, on) THEN Holders(cs, ms) ELSE {f}
                 /\ ~AtOnce(d, o, on) => Holders(cs, ms) = {}
      BY <1>5, <3>1, <3>2, SwitchSlot
    <3>. QED
      BY <1>5, <3>1, <3>2, Zenon
  <2>. QED
    BY <2>3, <2>4
<1>8. /\ od'[s] = ofono_power_set(od[s], mdm[s], on) /\ od' \in [Slot -> OdRecord]
      /\ \A u \in Slot : u # s => od'[u] = od[u]
  <2>1. ofono_power_set(od[s], mdm[s], on) \in OdRecord
    BY <1>5 DEF ofono_power_set, SwitchedAlready, OdRecord, ObjRecord
  <2>. QED
    BY <1>3, <2>1 DEF PInv, Shape
<1>9. /\ toModem'[s] = calls /\ toModem' \in [Slot -> Seq(CallRecord)]
      /\ \A u \in Slot : u # s => toModem'[u] = toModem[u]
  <2>1. calls \in Seq(CallRecord)
    BY <1>7 DEF SlotOK
  <2>. QED
    BY <1>3, <2>1 DEF PInv, Shape
<1>. HIDE DEF once, calls
<1>10. SlotsOK'
  BY <1>4, <1>6, <1>7, <1>8, <1>9 DEF PInv, SlotsOK
<1>11. CancelledGone'
  BY <1>4, <1>6 DEF PInv, CancelledGone
<1>12. f \notin Holders(toModem[s], news[s]) /\ cancelled = {}
  BY <1>2, <1>3 DEF Held, PInv, CancelledGone
<1>13. \A r : Held(r)' = {u \in Slot : r \in Holders(toModem'[u], news[u])}
  BY <1>4, <1>12 DEF Held
<1>14. \A r : Held(r) = {u \in Slot : r \in Holders(toModem[u], news[u])}
  BY <1>12 DEF Held
<1>15. \A r \in 1..MaxRequests : r # f => Held(r)' = Held(r)
  <2>1. ASSUME NEW r, r # f, NEW u \in Slot
        PROVE  r \in Holders(toModem'[u], news[u]) <=> r \in Holders(toModem[u], news[u])
    BY <1>7, <1>9, <2>1
  <2>. QED
    BY <1>13, <1>14, <2>1
<1>16. Held(f)' = IF once THEN {} ELSE {s}
  <2>1. \A u \in Slot : f \notin Holders(toModem[u], news[u])
    BY <1>2, <1>14
  <2>2. \A u \in Slot : f \in Holders(toModem'[u], news[u]) <=> ~once /\ u = s
    BY <1>7, <1>9, <2>1
  <2>. QED
    BY <1>13, <2>2
<1>17. RequestsOK' /\ InOrder' /\ req' \in [1..MaxRequests -> RequestRecord]
  <2>1. PICK n, failed : n = (IF once THEN 0 ELSE 1) /\ failed = od[s].power_set_pending
    OBVIOUS
  <2>2. n \in Nat /\ failed \in BOOLEAN
    BY <1>5, <2>1 DEF OdRecord
  <2>3. n = Cardinality(Held(f)')
    BY <1>16, <2>1, FS_EmptySet, FS_Singleton
  <2>4. req' = [req EXCEPT ![f] = Made("power", n, failed)]
    BY <1>3, <2>1 DEF once
  <2>. QED
    BY <1>2, <1>15, <2>2, <2>3, <2>4, RequestMade DEF Switchers
<1>18. Shape'
  <2>1. stored' \in [Slot -> {"unset", "on", "off"}] /\ device' \in BOOLEAN
    BY <1>3 DEF PInv, Shape
  <2>. QED
    BY <1>4, <1>6, <1>8, <1>9, <1>17, <2>1 DEF PInv, Shape
<1>. QED
  BY <1>10, <1>11, <1>17, <1>18 DEF PInv

(* airplaneModeSet: each slot that is not as it should be switches for the *)
(* request, or answers at once.                                            *)
LEMMA AirplaneSetStep ==
  ASSUME PInv, airplane_mode_set
  PROVE  PInv'
<1>1. PICK f : f = Fresh
  OBVIOUS
<1>2. /\ f \in 1..MaxRequests /\ Held(f) = {} /\ f \in Owner /\ f # Nobody
      /\ \A r \in 1..MaxRequests : req[r].kind # "none" <=> r < f
  BY <1>1, FreshIsNew, PowerAssumption DEF airplane_mode_set, Owner, Nobody
<1>a. PICK airplane \in BOOLEAN :
        LET want == [s \in Slot |-> effective_power_state(airplane, s)]
            them == ToSwitch(airplane)
        IN  /\ stored_airplane' = airplane /\ airplane_mode' = airplane
            /\ req' = [req EXCEPT ![Fresh] = Made(IF airplane THEN "airplane" ELSE "ground",
                                              AnswersDue(them, want),
                                              \E s \in them : od[s].power_set_pending)]
            /\ sim' = [s \in Slot |->
                         IF s \in them
                         THEN [sim[s] EXCEPT !.power_off_pending =
                                  power_off_pending(od[s], mdm[s], want[s])]
                         ELSE sim[s]]
            /\ od' = [s \in Slot |-> IF s \in them THEN ofono_power_set(od[s], mdm[s], want[s])
                                     ELSE od[s]]
            /\ toModem' = [s \in Slot |->
                             IF s \in them
                             THEN toModem[s] \o FirstCalls(od[s], mdm[s], want[s], Fresh)
                             ELSE toModem[s]]
  BY DEF airplane_mode_set
<1>b. PICK wanted, slots : /\ wanted = [s \in Slot |-> effective_power_state(airplane, s)]
                          /\ slots = ToSwitch(airplane)
  OBVIOUS
<1>3. /\ wanted = [s \in Slot |-> effective_power_state(airplane, s)]
        /\ slots = ToSwitch(airplane)
        /\ stored_airplane' = airplane /\ airplane_mode' = airplane
        /\ req' = [req EXCEPT ![f] = Made(IF airplane THEN "airplane" ELSE "ground",
                                          AnswersDue(slots, wanted),
                                          \E s \in slots : od[s].power_set_pending)]
        /\ sim' = [s \in Slot |->
                     IF s \in slots
                     THEN [sim[s] EXCEPT !.power_off_pending =
                              power_off_pending(od[s], mdm[s], wanted[s])]
                     ELSE sim[s]]
        /\ od' = [s \in Slot |-> IF s \in slots THEN ofono_power_set(od[s], mdm[s], wanted[s])
                                 ELSE od[s]]
        /\ toModem' = [s \in Slot |->
                         IF s \in slots
                         THEN toModem[s] \o FirstCalls(od[s], mdm[s], wanted[s], f)
                         ELSE toModem[s]]
  BY <1>1, <1>a, <1>b
<1>4. UNCHANGED <<stored, device, mdm, radio, news, cancelled>>
  BY DEF airplane_mode_set
<1>5. /\ slots \subseteq Slot /\ \A s \in slots : sim[s].initialized
      /\ \A s \in Slot : wanted[s] \in BOOLEAN
  BY <1>3, EffectiveIsBoolean DEF ToSwitch
<1>6. \A s \in Slot : /\ SlotOK(od[s], sim[s], toModem[s], news[s])
                      /\ od[s] \in OdRecord /\ mdm[s] \in ObjRecord /\ sim[s] \in SimRecord
  BY DEF PInv, SlotsOK, Shape
<1>. DEFINE Once(s) == AtOnce(od[s], mdm[s], wanted[s])
            Switches(s) == s \in slots /\ ~Once(s)
<1>7. ASSUME NEW s \in Slot
      PROVE  /\ SlotOK(od'[s], sim'[s], toModem'[s], news[s]) /\ sim'[s].there = sim[s].there
             /\ Holders(toModem'[s], news[s])
                  = IF Switches(s) THEN {f} ELSE Holders(toModem[s], news[s])
             /\ Switches(s) => Holders(toModem[s], news[s]) = {}
             /\ sim'[s] \in SimRecord /\ od'[s] \in OdRecord /\ toModem'[s] \in Seq(CallRecord)
  <2>1. CASE s \notin slots
    <3>1. sim'[s] = sim[s] /\ od'[s] = od[s] /\ toModem'[s] = toModem[s] /\ ~Switches(s)
      BY <1>3, <2>1
    <3>. QED
      BY <1>6, <3>1 DEF SlotOK
  <2>2. CASE s \in slots
    <3>0. wanted[s] \in BOOLEAN
      BY <1>5
    <3>a. PICK on \in BOOLEAN : on = wanted[s]
      BY <3>0
    <3>1. PICK q : q = sim'[s] /\ on = wanted[s]
      BY <3>a
    <3>2. /\ q \in SimRecord /\ q.there = sim[s].there
          /\ (q.power_off_pending <=> power_off_pending(od[s], mdm[s], on))
      <4>1. power_off_pending(od[s], mdm[s], on) \in BOOLEAN
        BY DEF power_off_pending
      <4>2. q = [sim[s] EXCEPT !.power_off_pending = power_off_pending(od[s], mdm[s], on)]
        BY <1>3, <2>2, <3>1
      <4>. QED
        BY <1>6, <4>1, <4>2 DEF SimRecord
    <3>3. sim[s].there /\ q.there
      BY <1>5, <1>6, <2>2, <3>2 DEF SlotOK
    <3>4. q.power_off_pending
            => sim[s].power_off_pending \/ (f # Nobody /\ ~AtOnce(od[s], mdm[s], on))
      BY <1>2, <3>2 DEF power_off_pending
    <3>5. /\ SlotOK(ofono_power_set(od[s], mdm[s], on), q,
                    toModem[s] \o FirstCalls(od[s], mdm[s], on, f), news[s])
          /\ Holders(toModem[s] \o FirstCalls(od[s], mdm[s], on, f), news[s])
               = IF AtOnce(od[s], mdm[s], on) THEN Holders(toModem[s], news[s]) ELSE {f}
          /\ ~AtOnce(od[s], mdm[s], on) => Holders(toModem[s], news[s]) = {}
      <4>1. ASSUME NEW d \in OdRecord, NEW p, NEW cs, NEW ms, SlotOK(d, p, cs, ms), p.there,
                   NEW o \in ObjRecord,
                   q.power_off_pending => p.power_off_pending \/ (f # Nobody /\ ~AtOnce(d, o, on))
            PROVE  /\ SlotOK(ofono_power_set(d, o, on), q, cs \o FirstCalls(d, o, on, f), ms)
                   /\ Holders(cs \o FirstCalls(d, o, on, f), ms)
                        = IF AtOnce(d, o, on) THEN Holders(cs, ms) ELSE {f}
                   /\ ~AtOnce(d, o, on) => Holders(cs, ms) = {}
        BY <1>2, <3>3, <4>1, SwitchSlot
      <4>. QED
        BY <1>6, <3>3, <3>4, <4>1, Zenon
    <3>6. /\ od'[s] = ofono_power_set(od[s], mdm[s], on)
          /\ toModem'[s] = toModem[s] \o FirstCalls(od[s], mdm[s], on, f)
      BY <1>3, <2>2, <3>1
    <3>7. ofono_power_set(od[s], mdm[s], on) \in OdRecord
      BY <1>6 DEF ofono_power_set, SwitchedAlready, OdRecord, ObjRecord
    <3>8. Switches(s) <=> ~AtOnce(od[s], mdm[s], on)
      BY <2>2, <3>1
    <3>9. toModem'[s] \in Seq(CallRecord)
      BY <3>5, <3>6 DEF SlotOK
    <3>. QED
      BY <3>1, <3>2, <3>5, <3>6, <3>7, <3>8, <3>9
  <2>. QED
    BY <2>1, <2>2
<1>8. SlotsOK' /\ CancelledGone'
  BY <1>4, <1>7 DEF PInv, SlotsOK, CancelledGone
<1>13. ASSUME NEW u \in Slot
       PROVE  /\ Switches(u) => /\ Holders(toModem'[u], news[u]) = {f}
                                /\ Holders(toModem[u], news[u]) = {}
              /\ ~Switches(u) => Holders(toModem'[u], news[u]) = Holders(toModem[u], news[u])
  <2>. HIDE DEF Switches
  <2>. QED
    BY <1>7
<1>9. \A r \in 1..MaxRequests : r # f => Held(r)' = Held(r)
  <2>1. ASSUME NEW r, r # f, NEW u \in Slot
        PROVE  r \in Holders(toModem'[u], news[u]) <=> r \in Holders(toModem[u], news[u])
    <3>. HIDE DEF Switches
    <3>1. CASE Switches(u)
      BY <1>13, <2>1, <3>1
    <3>2. CASE ~Switches(u)
      BY <1>13, <3>2
    <3>. QED
      BY <3>1, <3>2
  <2>. QED
    BY <1>4, <2>1 DEF Held
<1>10. Held(f)' = {s \in slots : ~Once(s)}
  <2>1. \A u \in Slot : f \notin Holders(toModem[u], news[u])
                        /\ [slot |-> u, owner |-> f] \notin cancelled
    BY <1>2 DEF Held
  <2>2. \A u \in Slot : f \in Holders(toModem'[u], news[u]) <=> Switches(u)
    BY <1>7, <2>1
  <2>. QED
    BY <1>4, <1>5, <2>1, <2>2 DEF Held
<1>11. RequestsOK' /\ InOrder' /\ req' \in [1..MaxRequests -> RequestRecord]
  <2>1. PICK n, failed : n = AnswersDue(slots, wanted)
                         /\ failed = (\E s \in slots : od[s].power_set_pending)
    OBVIOUS
  <2>2. failed \in BOOLEAN
    BY <2>1
  <2>3. n = Cardinality(Held(f)')
    BY <1>10, <2>1, Zenon DEF AnswersDue
  <2>4. n \in Nat
    <3>1. Held(f)' \subseteq Slot
      BY <1>5, <1>10
    <3>. QED
      BY <2>3, <3>1, PowerAssumption, FS_Subset, FS_CardinalityType
  <2>5. PICK kind \in Switchers : kind = IF airplane THEN "airplane" ELSE "ground"
    BY DEF Switchers
  <2>6. req' = [req EXCEPT ![f] = Made(kind, n, failed)]
    BY <1>3, <2>1, <2>5
  <2>. QED
    BY <1>2, <1>9, <2>2, <2>3, <2>4, <2>6, RequestMade
<1>12. Shape'
  <2>1. /\ sim' \in [Slot -> SimRecord] /\ od' \in [Slot -> OdRecord]
        /\ toModem' \in [Slot -> Seq(CallRecord)]
    BY <1>3, <1>7
  <2>. QED
    BY <1>3, <1>4, <1>11, <2>1 DEF PInv, Shape
<1>. QED
  BY <1>8, <1>11, <1>12 DEF PInv

(* The reply to Online: the switch is over.                                *)
LEMMA OnlineRepliedStep ==
  ASSUME PInv, set_online_cb
  PROVE  PInv'
<1>1. PICK s \in Slot :
        /\ Reaches(s, "OnlineReply") /\ od' = [od EXCEPT ![s].power_set_pending = FALSE]
        /\ Finish(s, Head(news[s]).owner, Head(news[s]).value)
  BY DEF set_online_cb
<1>2. UNCHANGED <<settings, airplane_mode, mdm, radio, toModem, cancelled>>
  BY DEF set_online_cb
<1>3. news[s] # <<>> /\ news' = [news EXCEPT ![s] = Tail(@)]
  BY <1>1 DEF Reaches
<1>4. Head(news[s]) \in Answering
  <2>1. news[s] \in Seq(MessageRecord)
    BY DEF PInv, Shape
  <2>2. Head(news[s]) \in MessageRecord
    BY <1>3, <2>1
  <2>. QED
    BY <1>1, <2>2 DEF Reaches, Answering
<1>5. PICK ok : ok = Head(news[s]).value
  OBVIOUS
<1>6. Finish(s, Head(news[s]).owner, ok)
  BY <1>1, <1>5
<1>. QED
  BY <1>1, <1>2, <1>3, <1>4, <1>6, FinishStep

(* The reply to Powered: the switch is over, or goes on with the call that *)
(* puts the modem online, for the same request.                            *)
LEMMA PoweredRepliedStep ==
  ASSUME PInv, set_powered_cb
  PROVE  PInv'
<1>1. PICK s \in Slot :
        /\ Reaches(s, "PoweredReply")
        /\ IF Head(news[s]).value /\ od[s].power_target /\ ~mdm[s].online
           THEN /\ toModem' = [toModem EXCEPT
                                 ![s] = Append(@, Call("Online", TRUE, Head(news[s]).owner))]
                /\ UNCHANGED <<od, sim, req>>
           ELSE /\ od' = [od EXCEPT ![s].power_set_pending = FALSE]
                /\ Finish(s, Head(news[s]).owner, Head(news[s]).value)
                /\ UNCHANGED toModem
  BY DEF set_powered_cb
<1>2. UNCHANGED <<settings, airplane_mode, mdm, radio, cancelled>>
  BY DEF set_powered_cb
<1>3. news[s] # <<>> /\ news' = [news EXCEPT ![s] = Tail(@)]
  BY <1>1 DEF Reaches
<1>4. Head(news[s]) \in Answering
  <2>1. news[s] \in Seq(MessageRecord)
    BY DEF PInv, Shape
  <2>2. Head(news[s]) \in MessageRecord
    BY <1>3, <2>1
  <2>. QED
    BY <1>1, <2>2 DEF Reaches, Answering
<1>5. CASE Head(news[s]).value /\ od[s].power_target /\ ~mdm[s].online
  <2>1. SlotOK(od[s], sim[s], toModem[s], news[s])
    BY DEF PInv, SlotsOK
  <2>2. PICK o : o = Head(news[s]).owner
    OBVIOUS
  <2>. DEFINE c == Call("Online", TRUE, o)
              calls == Append(toModem[s], c)
  <2>3. /\ sim[s].there /\ Holders(toModem[s], news[s]) = {o} /\ o \in Owner
        /\ od[s].power_set_pending /\ Tail(news[s]) \in Seq(MessageRecord)
        /\ Open(toModem[s], Switching) = {} /\ Open(Tail(news[s]), Answering) = {}
    BY <1>3, <1>4, <2>1, <2>2, Answered
  <2>4. c \in CallRecord /\ c \in Switching /\ c.owner = o
    BY <2>3 DEF Call, CallRecord, Switching
  <2>5. toModem' = [toModem EXCEPT ![s] = calls] /\ UNCHANGED <<od, sim, req>>
    BY <1>1, <1>5, <2>2
  <2>6. toModem[s] \in Seq(CallRecord)
    BY DEF PInv, Shape
  <2>. HIDE DEF c
  <2>7. /\ calls \in Seq(CallRecord) /\ Open(calls, Switching) # {}
        /\ Owners(calls, Switching) = {o} /\ One(calls, Switching)
    BY <2>3, <2>4, <2>6, AddOpen
  <2>8. \A i \in DOMAIN calls : calls[i] \in Switching \/ calls[i].owner = Nobody
    <3>1. \A i \in DOMAIN toModem[s] : toModem[s][i] \in Switching \/ toModem[s][i].owner = Nobody
      BY <2>1 DEF SlotOK
    <3>. QED
      BY <2>4, <2>6, <3>1
  <2>. HIDE DEF calls
  <2>9. One(Tail(news[s]), Answering) /\ Owners(Tail(news[s]), Answering) = {}
    BY <2>3, NoneOpen
  <2>10. Holders(calls, Tail(news[s])) = {o}
    BY <2>7, <2>9 DEF Holders
  <2>11. sim[s].power_off_pending => Nobody \notin {o}
    BY <2>1, <2>3 DEF SlotOK
  <2>12. SlotOK(od[s], sim[s], calls, Tail(news[s]))
    BY <2>1, <2>3, <2>7, <2>8, <2>9, <2>10, <2>11 DEF SlotOK
  <2>13. /\ toModem' \in [Slot -> Seq(CallRecord)] /\ toModem'[s] = calls
         /\ \A u \in Slot : u # s => toModem'[u] = toModem[u]
    BY <2>5, <2>7 DEF PInv, Shape
  <2>14. /\ news' \in [Slot -> Seq(MessageRecord)] /\ news'[s] = Tail(news[s])
         /\ \A u \in Slot : u # s => news'[u] = news[u]
    BY <1>3, <2>3 DEF PInv, Shape
  <2>15. Shape'
    BY <1>2, <2>5, <2>13, <2>14 DEF PInv, Shape, settings
  <2>16. Holders(toModem'[s], news'[s]) = Holders(toModem[s], news[s])
    BY <2>3, <2>10, <2>13, <2>14
  <2>17. SlotOK(od'[s], sim'[s], toModem'[s], news'[s]) /\ sim'[s].there = sim[s].there
    BY <2>5, <2>12, <2>13, <2>14
  <2>18. \A u \in Slot : u # s => /\ od'[u] = od[u] /\ sim'[u] = sim[u]
                                  /\ toModem'[u] = toModem[u] /\ news'[u] = news[u]
    BY <2>5, <2>13, <2>14
  <2>19. cancelled' = cancelled /\ req' = req
    BY <1>2, <2>5
  <2>. QED
    BY <2>15, <2>16, <2>17, <2>18, <2>19, OneSlotChanges
<1>6. CASE ~(Head(news[s]).value /\ od[s].power_target /\ ~mdm[s].online)
  <2>1. PICK ok : ok = Head(news[s]).value
    OBVIOUS
  <2>2. /\ Finish(s, Head(news[s]).owner, ok) /\ od' = [od EXCEPT ![s].power_set_pending = FALSE]
        /\ toModem' = toModem
    BY <1>1, <1>6, <2>1
  <2>. QED
    BY <1>2, <1>3, <1>4, <2>2, FinishStep
<1>. QED
  BY <1>5, <1>6

(* A signal of the radio: the service's picture of it changes, nothing of  *)
(* a switch does.                                                          *)
LEMMA OnlineToldStep ==
  ASSUME PInv, online_changed
  PROVE  PInv'
<1>1. PICK s \in Slot :
        /\ Reaches(s, "Online")
        /\ mdm' = [mdm EXCEPT ![s].online = Head(news[s]).value]
        /\ sim' = [sim EXCEPT ![s].powered = mdm'[s].powered /\ mdm'[s].online]
  BY DEF online_changed
<1>2. UNCHANGED <<settings, airplane_mode, od, radio, toModem, cancelled, req>>
  BY DEF online_changed
<1>3. news[s] # <<>> /\ news' = [news EXCEPT ![s] = Tail(@)] /\ Head(news[s]).kind = "Online"
  BY <1>1 DEF Reaches
<1>4. /\ SlotOK(od[s], sim[s], toModem[s], news[s])
      /\ news[s] \in Seq(MessageRecord) /\ mdm[s] \in ObjRecord /\ sim[s] \in SimRecord
  BY DEF PInv, SlotsOK, Shape
<1>5. Head(news[s]) \in MessageRecord /\ Tail(news[s]) \in Seq(MessageRecord)
  BY <1>3, <1>4
<1>6. Head(news[s]) \notin Answering /\ Head(news[s]).value \in BOOLEAN
  BY <1>3, <1>5 DEF MessageRecord, Answering
<1>7. /\ SlotOK(od[s], sim[s], toModem[s], Tail(news[s]))
      /\ Holders(toModem[s], Tail(news[s])) = Holders(toModem[s], news[s])
  BY <1>3, <1>4, <1>6, Heard
<1>8. mdm' \in [Slot -> ObjRecord]
  BY <1>1, <1>6 DEF PInv, Shape, ObjRecord
<1>9. /\ sim' \in [Slot -> SimRecord] /\ \A u \in Slot : u # s => sim'[u] = sim[u]
      /\ sim'[s].there = sim[s].there /\ sim'[s].initialized = sim[s].initialized
      /\ sim'[s].power_off_pending = sim[s].power_off_pending
  <2>1. PICK v : v = (mdm'[s].powered /\ mdm'[s].online)
    OBVIOUS
  <2>2. sim' = [sim EXCEPT ![s].powered = v] /\ v \in BOOLEAN
    BY <1>1, <2>1
  <2>. QED
    BY <2>2 DEF PInv, Shape, SimRecord
<1>10. /\ news' \in [Slot -> Seq(MessageRecord)] /\ news'[s] = Tail(news[s])
       /\ \A u \in Slot : u # s => news'[u] = news[u]
  BY <1>3, <1>5 DEF PInv, Shape
<1>11. Shape'
  BY <1>2, <1>8, <1>9, <1>10 DEF PInv, Shape, settings
<1>12. SlotOK(od[s], sim'[s], toModem[s], Tail(news[s]))
  BY <1>7, <1>9 DEF SlotOK
<1>13. SlotOK(od'[s], sim'[s], toModem'[s], news'[s])
  BY <1>2, <1>10, <1>12
<1>14. Holders(toModem'[s], news'[s]) = Holders(toModem[s], news[s])
  BY <1>2, <1>7, <1>10
<1>15. \A u \in Slot : u # s => /\ od'[u] = od[u] /\ sim'[u] = sim[u]
                                /\ toModem'[u] = toModem[u] /\ news'[u] = news[u]
  BY <1>2, <1>9, <1>10
<1>. QED
  BY <1>2, <1>9, <1>11, <1>13, <1>14, <1>15, OneSlotChanges

(* The modem tells whether it has power.  The first time it has, its slot  *)
(* is switched for nobody, unless a switch is under way.                   *)
LEMMA PowerToldStep ==
  ASSUME PInv, powered_arrives
  PROVE  PInv'
<1>0. PICK s \in Slot :
        /\ TellsPower(s)
        /\ LET o  == ObjectAfter(s)
               up == od[s].initializing /\ o.powered
               on == effective_power_state(airplane_mode, s)
           IN  /\ mdm' = [mdm EXCEPT ![s] = o]
               /\ sim' = [sim EXCEPT ![s].powered = o.powered /\ o.online,
                                     ![s].initialized = @ \/ up]
               /\ IF up
                  THEN /\ od' = [od EXCEPT ![s] = [ofono_power_set(@, o, on)
                                                     EXCEPT !.initializing = FALSE]]
                       /\ toModem' = [toModem EXCEPT ![s] = @ \o FirstCalls(od[s], o, on, Nobody)]
                  ELSE UNCHANGED <<od, toModem>>
  BY DEF powered_arrives
<1>2. UNCHANGED <<settings, airplane_mode, radio, cancelled, req>>
  BY DEF powered_arrives
<1>3. /\ news[s] # <<>> /\ news' = [news EXCEPT ![s] = Tail(@)]
      /\ Head(news[s]).kind \in {"Powered", "Properties"}
  BY <1>0 DEF TellsPower, Reaches
<1>4. /\ SlotOK(od[s], sim[s], toModem[s], news[s]) /\ od[s] \in OdRecord
      /\ news[s] \in Seq(MessageRecord) /\ mdm[s] \in ObjRecord /\ sim[s] \in SimRecord
  BY DEF PInv, SlotsOK, Shape
<1>5. Head(news[s]) \in MessageRecord /\ Tail(news[s]) \in Seq(MessageRecord)
  BY <1>3, <1>4
<1>6. /\ Head(news[s]) \notin Answering
      /\ IF Head(news[s]).kind = "Properties" THEN Head(news[s]).value \in ModemStates
         ELSE Head(news[s]).value \in BOOLEAN
  BY <1>3, <1>5 DEF MessageRecord, Answering
<1>7. /\ SlotOK(od[s], sim[s], toModem[s], Tail(news[s])) /\ sim[s].there
      /\ Holders(toModem[s], Tail(news[s])) = Holders(toModem[s], news[s])
  BY <1>3, <1>4, <1>6, Heard
<1>8. ObjectAfter(s) \in ObjRecord
  BY <1>4, <1>6 DEF ObjectAfter, ObjRecord, ModemStates
<1>9. PICK o \in ObjRecord : o = ObjectAfter(s)
  BY <1>8
<1>10. PICK on \in BOOLEAN : on = effective_power_state(airplane_mode, s)
  BY EffectiveIsBoolean
<1>11. PICK up \in BOOLEAN : up <=> od[s].initializing /\ o.powered
  OBVIOUS
<1>12. /\ mdm' = [mdm EXCEPT ![s] = o]
       /\ sim' = [sim EXCEPT ![s].powered = o.powered /\ o.online, ![s].initialized = @ \/ up]
  BY <1>0, <1>9, <1>11
<1>13. mdm' \in [Slot -> ObjRecord]
  BY <1>12 DEF PInv, Shape
<1>14. /\ sim' \in [Slot -> SimRecord] /\ \A u \in Slot : u # s => sim'[u] = sim[u]
       /\ sim'[s].there = sim[s].there
       /\ sim'[s].power_off_pending = sim[s].power_off_pending
  <2>1. PICK v, w : v = (o.powered /\ o.online) /\ w = (sim[s].initialized \/ up)
    OBVIOUS
  <2>2. v \in BOOLEAN /\ w \in BOOLEAN
    BY <2>1
  <2>3. sim' = [sim EXCEPT ![s].powered = v, ![s].initialized = w]
    BY <1>12, <2>1 DEF PInv, Shape
  <2>. QED
    BY <2>2, <2>3, ZenonT(60) DEF PInv, Shape, SimRecord
<1>15. /\ news' \in [Slot -> Seq(MessageRecord)] /\ news'[s] = Tail(news[s])
       /\ \A u \in Slot : u # s => news'[u] = news[u]
  BY <1>3, <1>5 DEF PInv, Shape
<1>16. PICK p : p = sim'[s]
  OBVIOUS
<1>17. /\ p.there /\ p.power_off_pending = sim[s].power_off_pending
  BY <1>7, <1>14, <1>16
<1>18. CASE ~up
  <2>1. UNCHANGED <<od, toModem>>
    BY <1>0, <1>9, <1>11, <1>18
  <2>2. SlotOK(od[s], p, toModem[s], Tail(news[s]))
    BY <1>7, <1>17 DEF SlotOK
  <2>3. Shape'
    BY <1>2, <1>13, <1>14, <1>15, <2>1 DEF PInv, Shape, settings
  <2>4. SlotOK(od'[s], sim'[s], toModem'[s], news'[s])
    BY <1>15, <1>16, <2>1, <2>2
  <2>5. Holders(toModem'[s], news'[s]) = Holders(toModem[s], news[s])
    BY <1>7, <1>15, <2>1
  <2>6. \A u \in Slot : u # s => /\ od'[u] = od[u] /\ sim'[u] = sim[u]
                                 /\ toModem'[u] = toModem[u] /\ news'[u] = news[u]
    BY <1>14, <1>15, <2>1
  <2>. QED
    BY <1>2, <1>14, <2>3, <2>4, <2>5, <2>6, OneSlotChanges
<1>19. CASE up
  <2>. DEFINE d == ofono_power_set(od[s], o, on)
              e == [d EXCEPT !.initializing = FALSE]
              calls == toModem[s] \o FirstCalls(od[s], o, on, Nobody)
  <2>1. od' = [od EXCEPT ![s] = e] /\ toModem' = [toModem EXCEPT ![s] = calls]
    <3>1. od[s].initializing /\ ObjectAfter(s).powered
      BY <1>9, <1>11, <1>19
    <3>. QED
      BY <1>0, <1>9, <1>10, <3>1
  <2>2. d \in OdRecord
    BY <1>4 DEF ofono_power_set, SwitchedAlready, OdRecord, ObjRecord
  <2>. HIDE DEF d
  <2>3. e \in OdRecord /\ e.power_set_pending = d.power_set_pending
    BY <2>2 DEF OdRecord
  <2>. HIDE DEF e, calls
  <2>4. /\ SlotOK(d, p, calls, Tail(news[s]))
        /\ Holders(calls, Tail(news[s])) = IF AtOnce(od[s], o, on)
                                           THEN Holders(toModem[s], Tail(news[s])) ELSE {Nobody}
        /\ ~AtOnce(od[s], o, on) => Holders(toModem[s], Tail(news[s])) = {}
    <3>1. Nobody \in Owner
      BY DEF Owner
    <3>2. ASSUME NEW dd \in OdRecord, NEW pp, NEW cs, NEW ms, SlotOK(dd, pp, cs, ms), pp.there,
                 p.power_off_pending => pp.power_off_pending
          PROVE  /\ SlotOK(ofono_power_set(dd, o, on), p, cs \o FirstCalls(dd, o, on, Nobody), ms)
                 /\ Holders(cs \o FirstCalls(dd, o, on, Nobody), ms)
                      = IF AtOnce(dd, o, on) THEN Holders(cs, ms) ELSE {Nobody}
                 /\ ~AtOnce(dd, o, on) => Holders(cs, ms) = {}
      BY <1>17, <3>1, <3>2, SwitchSlot
    <3>3. p.power_off_pending => sim[s].power_off_pending
      BY <1>17
    <3>. QED
      BY <1>4, <1>7, <3>2, <3>3, Zenon DEF d, calls
  <2>5. SlotOK(e, p, calls, Tail(news[s])) /\ calls \in Seq(CallRecord)
    BY <2>3, <2>4 DEF SlotOK
  <2>6. /\ od' \in [Slot -> OdRecord] /\ od'[s] = e /\ \A u \in Slot : u # s => od'[u] = od[u]
    BY <2>1, <2>3 DEF PInv, Shape
  <2>7. /\ toModem' \in [Slot -> Seq(CallRecord)] /\ toModem'[s] = calls
        /\ \A u \in Slot : u # s => toModem'[u] = toModem[u]
    BY <2>1, <2>5 DEF PInv, Shape
  <2>9. Shape'
    BY <1>2, <1>13, <1>14, <1>15, <2>6, <2>7 DEF PInv, Shape, settings
  <2>10. SlotOK(od'[s], sim'[s], toModem'[s], news'[s])
    BY <1>15, <1>16, <2>5, <2>6, <2>7
  <2>11. \A r \in 1..MaxRequests :
           r \in Holders(toModem'[s], news'[s]) <=> r \in Holders(toModem[s], news[s])
    <3>1. Nobody \notin 1..MaxRequests
      BY PowerAssumption DEF Nobody
    <3>. QED
      BY <1>7, <1>15, <2>4, <2>7, <3>1
  <2>12. \A u \in Slot : u # s => /\ od'[u] = od[u] /\ sim'[u] = sim[u]
                                  /\ toModem'[u] = toModem[u] /\ news'[u] = news[u]
    BY <1>14, <1>15, <2>6, <2>7
  <2>. QED
    BY <1>2, <1>14, <2>9, <2>10, <2>11, <2>12, OneSlotChanges
<1>. QED
  BY <1>18, <1>19

(* The slots come with their modems: calls of an earlier daemon may still  *)
(* be on their way, for nobody.                                            *)
LEMMA SlotsComeStep ==
  ASSUME PInv, SlotsCome
  PROVE  PInv'
<1>1. /\ cancelled = {} /\ \A s \in Slot : ~sim[s].there
      /\ sim' = [s \in Slot |-> [NoSim EXCEPT !.there = TRUE]]
      /\ od' = [s \in Slot |-> [NoOd EXCEPT !.initializing = TRUE]]
      /\ mdm' = [s \in Slot |-> Off]
      /\ toModem' = [s \in Slot |-> Append(toModem[s], GetPowerState)]
      /\ UNCHANGED <<settings, airplane_mode, radio, news, cancelled, req>>
  BY DEF SlotsCome
<1>2. /\ [NoSim EXCEPT !.there = TRUE] \in SimRecord
      /\ [NoSim EXCEPT !.there = TRUE].there /\ ~[NoSim EXCEPT !.there = TRUE].power_off_pending
  BY DEF NoSim, SimRecord
<1>3. /\ [NoOd EXCEPT !.initializing = TRUE] \in OdRecord
      /\ ~[NoOd EXCEPT !.initializing = TRUE].power_set_pending
  BY DEF NoOd, OdRecord
<1>4. PICK p \in SimRecord, d \in OdRecord :
        /\ p.there /\ ~p.power_off_pending /\ ~d.power_set_pending
        /\ \A s \in Slot : sim'[s] = p /\ od'[s] = d
  BY <1>1, <1>2, <1>3
<1>5. GetPowerState \in CallRecord /\ GetPowerState \notin Switching /\ GetPowerState.owner = Nobody
  BY DEF GetPowerState, Call, CallRecord, Owner, Switching
<1>6. ASSUME NEW s \in Slot
      PROVE  /\ SlotOK(d, p, toModem'[s], news'[s]) /\ toModem'[s] \in Seq(CallRecord)
             /\ Holders(toModem'[s], news'[s]) = Holders(toModem[s], news[s])
  <2>. DEFINE calls == Append(toModem[s], GetPowerState)
  <2>1. toModem'[s] = calls /\ news'[s] = news[s] /\ ~sim[s].there
    BY <1>1
  <2>2. SlotOK(od[s], sim[s], toModem[s], news[s]) /\ toModem[s] \in Seq(CallRecord)
    BY DEF PInv, SlotsOK, Shape
  <2>3. /\ Open(toModem[s], Switching) = {} /\ Open(news[s], Answering) = {}
        /\ Holders(toModem[s], news[s]) = {}
    BY <2>1, <2>2, GoneSlot
  <2>4. /\ calls \in Seq(CallRecord) /\ Open(calls, Switching) = {}
        /\ Owners(calls, Switching) = {} /\ One(calls, Switching)
    BY <1>5, <2>2, <2>3, AddOther, NoneOpen
  <2>5. Owners(news[s], Answering) = {} /\ One(news[s], Answering)
    BY <2>3, NoneOpen
  <2>6. \A i \in DOMAIN calls : calls[i] \in Switching \/ calls[i].owner = Nobody
    <3>1. \A i \in DOMAIN toModem[s] : toModem[s][i] \in Switching \/ toModem[s][i].owner = Nobody
      BY <2>2 DEF SlotOK
    <3>. QED
      BY <1>5, <2>2, <3>1
  <2>. HIDE DEF calls
  <2>7. Holders(calls, news[s]) = {}
    BY <2>4, <2>5 DEF Holders
  <2>8. SlotOK(d, p, calls, news[s])
    BY <1>4, <2>2, <2>3, <2>4, <2>5, <2>6, <2>7 DEF SlotOK
  <2>. QED
    BY <2>1, <2>3, <2>4, <2>7, <2>8
<1>7. SlotsOK'
  BY <1>4, <1>6 DEF SlotsOK
<1>8. CancelledGone'
  BY <1>1 DEF CancelledGone
<1>9. RequestsOK' /\ InOrder'
  BY <1>1, <1>6, NobodyAnswered
<1>10. Shape'
  <2>1. toModem' \in [Slot -> Seq(CallRecord)] /\ mdm' \in [Slot -> ObjRecord]
    BY <1>1, <1>6 DEF Off, ObjRecord
  <2>2. sim' \in [Slot -> SimRecord] /\ od' \in [Slot -> OdRecord]
    BY <1>1, <1>2, <1>3
  <2>. QED
    BY <1>1, <2>1, <2>2 DEF PInv, Shape, settings
<1>. QED
  BY <1>7, <1>8, <1>9, <1>10 DEF PInv

(* A slot with no call and no message: nothing is under way.               *)
LEMMA EmptySlot ==
  ASSUME NEW calls \in Seq(CallRecord), \A i \in DOMAIN calls : calls[i].lost /\ calls[i].owner = Nobody
  PROVE  SlotOK(NoOd, NoSim, calls, <<>>) /\ Holders(calls, <<>>) = {}
<1>1. Open(calls, Switching) = {} /\ Open(<<>>, Answering) = {}
  BY DEF Open, Switching
<1>2. /\ One(calls, Switching) /\ One(<<>>, Answering)
      /\ Owners(calls, Switching) = {} /\ Owners(<<>>, Answering) = {}
  BY <1>1, NoneOpen
<1>. QED
  BY <1>1, <1>2 DEF SlotOK, Holders, NoOd, NoSim

(* ofono dies: every call under way is cancelled.                          *)
LEMMA OfonoDiesStep ==
  ASSUME PInv, OfonoExits
  PROVE  PInv'
<1>1. /\ \A s \in Slot : sim[s].there
      /\ sim' = [s \in Slot |-> NoSim] /\ od' = [s \in Slot |-> NoOd] /\ mdm' = [s \in Slot |-> Off]
      /\ radio' \in [Slot -> ModemStates]
      /\ toModem' = [s \in Slot |-> <<>>] /\ news' = [s \in Slot |-> <<>>]
      /\ cancelled' = cancelled \cup UNION {CallsOf(s) : s \in Slot}
      /\ UNCHANGED <<settings, airplane_mode, req>>
  BY DEF OfonoExits
<1>2. cancelled = {} /\ \A s \in Slot : ~sim'[s].there
  BY <1>1, PowerAssumption DEF PInv, CancelledGone, NoSim
<1>3. \A s \in Slot : toModem[s] \in Seq(CallRecord) /\ news[s] \in Seq(MessageRecord)
  BY DEF PInv, Shape
<1>4. SlotOK(NoOd, NoSim, <<>>, <<>>) /\ Holders(<<>>, <<>>) = {}
  <2>1. <<>> \in Seq(CallRecord) /\ DOMAIN <<>> = {}
    OBVIOUS
  <2>2. \A i \in DOMAIN <<>> : <<>>[i].lost /\ <<>>[i].owner = Nobody
    BY <2>1
  <2>. QED
    BY <2>1, <2>2, EmptySlot
<1>5. SlotsOK' /\ \A s \in Slot : Holders(toModem'[s], news'[s]) = {}
  BY <1>1, <1>4 DEF SlotsOK
<1>6. ASSUME NEW s \in Slot
      PROVE  CallsOf(s) \subseteq [slot: {s}, owner: Owner]
  <2>1. \A i \in DOMAIN toModem[s] : toModem[s][i].owner \in Owner
    <3>1. \A i \in DOMAIN toModem[s] : toModem[s][i] \in CallRecord
      BY <1>3
    <3>. QED
      BY <3>1 DEF CallRecord
  <2>2. \A i \in DOMAIN news[s] : news[s][i].owner \in Owner
    <3>1. \A i \in DOMAIN news[s] : news[s][i] \in MessageRecord
      BY <1>3
    <3>. QED
      BY <3>1 DEF MessageRecord
  <2>. QED
    BY <2>1, <2>2 DEF CallsOf
<1>7. ASSUME NEW s \in Slot, NEW r \in 1..MaxRequests
      PROVE  [slot |-> s, owner |-> r] \in CallsOf(s) <=> r \in Holders(toModem[s], news[s])
  <2>0. r # Nobody
    BY PowerAssumption DEF Nobody
  <2>1. \A i \in DOMAIN toModem[s] : toModem[s][i].owner = r => toModem[s][i] \in Switching
    BY <2>0 DEF PInv, SlotsOK, SlotOK
  <2>2. r \in Owners(toModem[s], Switching) <=> \E i \in DOMAIN toModem[s] : toModem[s][i].owner = r
    BY <2>1 DEF Owners, Open
  <2>3. \A i \in DOMAIN news[s] :
          news[s][i].kind \in {"OnlineReply", "PoweredReply"} <=> news[s][i] \in Answering
    BY <1>3 DEF Answering
  <2>4. r \in Owners(news[s], Answering)
          <=> \E i \in DOMAIN news[s] : /\ news[s][i].kind \in {"OnlineReply", "PoweredReply"}
                                        /\ news[s][i].owner = r
    BY <2>3 DEF Owners, Open
  <2>5. \A o : [slot |-> s, owner |-> o] = [slot |-> s, owner |-> r] <=> o = r
    OBVIOUS
  <2>6. [slot |-> s, owner |-> r] \in CallsOf(s)
          <=> \/ \E i \in DOMAIN toModem[s] : toModem[s][i].owner = r
              \/ \E i \in DOMAIN news[s] : /\ news[s][i].kind \in {"OnlineReply", "PoweredReply"}
                                           /\ news[s][i].owner = r
    BY <2>5 DEF CallsOf
  <2>. QED
    BY <2>2, <2>4, <2>6 DEF Holders
<1>8. ASSUME NEW r \in 1..MaxRequests, NEW s \in Slot
      PROVE  s \in Held(r)' <=> s \in Held(r)
  <2>1. s \in Held(r) <=> r \in Holders(toModem[s], news[s])
    BY <1>2 DEF Held
  <2>2. s \in Held(r)' <=> [slot |-> s, owner |-> r] \in cancelled'
    BY <1>5 DEF Held
  <2>3. [slot |-> s, owner |-> r] \in cancelled' <=> [slot |-> s, owner |-> r] \in CallsOf(s)
    <3>1. \A u \in Slot : [slot |-> s, owner |-> r] \in CallsOf(u) => u = s
      BY <1>6
    <3>. QED
      BY <1>1, <1>2, <3>1
  <2>. QED
    BY <1>7, <2>1, <2>2, <2>3
<1>9. \A r \in 1..MaxRequests : Held(r)' = Held(r)
  <2>1. \A r : Held(r) \subseteq Slot /\ Held(r)' \subseteq Slot
    BY DEF Held
  <2>. QED
    BY <1>8, <2>1
<1>10. RequestsOK' /\ InOrder'
  BY <1>1, <1>9 DEF PInv, RequestsOK, RequestOK, InOrder
<1>11. CancelledGone'
  BY <1>2 DEF CancelledGone
<1>12. Shape'
  <2>1. cancelled' \subseteq [slot: Slot, owner: Owner]
    BY <1>1, <1>2, <1>6
  <2>2. sim' \in [Slot -> SimRecord] /\ od' \in [Slot -> OdRecord] /\ mdm' \in [Slot -> ObjRecord]
    BY <1>1 DEF NoSim, NoOd, Off, SimRecord, OdRecord, ObjRecord
  <2>3. toModem' \in [Slot -> Seq(CallRecord)] /\ news' \in [Slot -> Seq(MessageRecord)]
    BY <1>1
  <2>. QED
    BY <1>1, <2>1, <2>2, <2>3 DEF PInv, Shape, settings
<1>. QED
  BY <1>5, <1>10, <1>11, <1>12 DEF PInv

(* The daemon dies: its requests are lost, and its calls go on for nobody. *)
LEMMA DaemonDiesStep ==
  ASSUME PInv, DaemonDies
  PROVE  PInv'
<1>1. /\ airplane_mode' = stored_airplane
      /\ sim' = [s \in Slot |-> NoSim] /\ od' = [s \in Slot |-> NoOd] /\ mdm' = [s \in Slot |-> Off]
      /\ toModem' = [s \in Slot |-> [i \in DOMAIN toModem[s] |->
                                       [toModem[s][i] EXCEPT !.owner = Nobody, !.lost = TRUE]]]
      /\ news' = [s \in Slot |-> <<>>] /\ cancelled' = {}
      /\ req' = [r \in DOMAIN req |-> IF req[r].pending > 0
                                      THEN [req[r] EXCEPT !.kind = "lost", !.pending = 0] ELSE req[r]]
      /\ UNCHANGED <<settings, radio>>
  BY DEF DaemonDies
<1>2. ASSUME NEW s \in Slot
      PROVE  /\ toModem'[s] \in Seq(CallRecord)
             /\ \A i \in DOMAIN toModem'[s] : toModem'[s][i].lost /\ toModem'[s][i].owner = Nobody
  <2>1. toModem[s] \in Seq(CallRecord)
    BY DEF PInv, Shape
  <2>. DEFINE lost(c) == [c EXCEPT !.owner = Nobody, !.lost = TRUE]
  <2>2. \A c \in CallRecord : lost(c) \in CallRecord /\ lost(c).lost /\ lost(c).owner = Nobody
    BY DEF CallRecord, Owner
  <2>3. toModem'[s] = [i \in DOMAIN toModem[s] |-> lost(toModem[s][i])]
    BY <1>1
  <2>. HIDE DEF lost
  <2>4. DOMAIN toModem[s] = 1..Len(toModem[s]) /\ Len(toModem[s]) \in Nat
    BY <2>1
  <2>. QED
    BY <2>1, <2>2, <2>3, <2>4
<1>3. \A s \in Slot : SlotOK(NoOd, NoSim, toModem'[s], <<>>) /\ Holders(toModem'[s], <<>>) = {}
  BY <1>2, EmptySlot
<1>4. SlotsOK' /\ \A s \in Slot : Holders(toModem'[s], news'[s]) = {}
  BY <1>1, <1>3 DEF SlotsOK
<1>5. \A r \in 1..MaxRequests : Held(r)' = {}
  BY <1>1, <1>4 DEF Held
<1>6. ASSUME NEW r \in 1..MaxRequests
      PROVE  /\ req'[r] \in RequestRecord /\ req'[r].pending = 0
             /\ req'[r].kind # "none" <=> req[r].kind # "none"
             /\ req'[r].answers = IF req'[r].kind \notin {"none", "lost"} THEN 1 ELSE 0
  <2>1. req[r] \in RequestRecord /\ RequestOK(r)
    BY DEF PInv, RequestsOK, Shape
  <2>2. CASE req[r].pending > 0
    <3>. DEFINE lost(x) == [x EXCEPT !.kind = "lost", !.pending = 0]
    <3>1. req'[r] = lost(req[r])
      BY <1>1, <2>2 DEF PInv, Shape
    <3>a. \A x \in RequestRecord : /\ lost(x) \in RequestRecord /\ lost(x).pending = 0
                                   /\ lost(x).kind = "lost" /\ lost(x).answers = x.answers
      BY DEF RequestRecord
    <3>. HIDE DEF lost
    <3>2. /\ req'[r] \in RequestRecord /\ req'[r].pending = 0 /\ req'[r].kind = "lost"
          /\ req'[r].answers = req[r].answers
      BY <2>1, <3>1, <3>a
    <3>. QED
      BY <2>1, <2>2, <3>2 DEF RequestOK, Switchers, RequestRecord
  <2>3. CASE ~(req[r].pending > 0)
    <3>1. req'[r] = req[r]
      BY <1>1, <2>3 DEF PInv, Shape
    <3>2. req[r].pending = 0
      BY <2>1, <2>3 DEF RequestRecord
    <3>. QED
      BY <2>1, <3>1, <3>2 DEF RequestOK
  <2>. QED
    BY <2>2, <2>3
<1>7. RequestsOK'
  <2>1. ASSUME NEW r \in 1..MaxRequests
        PROVE  RequestOK(r)'
    BY <1>5, <1>6, FS_EmptySet DEF RequestOK
  <2>. QED
    BY <2>1 DEF RequestsOK
<1>8. InOrder'
  BY <1>6 DEF PInv, InOrder
<1>9. CancelledGone'
  BY <1>1 DEF CancelledGone
<1>10. Shape'
  <2>1. sim' \in [Slot -> SimRecord] /\ od' \in [Slot -> OdRecord] /\ mdm' \in [Slot -> ObjRecord]
    BY <1>1 DEF NoSim, NoOd, Off, SimRecord, OdRecord, ObjRecord
  <2>2. toModem' \in [Slot -> Seq(CallRecord)] /\ news' \in [Slot -> Seq(MessageRecord)]
    <3>1. toModem' = [s \in Slot |-> toModem'[s]]
      BY <1>1
    <3>2. toModem' \in [Slot -> Seq(CallRecord)]
      BY <1>2, <3>1
    <3>3. news' = [s \in Slot |-> <<>>]
      BY <1>1
    <3>. QED
      BY <3>2, <3>3
  <2>3. req' \in [1..MaxRequests -> RequestRecord]
    BY <1>1, <1>6 DEF PInv, Shape
  <2>. QED
    BY <1>1, <2>1, <2>2, <2>3 DEF PInv, Shape, settings
<1>. QED
  BY <1>4, <1>7, <1>8, <1>9, <1>10 DEF PInv

(* A reply and a signal, one after the other.                              *)
LEMMA TwoMessages ==
  ASSUME NEW q \in Seq(MessageRecord), NEW a \in MessageRecord, NEW b \in MessageRecord
  PROVE  q \o (<<a>> \o <<b>>) = Append(Append(q, a), b)
<1>. DEFINE l == q \o (<<a>> \o <<b>>)
            r == Append(Append(q, a), b)
<1>1. <<a>> \o <<b>> \in Seq(MessageRecord) /\ Len(<<a>> \o <<b>>) = 2
      /\ (<<a>> \o <<b>>)[1] = a /\ (<<a>> \o <<b>>)[2] = b
  OBVIOUS
<1>2. l \in Seq(MessageRecord) /\ Len(l) = Len(q) + 2 /\ Len(q) \in Nat
      /\ \A i \in 1..(Len(q) + 2) : l[i] = IF i <= Len(q) THEN q[i] ELSE IF i = Len(q) + 1 THEN a ELSE b
  BY <1>1
<1>3. r \in Seq(MessageRecord) /\ Len(r) = Len(q) + 2
      /\ \A i \in 1..(Len(q) + 2) : r[i] = IF i <= Len(q) THEN q[i] ELSE IF i = Len(q) + 1 THEN a ELSE b
  OBVIOUS
<1>. HIDE DEF l, r
<1>4. l = r
  BY <1>2, <1>3
<1>. QED
  BY <1>4 DEF l, r

(* The slot hears more, if it is there, while the calls to its modem       *)
(* become rest: it stays as it should be and the same ones wait for it.    *)
Hears(d, p, calls, q, rest, said) ==
  LET mm == IF p.there THEN q \o said ELSE q
  IN  SlotOK(d, p, rest, mm) /\ Holders(rest, mm) = Holders(calls, q)

(* A modem tells one thing, or two.                                        *)
LEMMA ToldMore ==
  ASSUME NEW d, NEW p, NEW calls, NEW q, SlotOK(d, p, calls, q),
         NEW a \in MessageRecord \ Answering, NEW b \in MessageRecord \ Answering
  PROVE  Hears(d, p, calls, q, calls, <<b>>) /\ Hears(d, p, calls, q, calls, <<a>> \o <<b>>)
<1>. q \in Seq(MessageRecord)
  BY DEF SlotOK
<1>1. CASE ~p.there
  BY <1>1 DEF Hears
<1>2. CASE p.there
  <2>1. q \o <<b>> = Append(q, b) /\ q \o (<<a>> \o <<b>>) = Append(Append(q, a), b)
    BY TwoMessages
  <2>2. SlotOK(d, p, calls, Append(q, b)) /\ Holders(calls, Append(q, b)) = Holders(calls, q)
    BY <1>2, Told
  <2>3. SlotOK(d, p, calls, Append(q, a)) /\ Holders(calls, Append(q, a)) = Holders(calls, q)
    BY <1>2, Told
  <2>4. /\ SlotOK(d, p, calls, Append(Append(q, a), b))
        /\ Holders(calls, Append(Append(q, a), b)) = Holders(calls, Append(q, a))
    BY <1>2, <2>3, Told
  <2>. QED
    BY <1>2, <2>1, <2>2, <2>3, <2>4 DEF Hears
<1>. QED
  BY <1>1, <1>2

(* A call that is replied to, with a signal before the reply, after it or  *)
(* without one.                                                            *)
LEMMA CallDone ==
  ASSUME NEW d, NEW p, NEW calls, NEW q, SlotOK(d, p, calls, q),
         calls # <<>>, Head(calls) \in Switching,
         NEW m \in Answering, m.owner = Head(calls).owner,
         NEW a \in MessageRecord \ Answering
  PROVE  /\ Hears(d, p, calls, q, Tail(calls), <<m>>)
         /\ Hears(d, p, calls, q, Tail(calls), <<m>> \o <<a>>)
         /\ Hears(d, p, calls, q, Tail(calls), <<a>> \o <<m>>)
<1>. q \in Seq(MessageRecord)
  BY DEF SlotOK
<1>0. m \in MessageRecord
  BY DEF Answering
<1>1. p.there
  BY CallAnswered
<1>2. /\ SlotOK(d, p, Tail(calls), Append(q, m)) /\ Append(q, m) \in Seq(MessageRecord)
      /\ Holders(Tail(calls), Append(q, m)) = Holders(calls, q)
  BY <1>0, CallAnswered
<1>3. Hears(d, p, calls, q, Tail(calls), <<m>>)
  <2>1. q \o <<m>> = Append(q, m)
    BY <1>0
  <2>. QED
    BY <1>1, <1>2, <2>1 DEF Hears
<1>4. Hears(d, p, calls, q, Tail(calls), <<m>> \o <<a>>)
  <2>1. q \o (<<m>> \o <<a>>) = Append(Append(q, m), a)
    BY <1>0, TwoMessages
  <2>2. /\ SlotOK(d, p, Tail(calls), Append(Append(q, m), a))
        /\ Holders(Tail(calls), Append(Append(q, m), a)) = Holders(Tail(calls), Append(q, m))
    BY <1>1, <1>2, Told
  <2>. QED
    BY <1>1, <1>2, <2>1, <2>2 DEF Hears
<1>5. Hears(d, p, calls, q, Tail(calls), <<a>> \o <<m>>)
  <2>1. q \o (<<a>> \o <<m>>) = Append(Append(q, a), m)
    BY <1>0, TwoMessages
  <2>2. /\ SlotOK(d, p, calls, Append(q, a)) /\ Holders(calls, Append(q, a)) = Holders(calls, q)
    BY <1>1, Told
  <2>3. /\ SlotOK(d, p, Tail(calls), Append(Append(q, a), m))
        /\ Holders(Tail(calls), Append(Append(q, a), m)) = Holders(calls, Append(q, a))
    BY <2>2, CallAnswered
  <2>. QED
    BY <1>1, <2>1, <2>2, <2>3 DEF Hears
<1>. QED
  BY <1>3, <1>4, <1>5

(* A call that switches is carried out or refused: the slot hears of it,   *)
(* if it is the one that made it.                                          *)
LEMMA CallHandled ==
  ASSUME NEW d, NEW p, NEW calls, NEW q, SlotOK(d, p, calls, q),
         calls # <<>>, NEW c, c = Head(calls), c.kind # "get", NEW ok \in BOOLEAN,
         NEW a \in MessageRecord \ Answering
  PROVE  /\ Hears(d, p, calls, q, Tail(calls), Reply(c, ok))
         /\ Hears(d, p, calls, q, Tail(calls), Reply(c, ok) \o <<a>>)
         /\ Hears(d, p, calls, q, Tail(calls), <<a>> \o Reply(c, ok))
<1>. calls \in Seq(CallRecord) /\ q \in Seq(MessageRecord)
  BY DEF SlotOK
<1>1. c \in CallRecord
  OBVIOUS
<1>2. CASE c.lost
  <2>1. Head(calls) \notin Switching
    BY <1>2 DEF Switching
  <2>2. /\ SlotOK(d, p, Tail(calls), q) /\ Holders(Tail(calls), q) = Holders(calls, q)
    BY <2>1, OtherCallTaken
  <2>3. Reply(c, ok) = <<>> /\ <<>> \o <<a>> = <<a>> /\ <<a>> \o <<>> = <<a>>
    BY <1>2 DEF Reply
  <2>4. q \o <<>> = q
    OBVIOUS
  <2>5. Hears(d, p, Tail(calls), q, Tail(calls), <<a>>)
    BY <2>2, ToldMore
  <2>6. Hears(d, p, calls, q, Tail(calls), <<a>>)
    BY <2>2, <2>5 DEF Hears
  <2>7. Hears(d, p, calls, q, Tail(calls), <<>>)
    BY <2>2, <2>4 DEF Hears
  <2>. QED
    BY <2>3, <2>6, <2>7
<1>3. CASE ~c.lost
  <2>1. Head(calls) \in Switching
    BY <1>1, <1>3 DEF Switching
  <2>2. PICK m : m = Tidings(IF c.kind = "Online" THEN "OnlineReply" ELSE "PoweredReply", ok, c.owner)
    OBVIOUS
  <2>3. m \in Answering /\ m.owner = Head(calls).owner
    BY <1>1, <2>2 DEF Tidings, Answering, MessageRecord, CallRecord
  <2>4. Reply(c, ok) = <<m>>
    BY <1>3, <2>2 DEF Reply
  <2>5. /\ Hears(d, p, calls, q, Tail(calls), <<m>>)
        /\ Hears(d, p, calls, q, Tail(calls), <<m>> \o <<a>>)
        /\ Hears(d, p, calls, q, Tail(calls), <<a>> \o <<m>>)
    BY <2>1, <2>3, CallDone
  <2>. QED
    BY <2>4, <2>5
<1>. QED
  BY <1>2, <1>3

(* What a slot is told, it is told last.                                   *)
LEMMA SayFrame ==
  ASSUME Shape, NEW s \in Slot, NEW said, Say(s, said), news[s] \o said \in Seq(MessageRecord)
  PROVE  /\ news'[s] = IF sim[s].there THEN news[s] \o said ELSE news[s]
         /\ \A u \in Slot : u # s => news'[u] = news[u]
         /\ news' \in [Slot -> Seq(MessageRecord)]
BY DEF Say, Shape

(* A message of a modem.                                                   *)
LEMMA Messages ==
  /\ \A kind \in {"Online", "Powered"}, v \in BOOLEAN :
       Tidings(kind, v, Nobody) \in MessageRecord \ Answering
  /\ \A m \in ModemStates : Tidings("Properties", m, Nobody) \in MessageRecord \ Answering
BY DEF Tidings, MessageRecord, Answering, Owner

(* ofono handles a call: whatever becomes of it, the slot it is for is     *)
(* told in the end.                                                        *)
LEMMA OfonoHandlesStep ==
  ASSUME PInv, OfonoHandles
  PROVE  PInv'
<1>1. PICK s \in Slot : /\ toModem[s] # <<>>
                        /\ toModem' = [toModem EXCEPT ![s] = Tail(@)]
                        /\ Handles(s, Head(toModem[s]))
  BY DEF OfonoHandles
<1>2. UNCHANGED <<settings, copies, cancelled, req>>
  BY DEF OfonoHandles
<1>3. /\ SlotOK(od[s], sim[s], toModem[s], news[s]) /\ radio[s] \in ModemStates
      /\ toModem[s] \in Seq(CallRecord) /\ news[s] \in Seq(MessageRecord)
  BY DEF PInv, SlotsOK, Shape
<1>4. PICK c \in CallRecord : c = Head(toModem[s])
  BY <1>1, <1>3
<1>5. Handles(s, c)
  BY <1>1, <1>4
<1>. DEFINE Settled(said) ==
              Hears(od[s], sim[s], toModem[s], news[s], Tail(toModem[s]), said)
<1>6. ASSUME NEW said, Say(s, said), Settled(said), news[s] \o said \in Seq(MessageRecord),
             radio' \in [Slot -> ModemStates]
      PROVE  PInv'
  <2>1. /\ news'[s] = IF sim[s].there THEN news[s] \o said ELSE news[s]
        /\ \A u \in Slot : u # s => news'[u] = news[u]
        /\ news' \in [Slot -> Seq(MessageRecord)]
    BY <1>6, SayFrame DEF PInv
  <2>2. PICK mm : mm = news'[s]
    OBVIOUS
  <2>3. /\ SlotOK(od[s], sim[s], Tail(toModem[s]), mm)
        /\ Holders(Tail(toModem[s]), mm) = Holders(toModem[s], news[s])
    BY <1>6, <2>1, <2>2 DEF Hears
  <2>4. /\ toModem' \in [Slot -> Seq(CallRecord)] /\ toModem'[s] = Tail(toModem[s])
        /\ \A u \in Slot : u # s => toModem'[u] = toModem[u]
    <3>1. Tail(toModem[s]) \in Seq(CallRecord)
      BY <1>1, <1>3
    <3>. QED
      BY <1>1, <3>1 DEF PInv, Shape
  <2>5. od' = od /\ sim' = sim /\ cancelled' = cancelled /\ req' = req
    BY <1>2 DEF copies
  <2>6. Shape'
    BY <1>2, <1>6, <2>1, <2>4 DEF PInv, Shape, settings, copies
  <2>7. SlotOK(od'[s], sim'[s], toModem'[s], news'[s])
    BY <2>2, <2>3, <2>4, <2>5
  <2>8. Holders(toModem'[s], news'[s]) = Holders(toModem[s], news[s])
    BY <2>2, <2>3, <2>4
  <2>9. \A u \in Slot : u # s => /\ od'[u] = od[u] /\ sim'[u] = sim[u]
                                 /\ toModem'[u] = toModem[u] /\ news'[u] = news[u]
    BY <2>1, <2>4, <2>5
  <2>. QED
    BY <2>5, <2>6, <2>7, <2>8, <2>9, OneSlotChanges
<1>. HIDE DEF Settled
<1>7. CASE /\ c.kind = "get"
           /\ Say(s, IF c.lost THEN <<>> ELSE <<Tidings("Properties", radio[s], Nobody)>>)
           /\ UNCHANGED radio
  <2>1. PICK a \in MessageRecord \ Answering : a = Tidings("Properties", radio[s], Nobody)
    BY <1>3, Messages
  <2>2. PICK said : said = IF c.lost THEN <<>> ELSE <<a>>
    OBVIOUS
  <2>3. Say(s, said)
    BY <1>7, <2>1, <2>2
  <2>4. c \notin Switching
    BY <1>7 DEF Switching
  <2>5. /\ SlotOK(od[s], sim[s], Tail(toModem[s]), news[s])
        /\ Holders(Tail(toModem[s]), news[s]) = Holders(toModem[s], news[s])
    BY <1>1, <1>3, <1>4, <2>4, OtherCallTaken
  <2>6. news[s] \o said = IF c.lost THEN news[s] ELSE Append(news[s], a)
    <3>1. CASE c.lost
      <4>1. said = <<>>
        BY <2>2, <3>1
      <4>. QED
        BY <1>3, <3>1, <4>1
    <3>2. CASE ~c.lost
      <4>1. said = <<a>>
        BY <2>2, <3>2
      <4>. QED
        BY <1>3, <3>2, <4>1
    <3>. QED
      BY <3>1, <3>2
  <2>7. sim[s].there => /\ SlotOK(od[s], sim[s], Tail(toModem[s]), Append(news[s], a))
                        /\ Holders(Tail(toModem[s]), Append(news[s], a))
                             = Holders(Tail(toModem[s]), news[s])
    BY <2>5, Told
  <2>8. Settled(said)
    BY <2>5, <2>6, <2>7 DEF Settled, Hears
  <2>9. news[s] \o said \in Seq(MessageRecord)
    BY <1>3, <2>6
  <2>. QED
    BY <1>6, <1>7, <2>3, <2>8, <2>9 DEF PInv, Shape
<1>8. ASSUME c.kind # "get", NEW ok \in BOOLEAN, NEW a \in MessageRecord \ Answering,
             NEW signal \in {<<>>, <<a>>},
             NEW said \in {Reply(c, ok) \o signal, signal \o Reply(c, ok)}
      PROVE  Settled(said) /\ news[s] \o said \in Seq(MessageRecord)
  <2>1. Settled(said)
    <3>1. toModem[s] # <<>> /\ c = Head(toModem[s])
      BY <1>1, <1>4
    <3>2. Settled(Reply(c, ok)) /\ Settled(Reply(c, ok) \o <<a>>) /\ Settled(<<a>> \o Reply(c, ok))
      BY <1>3, <1>8, <3>1, CallHandled DEF Settled
    <3>3. Reply(c, ok) \o <<>> = Reply(c, ok) /\ <<>> \o Reply(c, ok) = Reply(c, ok)
      BY DEF Reply
    <3>. QED
      BY <1>8, <3>2, <3>3
  <2>2. Reply(c, ok) \in Seq(MessageRecord)
    BY DEF Reply, Tidings, MessageRecord, CallRecord
  <2>3. signal \in Seq(MessageRecord)
    <3>1. <<>> \in Seq(MessageRecord) /\ <<a>> \in Seq(MessageRecord)
      OBVIOUS
    <3>. QED
      BY <3>1
  <2>4. said \in Seq(MessageRecord)
    <3>1. \A x, y \in Seq(MessageRecord) : x \o y \in Seq(MessageRecord)
      OBVIOUS
    <3>. QED
      BY <1>8, <2>2, <2>3, <3>1
  <2>. QED
    BY <1>3, <2>1, <2>4
<1>9. CASE /\ c.kind # "get" /\ Say(s, Reply(c, FALSE)) /\ UNCHANGED radio
  <2>1. PICK a \in MessageRecord \ Answering : TRUE
    BY Messages
  <2>2. Reply(c, FALSE) = Reply(c, FALSE) \o <<>>
    BY DEF Reply
  <2>3. PICK said : said = Reply(c, FALSE) \o <<>>
    OBVIOUS
  <2>4. Say(s, said)
    BY <1>9, <2>2, <2>3
  <2>5. Settled(said) /\ news[s] \o said \in Seq(MessageRecord)
    BY <1>8, <1>9, <2>3
  <2>. QED
    BY <1>6, <1>9, <2>4, <2>5 DEF PInv, Shape
<1>10. ASSUME NEW changed, Done(s, c, changed), c.kind # "get",
              radio' \in [Slot -> ModemStates]
       PROVE  PInv'
  <2>1. PICK a \in MessageRecord \ Answering : a = Tidings(c.kind, c.value, Nobody)
    BY <1>10, Messages DEF CallRecord
  <2>2. PICK signal \in {<<>>, <<a>>} : signal = IF changed THEN <<a>> ELSE <<>>
    OBVIOUS
  <2>3. PICK said \in {Reply(c, TRUE) \o signal, signal \o Reply(c, TRUE)} : Say(s, said)
    BY <1>10, <2>1, <2>2 DEF Done
  <2>4. Settled(said) /\ news[s] \o said \in Seq(MessageRecord)
    BY <1>8, <1>10, <2>3
  <2>. QED
    BY <1>6, <1>10, <2>3, <2>4 DEF PInv, Shape
<1>11. CASE /\ c.kind = "Powered"
            /\ radio' = [radio EXCEPT ![s].powered = TRUE]
            /\ Done(s, c, ~radio[s].powered)
  <2>1. radio' \in [Slot -> ModemStates]
    BY <1>11 DEF PInv, Shape, ModemStates
  <2>2. PICK changed : changed = ~radio[s].powered
    OBVIOUS
  <2>. QED
    BY <1>10, <1>11, <2>1, <2>2
<1>12. CASE /\ c.kind = "Online" /\ (c.value => radio[s].powered)
            /\ radio' = [radio EXCEPT ![s].online = c.value]
            /\ Done(s, c, radio[s].online # c.value)
  <2>1. radio' \in [Slot -> ModemStates]
    BY <1>12 DEF PInv, Shape, ModemStates, CallRecord
  <2>2. PICK changed : changed = (radio[s].online # c.value)
    OBVIOUS
  <2>. QED
    BY <1>10, <1>12, <2>1, <2>2
<1>. QED
  BY <1>5, <1>7, <1>9, <1>11, <1>12 DEF Handles

(* A modem gets or loses its power by itself.                              *)
LEMMA ModemStep ==
  ASSUME PInv, RadioPowers \/ RadioLosesPower
  PROVE  PInv'
<1>1. UNCHANGED <<settings, copies, toModem, cancelled, req>>
  BY DEF RadioPowers, RadioLosesPower
<1>2. PICK s \in Slot, a \in MessageRecord \ Answering, b \in MessageRecord \ Answering :
        \E more \in {<<>>, <<a>>} :
          /\ Say(s, more \o <<b>>)
          /\ radio' \in [Slot -> ModemStates]
  <2>1. CASE RadioPowers
    <3>1. PICK s \in Slot : /\ radio' = [radio EXCEPT ![s].powered = TRUE]
                            /\ Say(s, <<Tidings("Powered", TRUE, Nobody)>>)
      BY <2>1 DEF RadioPowers
    <3>2. PICK b \in MessageRecord \ Answering : b = Tidings("Powered", TRUE, Nobody)
      BY Messages
    <3>3. Say(s, <<>> \o <<b>>)
      <4>1. <<>> \o <<b>> = <<b>>
        OBVIOUS
      <4>. QED
        BY <3>1, <3>2, <4>1
    <3>4. radio' \in [Slot -> ModemStates]
      BY <3>1 DEF PInv, Shape, ModemStates
    <3>. QED
      BY <3>3, <3>4
  <2>2. CASE RadioLosesPower
    <3>1. PICK s \in Slot :
            /\ radio' = [radio EXCEPT ![s] = Off]
            /\ Say(s, (IF radio[s].online THEN <<Tidings("Online", FALSE, Nobody)>> ELSE <<>>)
                      \o <<Tidings("Powered", FALSE, Nobody)>>)
      BY <2>2 DEF RadioLosesPower
    <3>2. PICK a \in MessageRecord \ Answering, b \in MessageRecord \ Answering :
            a = Tidings("Online", FALSE, Nobody) /\ b = Tidings("Powered", FALSE, Nobody)
      BY Messages
    <3>3. PICK more \in {<<>>, <<a>>} : more = IF radio[s].online THEN <<a>> ELSE <<>>
      OBVIOUS
    <3>4. Say(s, more \o <<b>>)
      BY <3>1, <3>2, <3>3
    <3>5. radio' \in [Slot -> ModemStates]
      BY <3>1 DEF PInv, Shape, ModemStates, Off
    <3>. QED
      BY <3>4, <3>5
  <2>. QED
    BY <2>1, <2>2
<1>3. PICK said \in {<<b>>, <<a>> \o <<b>>} : Say(s, said)
  <2>1. <<>> \o <<b>> = <<b>>
    OBVIOUS
  <2>. QED
    BY <1>2, <2>1
<1>4. /\ SlotOK(od[s], sim[s], toModem[s], news[s]) /\ news[s] \in Seq(MessageRecord)
  BY DEF PInv, SlotsOK, Shape
<1>6. news[s] \o said \in Seq(MessageRecord)
  <2>1. <<b>> \in Seq(MessageRecord) /\ <<a>> \o <<b>> \in Seq(MessageRecord)
    OBVIOUS
  <2>2. said \in Seq(MessageRecord)
    BY <2>1
  <2>3. \A x, y \in Seq(MessageRecord) : x \o y \in Seq(MessageRecord)
    OBVIOUS
  <2>. QED
    BY <1>4, <2>2, <2>3
<1>7. Hears(od[s], sim[s], toModem[s], news[s], toModem[s], said)
  <2>1. /\ Hears(od[s], sim[s], toModem[s], news[s], toModem[s], <<b>>)
        /\ Hears(od[s], sim[s], toModem[s], news[s], toModem[s], <<a>> \o <<b>>)
    BY <1>4, ToldMore
  <2>. QED
    BY <2>1
<1>8. /\ news'[s] = IF sim[s].there THEN news[s] \o said ELSE news[s]
      /\ \A u \in Slot : u # s => news'[u] = news[u]
      /\ news' \in [Slot -> Seq(MessageRecord)]
  BY <1>3, <1>6, SayFrame DEF PInv
<1>9. od' = od /\ sim' = sim /\ cancelled' = cancelled /\ req' = req /\ toModem' = toModem
  BY <1>1 DEF copies
<1>10. Shape'
  BY <1>1, <1>2, <1>8 DEF PInv, Shape, settings, copies
<1>11. /\ SlotOK(od'[s], sim'[s], toModem'[s], news'[s])
       /\ Holders(toModem'[s], news'[s]) = Holders(toModem[s], news[s])
  BY <1>7, <1>8, <1>9 DEF Hears
<1>12. \A u \in Slot : u # s => /\ od'[u] = od[u] /\ sim'[u] = sim[u]
                                /\ toModem'[u] = toModem[u] /\ news'[u] = news[u]
  BY <1>8, <1>9
<1>. QED
  BY <1>9, <1>10, <1>11, <1>12, OneSlotChanges

-----------------------------------------------------------------------------
(***************************************************************************)
(* The invariant, and what follows from it.                                *)
(***************************************************************************)
LEMMA PowerStep ==
  ASSUME PInv, [PowerNext]_powerVars
  PROVE  PInv'
<1>1. CASE power_set
  BY <1>1, PowerSetStep
<1>2. CASE power_set_refused \/ airplane_mode_not_stored
  BY <1>2, RefusedStep
<1>3. CASE airplane_mode_set
  BY <1>3, AirplaneSetStep
<1>4. CASE set_online_cb
  BY <1>4, OnlineRepliedStep
<1>5. CASE set_powered_cb
  BY <1>5, PoweredRepliedStep
<1>6. CASE CallCancelled
  BY <1>6, CancelledStep
<1>7. CASE online_changed
  BY <1>7, OnlineToldStep
<1>8. CASE powered_arrives
  BY <1>8, PowerToldStep
<1>9. CASE SlotsCome
  BY <1>9, SlotsComeStep
<1>10. CASE OfonoExits
  BY <1>10, OfonoDiesStep
<1>11. CASE DaemonDies
  BY <1>11, DaemonDiesStep
<1>12. CASE OfonoHandles
  BY <1>12, OfonoHandlesStep
<1>13. CASE RadioPowers \/ RadioLosesPower
  BY <1>13, ModemStep
<1>14. CASE UNCHANGED powerVars
  <2>1. UNCHANGED <<settings, copies, radio, bus, req>>
    BY <1>14 DEF powerVars
  <2>2. Shape'
    BY <2>1 DEF PInv, Shape, settings, copies, bus
  <2>3. SlotsOK' /\ CancelledGone'
    BY <2>1 DEF PInv, SlotsOK, CancelledGone, copies, bus
  <2>4. RequestsOK' /\ InOrder'
    BY <2>1, NobodyAnswered DEF copies, bus
  <2>. QED
    BY <2>2, <2>3, <2>4 DEF PInv
<1>. QED
  BY <1>1, <1>2, <1>3, <1>4, <1>5, <1>6, <1>7, <1>8, <1>9, <1>10, <1>11, <1>12, <1>13, <1>14
     DEF PowerNext, Requests, Handlers

(* As many answers are due to a request as slots switch for it or have a   *)
(* call for it that is being cancelled; at most one switch is under way at *)
(* a slot, and its marker says whether.                                    *)
THEOREM DueAnswersAreCounted == PowerSpec => []PInv
<1>1. PowerInit => PInv
  BY InitPInv
<1>2. PInv /\ [PowerNext]_powerVars => PInv'
  BY PowerStep
<1>. QED
  BY <1>1, <1>2, PTL DEF PowerSpec

(* The history variables.                                                  *)
HistoryOK ==
  /\ asked \in [Slot -> BOOLEAN] /\ expected \in [Slot -> BOOLEAN]
  /\ overruled \in BOOLEAN /\ patient \in BOOLEAN

(* Every step keeps their types.                                           *)
LEMMA HistoryStep ==
  ASSUME HistoryOK, [PowerNext]_powerVars
  PROVE  HistoryOK'
<1>1. CASE power_set
  BY <1>1 DEF power_set, HistoryOK
<1>2. CASE airplane_mode_set
  <2>1. PICK airplane \in BOOLEAN :
          /\ expected' = [s \in Slot |-> sim[s].initialized /\ ~airplane /\ asked[s]]
          /\ overruled' = (overruled \/ Overruled(airplane, {s \in Slot : sim[s].initialized}))
    BY <1>2 DEF airplane_mode_set
  <2>2. patient' = (patient /\ Still) /\ asked' = asked
    BY <1>2 DEF airplane_mode_set
  <2>. QED
    BY <2>1, <2>2 DEF HistoryOK
<1>3. CASE powered_arrives
  <2>1. PICK s \in Slot :
          LET up == od[s].initializing /\ ObjectAfter(s).powered
          IN  IF up
              THEN /\ expected' = [expected EXCEPT ![s] = ~airplane_mode /\ asked[s]]
                   /\ overruled' = (overruled \/ Overruled(airplane_mode, {s}))
              ELSE UNCHANGED <<expected, overruled>>
    BY <1>3 DEF powered_arrives
  <2>2. asked' = asked /\ patient' = patient
    BY <1>3 DEF powered_arrives
  <2>. QED
    BY <2>1, <2>2 DEF HistoryOK
<1>4. CASE OfonoExits \/ DaemonDies \/ RadioLosesPower
  BY <1>4 DEF OfonoExits, DaemonDies, RadioLosesPower, HistoryOK
<1>5. CASE OfonoHandles
  <2>1. UNCHANGED <<asked, expected, overruled>> /\ patient' \in {patient, FALSE}
    BY <1>5 DEF OfonoHandles, Handles
  <2>. QED
    BY <2>1 DEF HistoryOK
<1>6. CASE \/ power_set_refused \/ airplane_mode_not_stored \/ set_online_cb \/ set_powered_cb
           \/ CallCancelled \/ online_changed \/ SlotsCome \/ RadioPowers \/ UNCHANGED powerVars
  <2>1. UNCHANGED history
    BY <1>6 DEF power_set_refused, airplane_mode_not_stored, set_online_cb, set_powered_cb,
                CallCancelled, online_changed, SlotsCome, RadioPowers, powerVars
  <2>. QED
    BY <2>1 DEF HistoryOK, history
<1>. QED
  BY <1>1, <1>2, <1>3, <1>4, <1>5, <1>6 DEF PowerNext, Requests, Handlers

(* They keep their types.                                                  *)
LEMMA HistoryIsTyped == PowerSpec => []HistoryOK
<1>1. PowerInit => HistoryOK
  BY DEF PowerInit, HistoryOK
<1>2. HistoryOK /\ [PowerNext]_powerVars => HistoryOK'
  BY HistoryStep
<1>. QED
  BY <1>1, <1>2, PTL DEF PowerSpec

(* No more slots answer a request than there are, and the rest of the      *)
(* state keeps its type too.                                               *)
THEOREM PowerIsWellTyped == PowerSpec => []PowerTypeOK
<1>1. ASSUME PInv, HistoryOK
      PROVE  PowerTypeOK
  <2>1. ASSUME NEW r \in DOMAIN req
        PROVE  req[r].pending \in 0..Cardinality(Slot)
    <3>1. RequestOK(r) /\ req[r].pending = Cardinality(Held(r))
      BY <1>1 DEF PInv, Shape, RequestsOK, RequestOK
    <3>2. Held(r) \subseteq Slot
      BY DEF Held
    <3>3. Cardinality(Held(r)) <= Cardinality(Slot) /\ Cardinality(Slot) \in Nat
      BY <3>2, PowerAssumption, FS_Subset, FS_CardinalityType
    <3>. QED
      BY <3>1, <3>3, HeldFinite
  <2>. QED
    BY <1>1, <2>1 DEF PInv, Shape, HistoryOK, PowerTypeOK, SimRecord, OdRecord, ObjRecord
<1>2. PInv /\ HistoryOK => PowerTypeOK
  BY <1>1
<1>. QED
  BY <1>2, DueAnswersAreCounted, HistoryIsTyped, PTL

(* powerSet and airplaneModeSet are answered once, when the last of their  *)
(* slots has answered and not before, whatever fails, and however calls,   *)
(* replies, cancellations and restarts interleave.                         *)
THEOREM EachIsAnsweredOnce == PowerSpec => []AnsweredOnce
<1>1. ASSUME PInv
      PROVE  AnsweredOnce
  BY <1>1 DEF PInv, Shape, RequestsOK, RequestOK, AnsweredOnce
<1>. QED
  BY <1>1, DueAnswersAreCounted, PTL

(* With nothing under way no slot refuses to be switched, none swallows    *)
(* what its network reports, and no request waits.                         *)
THEOREM NoSlotSticks == PowerSpec => []NothingSticks
<1>1. ASSUME PInv, Still
      PROVE  /\ \A s \in Slot : ~od[s].power_set_pending /\ ~sim[s].power_off_pending
             /\ \A r \in DOMAIN req : req[r].pending = 0
  <2>1. \A s \in Slot : /\ SlotOK(od[s], sim[s], toModem[s], news[s])
                        /\ toModem[s] = <<>> /\ news[s] = <<>>
    BY <1>1 DEF PInv, SlotsOK, Still
  <2>2. \A K : Open(<<>>, K) = {} /\ Owners(<<>>, K) = {}
    BY NoneOpen DEF Open
  <2>3. \A s \in Slot : ~od[s].power_set_pending /\ ~sim[s].power_off_pending
    BY <2>1, <2>2 DEF SlotOK
  <2>4. \A r : Held(r) = {}
    BY <1>1, <2>1, <2>2 DEF Held, Still, Holders
  <2>5. \A r \in DOMAIN req : req[r].pending = 0
    BY <1>1, <2>4, FS_EmptySet DEF PInv, Shape, RequestsOK, RequestOK
  <2>. QED
    BY <2>3, <2>5
<1>2. PInv => NothingSticks
  BY <1>1 DEF NothingSticks
<1>. QED
  BY <1>2, DueAnswersAreCounted, PTL

-----------------------------------------------------------------------------
(***************************************************************************)
(* The user who waits.  One slot again, with o the modem's object, m the   *)
(* modem and e what is expected of the radio.                              *)
(***************************************************************************)
None(q, K) == Open(q, K) = {}

(* The last of the kind, if there is one, is in T.                         *)
LastIn(q, K, T) == \A i \in Open(q, K) : (\A j \in Open(q, K) : j <= i) => q[i] \in T

Of(kinds)       == {m \in MessageRecord : m.kind \in kinds}
OnlineNews      == Of({"Online", "Properties"})
PowerNews       == Of({"Powered", "Properties"})
SaysOnline(v)   == {m \in OnlineNews : (IF m.kind = "Online" THEN m.value ELSE m.value.online) = v}
SaysPowered(v)  == {m \in PowerNews : (IF m.kind = "Powered" THEN m.value ELSE m.value.powered) = v}
DeniesOnline(v) == OnlineNews \ SaysOnline(v)
PowerUps        == {m \in Of({"Powered"}) : m.value}
Refusals        == {m \in Answering : ~m.value}

CallsTo(kind)   == {c \in CallRecord : c.kind = kind}
Against(v)      == {c \in CallRecord : c.kind # "get" /\ c.value # v}
Lost            == {c \in CallRecord : c.lost}

(* Signals keep their order, so that the object ends up as the modem is.   *)
Follows(o, m, calls, q) ==
  /\ LastIn(q, OnlineNews, SaysOnline(m.online)) /\ LastIn(q, PowerNews, SaysPowered(m.powered))
  /\ None(calls, CallsTo("get")) =>
       /\ None(q, OnlineNews) => o.online = m.online
       /\ None(q, PowerNews) => o.powered = m.powered

(* A modem that has not been seen with power is not known to be online,    *)
(* and nobody changes that.                                                *)
Waits(o, m, calls, q) ==
  /\ ~o.powered /\ ~o.online
  /\ None(calls, Switching) /\ None(q, Answering) /\ None(q, Of({"Online"}))
  /\ None(q, DeniesOnline(m.online))
  /\ m.online => None(q, PowerUps)

(* The modem is being given power, to be put online then.                  *)
Powering(d, o, m, e, calls, q) ==
  /\ e /\ d.power_target /\ ~m.online /\ ~o.online
  /\ None(q, OnlineNews) /\ None(calls, CallsTo("get"))

(* A switch under way does what is expected, and with none it is done.     *)
Heeds(d, o, m, e, calls, q) ==
  /\ None(calls, Against(e))
  /\ None(q, Refusals)
  /\ ~None(calls, CallsTo("Powered")) \/ ~None(q, Of({"PoweredReply"}))
       => Powering(d, o, m, e, calls, q)
  /\ ~None(q, Of({"OnlineReply"})) => m.online = e
  /\ ~d.power_set_pending => m.online = e

Attentive(d, p, o, m, e, calls, q) ==
  /\ None(calls, Lost)
  /\ p.there =>
       /\ p.initialized <=> ~d.initializing
       /\ p.powered <=> o.powered /\ o.online
       /\ Follows(o, m, calls, q)
       /\ IF p.initialized THEN Heeds(d, o, m, e, calls, q) ELSE Waits(o, m, calls, q)

SlotsHeed ==
  \A s \in Slot : Attentive(od[s], sim[s], mdm[s], radio[s], expected[s], toModem[s], news[s])

(* As long as nothing failed, and the settings were gone back to only      *)
(* where they say what was asked.                                          *)
Obedient   == patient /\ ~overruled
PatientInv == Obedient => SlotsHeed

(* What is in a queue after something is added.                            *)
LEMMA Added ==
  ASSUME NEW S, NEW q \in Seq(S), NEW x \in S
  PROVE  \A K : /\ None(Append(q, x), K) <=> None(q, K) /\ x \notin K
                /\ \A T : LastIn(Append(q, x), K, T) <=> IF x \in K THEN x \in T ELSE LastIn(q, K, T)
<1>. DEFINE p == Append(q, x)
<1>1. /\ Len(q) \in Nat /\ DOMAIN q = 1..Len(q) /\ DOMAIN p = 1..(Len(q) + 1)
      /\ p[Len(q) + 1] = x /\ \A i \in DOMAIN q : i \in DOMAIN p /\ p[i] = q[i]
  OBVIOUS
<1>. HIDE DEF p
<1>2. SUFFICES ASSUME NEW K
               PROVE  /\ None(p, K) <=> None(q, K) /\ x \notin K
                      /\ \A T : LastIn(p, K, T) <=> IF x \in K THEN x \in T ELSE LastIn(q, K, T)
  BY DEF p
<1>3. /\ \A i \in Open(q, K) : i \in Nat /\ i < Len(q) + 1 /\ p[i] = q[i]
      /\ x \in K => Open(p, K) = Open(q, K) \cup {Len(q) + 1}
      /\ x \notin K => Open(p, K) = Open(q, K)
  BY <1>1 DEF Open
<1>4. None(p, K) <=> None(q, K) /\ x \notin K
  BY <1>3 DEF None
<1>5. ASSUME NEW T
      PROVE  LastIn(p, K, T) <=> IF x \in K THEN x \in T ELSE LastIn(q, K, T)
  <2>1. CASE x \in K
    <3>1. \A i \in Open(p, K) : i <= Len(q) + 1
      BY <1>1, <1>3, <2>1
    <3>2. ASSUME NEW i \in Open(p, K), \A j \in Open(p, K) : j <= i
          PROVE  i = Len(q) + 1
      <4>1. Len(q) + 1 <= i /\ i <= Len(q) + 1 /\ i \in Nat
        BY <1>1, <1>3, <2>1, <3>1, <3>2
      <4>. QED
        BY <1>1, <4>1
    <3>3. Len(q) + 1 \in Open(p, K)
      BY <1>3, <2>1
    <3>. QED
      BY <1>1, <2>1, <3>1, <3>2, <3>3 DEF LastIn
  <2>2. CASE x \notin K
    BY <1>3, <2>2 DEF LastIn
  <2>. QED
    BY <2>1, <2>2
<1>. QED
  BY <1>4, <1>5

(* What is in a queue before something is taken.                           *)
LEMMA Taken ==
  ASSUME NEW S, NEW q \in Seq(S), q # <<>>
  PROVE  \A K : /\ None(q, K) <=> None(Tail(q), K) /\ Head(q) \notin K
                /\ \A T : LastIn(q, K, T) <=> IF None(Tail(q), K) THEN Head(q) \in K => Head(q) \in T
                                              ELSE LastIn(Tail(q), K, T)
<1>. DEFINE p == Tail(q)
<1>1. /\ Len(q) \in Nat \ {0} /\ DOMAIN q = 1..Len(q) /\ DOMAIN p = 1..(Len(q) - 1)
      /\ q[1] = Head(q) /\ \A i \in DOMAIN p : p[i] = q[i + 1]
  OBVIOUS
<1>. HIDE DEF p
<1>2. SUFFICES ASSUME NEW K
               PROVE  /\ None(q, K) <=> None(p, K) /\ q[1] \notin K
                      /\ \A T : LastIn(q, K, T) <=> IF None(p, K) THEN q[1] \in K => q[1] \in T
                                                    ELSE LastIn(p, K, T)
  BY <1>1 DEF p
<1>3. \A i \in Open(p, K) : i \in Nat /\ i >= 1 /\ i + 1 \in Open(q, K) /\ p[i] = q[i + 1]
  BY <1>1 DEF Open
<1>4. \A i \in Open(q, K) : /\ i \in Nat /\ i >= 1
                            /\ i # 1 => i - 1 \in Open(p, K) /\ p[i - 1] = q[i]
  BY <1>1 DEF Open
<1>5. 1 \in Open(q, K) <=> q[1] \in K
  BY <1>1 DEF Open
<1>6. None(q, K) <=> None(p, K) /\ q[1] \notin K
  BY <1>3, <1>4, <1>5 DEF None
<1>7. ASSUME NEW T
      PROVE  LastIn(q, K, T) <=> IF None(p, K) THEN q[1] \in K => q[1] \in T ELSE LastIn(p, K, T)
  <2>1. CASE None(p, K)
    <3>1. \A i \in Open(q, K) : i = 1
      BY <1>4, <2>1 DEF None
    <3>. QED
      BY <1>5, <2>1, <3>1 DEF LastIn
  <2>2. CASE ~None(p, K)
    <3>1. PICK k \in Open(p, K) : TRUE
      BY <2>2 DEF None
    <3>2. ASSUME LastIn(p, K, T), NEW i \in Open(q, K), \A j \in Open(q, K) : j <= i
          PROVE  q[i] \in T
      <4>1. k + 1 <= i /\ k \in Nat /\ k >= 1
        BY <1>3, <3>1, <3>2
      <4>2. i # 1 /\ i \in Nat
        BY <1>4, <4>1
      <4>3. i - 1 \in Open(p, K) /\ p[i - 1] = q[i]
        BY <1>4, <4>2
      <4>4. \A j \in Open(p, K) : j <= i - 1
        <5>1. ASSUME NEW j \in Open(p, K)
              PROVE  j <= i - 1
          <6>1. j + 1 <= i /\ j \in Nat
            BY <1>3, <3>2
          <6>. QED
            BY <4>2, <6>1
        <5>. QED
          BY <5>1
      <4>. QED
        BY <3>2, <4>3, <4>4 DEF LastIn
    <3>3. ASSUME LastIn(q, K, T), NEW i \in Open(p, K), \A j \in Open(p, K) : j <= i
          PROVE  p[i] \in T
      <4>1. i \in Nat /\ i >= 1 /\ i + 1 \in Open(q, K) /\ p[i] = q[i + 1]
        BY <1>3
      <4>2. ASSUME NEW j \in Open(q, K)
            PROVE  j <= i + 1
        <5>1. j \in Nat /\ (j # 1 => j - 1 <= i)
          BY <1>4, <3>3
        <5>. QED
          BY <4>1, <5>1
      <4>. QED
        BY <3>3, <4>1, <4>2 DEF LastIn
    <3>. QED
      BY <2>2, <3>2, <3>3 DEF LastIn
  <2>. QED
    BY <2>1, <2>2
<1>. QED
  BY <1>6, <1>7

(* An empty queue has nothing of any kind.                                 *)
LEMMA Empty == \A K, T : None(<<>>, K) /\ LastIn(<<>>, K, T)
BY DEF None, LastIn, Open

(* The kinds of messages.                                                  *)
LEMMA MessageKinds ==
  \A h \in MessageRecord :
    /\ h.kind \in {"Online", "Powered", "Properties", "OnlineReply", "PoweredReply"}
    /\ IF h.kind = "Properties" THEN h.value \in ModemStates ELSE h.value \in BOOLEAN
    /\ h \in Answering <=> h.kind \in {"OnlineReply", "PoweredReply"}
    /\ h \in OnlineNews <=> h.kind \in {"Online", "Properties"}
    /\ h \in PowerNews <=> h.kind \in {"Powered", "Properties"}
    /\ \A v : h \in SaysOnline(v) <=> \/ h.kind = "Online" /\ h.value = v
                                      \/ h.kind = "Properties" /\ h.value.online = v
    /\ \A v : h \in SaysPowered(v) <=> \/ h.kind = "Powered" /\ h.value = v
                                       \/ h.kind = "Properties" /\ h.value.powered = v
    /\ \A v : h \in DeniesOnline(v) <=> h \in OnlineNews /\ h \notin SaysOnline(v)
    /\ h \in PowerUps <=> h.kind = "Powered" /\ h.value
    /\ h \in Refusals <=> h \in Answering /\ ~h.value
    /\ \A kinds : h \in Of(kinds) <=> h.kind \in kinds
BY DEF MessageRecord, Answering, OnlineNews, PowerNews, SaysOnline, SaysPowered, DeniesOnline,
       PowerUps, Refusals, Of

(* The kinds of calls.                                                     *)
LEMMA CallKinds ==
  \A c \in CallRecord :
    /\ c.kind \in {"get", "Online", "Powered"} /\ c.value \in BOOLEAN
    /\ c \in Switching <=> c.kind # "get" /\ c \notin Lost
    /\ \A kind : c \in CallsTo(kind) <=> c.kind = kind
    /\ \A v : c \in Against(v) <=> c.kind # "get" /\ c.value # v
    /\ c \in Lost <=> c.lost
BY DEF CallRecord, Switching, CallsTo, Against, Lost

(* While nothing is under way at a slot, the object and the modem agree.   *)
LEMMA QuietSlot ==
  ASSUME NEW d, NEW p, NEW o \in ObjRecord, NEW m \in ModemStates, NEW e,
         SlotOK(d, p, <<>>, <<>>), Attentive(d, p, o, m, e, <<>>, <<>>), p.there
  PROVE  /\ ~d.power_set_pending /\ o.online = m.online /\ o.powered = m.powered
         /\ p.powered <=> m.online
         /\ p.initialized => m.online = e
         /\ ~p.initialized => ~m.powered /\ ~m.online
<1>1. \A K : Open(<<>>, K) = {} /\ None(<<>>, K)
  BY Empty DEF None
<1>2. ~d.power_set_pending
  BY <1>1 DEF SlotOK
<1>3. o.online = m.online /\ o.powered = m.powered /\ (p.powered <=> o.powered /\ o.online)
  BY <1>1 DEF Attentive, Follows
<1>4. m.online => m.powered
  BY DEF ModemStates
<1>. QED
  BY <1>1, <1>2, <1>3, <1>4 DEF Attentive, Heeds, Waits, ObjRecord, ModemStates

(* The reply to Online: the radio is as expected.                          *)
LEMMA OnlineDone ==
  ASSUME NEW d, NEW p, NEW o, NEW m, NEW e, NEW calls, NEW q \in Seq(MessageRecord), q # <<>>,
         Attentive(d, p, o, m, e, calls, q), p.there, Head(q).kind = "OnlineReply",
         NEW b, ~b.power_set_pending, b.initializing = d.initializing,
         NEW x, x.there, x.initialized = p.initialized, x.powered = p.powered,
         SlotOK(d, p, calls, q)
  PROVE  Attentive(b, x, o, m, e, calls, Tail(q))
<1>1. PICK h \in MessageRecord : h = Head(q)
  OBVIOUS
<1>2. \A K : /\ None(q, K) <=> None(Tail(q), K) /\ h \notin K
             /\ \A T : LastIn(q, K, T) <=> IF None(Tail(q), K) THEN h \in K => h \in T
                                           ELSE LastIn(Tail(q), K, T)
  BY <1>1, Taken
<1>3. /\ h \in Of({"OnlineReply"}) /\ h \in Answering
      /\ h \notin OnlineNews /\ h \notin PowerNews
  BY <1>1, MessageKinds
<1>4. p.initialized
  BY <1>2, <1>3 DEF Attentive, Waits
<1>5. Follows(o, m, calls, Tail(q))
  BY <1>2, <1>3 DEF Attentive, Follows, LastIn, None
<1>6. Open(calls, Switching) = {} /\ Open(Tail(q), Answering) = {}
  BY <1>1, <1>3, TakeOpen DEF SlotOK
<1>7. /\ Heeds(d, o, m, e, calls, q) /\ None(calls, Lost)
      /\ p.initialized <=> ~d.initializing
      /\ p.powered <=> o.powered /\ o.online
  BY <1>4 DEF Attentive
<1>8. m.online = e
  BY <1>2, <1>3, <1>7 DEF Heeds
<1>9. Heeds(b, o, m, e, calls, Tail(q))
  <2>1. None(calls, Against(e)) /\ None(Tail(q), Refusals)
    BY <1>2, <1>7 DEF Heeds
  <2>2. ~None(calls, CallsTo("Powered")) \/ ~None(q, Of({"PoweredReply"})) => Powering(d, o, m, e, calls, q)
    BY <1>7 DEF Heeds
  <2>3. ~None(calls, CallsTo("Powered")) => ~None(calls, Switching)
    <3>1. calls \in Seq(CallRecord)
      BY DEF SlotOK
    <3>2. \A i \in DOMAIN calls : calls[i] \in CallRecord /\ calls[i] \notin Lost
      BY <1>7, <3>1 DEF None, Open
    <3>. QED
      BY <3>2, CallKinds DEF None, Open
  <2>4. ~None(Tail(q), Of({"PoweredReply"})) => ~None(Tail(q), Answering)
    BY DEF None, Open, Of, Answering
  <2>. QED
    BY <1>6, <1>8, <2>1, <2>3, <2>4 DEF Heeds, None
<1>. QED
  BY <1>4, <1>5, <1>7, <1>9 DEF Attentive

(* With no switch on the bus there is no call for power and no reply.      *)
LEMMA NoSwitch ==
  ASSUME NEW calls \in Seq(CallRecord), NEW q \in Seq(MessageRecord),
         None(calls, Lost), None(calls, Switching), None(q, Answering)
  PROVE  /\ None(calls, CallsTo("Powered")) /\ \A v : None(calls, Against(v))
         /\ None(q, Of({"PoweredReply"})) /\ None(q, Of({"OnlineReply"})) /\ None(q, Refusals)
<1>1. \A i \in DOMAIN calls : /\ calls[i] \in CallRecord /\ calls[i] \notin Lost
                              /\ calls[i] \notin Switching
  BY DEF None, Open
<1>2. \A i \in DOMAIN q : q[i] \in MessageRecord /\ q[i] \notin Answering
  BY DEF None, Open
<1>3. None(calls, CallsTo("Powered")) /\ \A v : None(calls, Against(v))
  BY <1>1, CallKinds DEF None, Open
<1>4. None(q, Of({"PoweredReply"})) /\ None(q, Of({"OnlineReply"})) /\ None(q, Refusals)
  BY <1>2, MessageKinds DEF None, Open
<1>. QED
  BY <1>3, <1>4

(* The reply to Powered: the modem has power, and goes online next.        *)
LEMMA PoweredDone ==
  ASSUME NEW d, NEW p, NEW o, NEW m, NEW e \in BOOLEAN, NEW calls, NEW q \in Seq(MessageRecord),
         q # <<>>, SlotOK(d, p, calls, q),
         Attentive(d, p, o, m, e, calls, q), p.there, Head(q).kind = "PoweredReply",
         NEW owner \in Owner
  PROVE  /\ Head(q).value /\ d.power_target /\ ~o.online
         /\ Attentive(d, p, o, m, e, Append(calls, Call("Online", TRUE, owner)), Tail(q))
<1>1. PICK h \in MessageRecord : h = Head(q)
  OBVIOUS
<1>2. \A K : /\ None(q, K) <=> None(Tail(q), K) /\ h \notin K
             /\ \A T : LastIn(q, K, T) <=> IF None(Tail(q), K) THEN h \in K => h \in T
                                           ELSE LastIn(Tail(q), K, T)
  BY <1>1, Taken
<1>3. /\ h \in Of({"PoweredReply"}) /\ h \in Answering /\ (h \in Refusals <=> ~h.value)
      /\ h \notin OnlineNews /\ h \notin PowerNews
  BY <1>1, MessageKinds
<1>4. p.initialized
  BY <1>2, <1>3 DEF Attentive, Waits
<1>5. /\ Heeds(d, o, m, e, calls, q) /\ None(calls, Lost)
      /\ p.initialized <=> ~d.initializing
      /\ p.powered <=> o.powered /\ o.online
      /\ Follows(o, m, calls, q)
  BY <1>4 DEF Attentive
<1>6. Powering(d, o, m, e, calls, q) /\ h.value
  BY <1>2, <1>3, <1>5 DEF Heeds
<1>7. /\ Open(calls, Switching) = {} /\ Open(Tail(q), Answering) = {} /\ d.power_set_pending
      /\ calls \in Seq(CallRecord) /\ Tail(q) \in Seq(MessageRecord)
  BY <1>1, <1>3, TakeOpen DEF SlotOK
<1>8. PICK c \in CallRecord : /\ c = Call("Online", TRUE, owner) /\ c \notin Lost
                              /\ c \notin CallsTo("Powered") /\ c \notin CallsTo("get")
                              /\ c \notin Against(e)
  <2>1. Call("Online", TRUE, owner) \in CallRecord
    BY DEF Call, CallRecord
  <2>2. PICK c \in CallRecord : c = Call("Online", TRUE, owner)
    BY <2>1
  <2>3. c.kind = "Online" /\ c.value /\ ~c.lost /\ e
    BY <1>6, <2>2 DEF Call, Powering
  <2>. QED
    BY <2>2, <2>3, CallKinds
<1>9. \A K : None(Append(calls, c), K) <=> None(calls, K) /\ c \notin K
  BY <1>7, Added
<1>10. Follows(o, m, Append(calls, c), Tail(q))
  BY <1>2, <1>3, <1>5, <1>8, <1>9 DEF Follows, LastIn, None
<1>11. Heeds(d, o, m, e, Append(calls, c), Tail(q))
  <2>1. /\ None(calls, CallsTo("Powered")) /\ None(calls, Against(e))
        /\ None(Tail(q), Of({"PoweredReply"})) /\ None(Tail(q), Of({"OnlineReply"}))
        /\ None(Tail(q), Refusals)
    BY <1>5, <1>7, NoSwitch DEF None
  <2>. QED
    BY <1>7, <1>8, <1>9, <2>1 DEF Heeds
<1>. QED
  BY <1>1, <1>4, <1>5, <1>6, <1>8, <1>9, <1>10, <1>11 DEF Attentive, Powering

(* The modem tells that it is online, or not.                              *)
LEMMA OnlineHeard ==
  ASSUME NEW d, NEW p, NEW o \in ObjRecord, NEW m \in ModemStates, NEW e, NEW calls,
         NEW q \in Seq(MessageRecord), q # <<>>,
         Attentive(d, p, o, m, e, calls, q), p.there, Head(q).kind = "Online",
         NEW y, y = [o EXCEPT !.online = Head(q).value],
         NEW x, x.there, x.initialized = p.initialized, x.powered = (y.powered /\ y.online)
  PROVE  Attentive(d, x, y, m, e, calls, Tail(q))
<1>1. PICK h \in MessageRecord : h = Head(q)
  OBVIOUS
<1>2. \A K : /\ None(q, K) <=> None(Tail(q), K) /\ h \notin K
             /\ \A T : LastIn(q, K, T) <=> IF None(Tail(q), K) THEN h \in K => h \in T
                                           ELSE LastIn(Tail(q), K, T)
  BY <1>1, Taken
<1>3. /\ h \in Of({"Online"}) /\ h \notin Answering /\ h.kind = "Online"
      /\ h \in OnlineNews /\ h \notin PowerNews
      /\ h \in SaysOnline(m.online) <=> h.value = m.online
  BY <1>1, MessageKinds
<1>4. y.online = h.value /\ y.powered = o.powered
  BY <1>1 DEF ObjRecord
<1>5. p.initialized
  BY <1>2, <1>3 DEF Attentive, Waits
<1>6. /\ Heeds(d, o, m, e, calls, q) /\ None(calls, Lost)
      /\ p.initialized <=> ~d.initializing
      /\ Follows(o, m, calls, q)
  BY <1>5 DEF Attentive
<1>7. Follows(y, m, calls, Tail(q))
  <2>1. LastIn(Tail(q), OnlineNews, SaysOnline(m.online))
    BY <1>2, <1>6 DEF Follows, LastIn, None
  <2>2. LastIn(Tail(q), PowerNews, SaysPowered(m.powered))
    BY <1>2, <1>3, <1>6 DEF Follows, LastIn, None
  <2>3. None(Tail(q), OnlineNews) => y.online = m.online
    BY <1>2, <1>3, <1>4, <1>6 DEF Follows
  <2>4. None(calls, CallsTo("get")) => (None(Tail(q), PowerNews) => y.powered = m.powered)
    BY <1>2, <1>3, <1>4, <1>6 DEF Follows
  <2>. QED
    BY <2>1, <2>2, <2>3, <2>4 DEF Follows
<1>8. ~Powering(d, o, m, e, calls, q)
  BY <1>2, <1>3 DEF Powering
<1>9. Heeds(d, y, m, e, calls, Tail(q))
  BY <1>2, <1>6, <1>8 DEF Heeds
<1>. QED
  BY <1>5, <1>6, <1>7, <1>9 DEF Attentive

(* The modem tells about its power, and the slot does not come up.         *)
LEMMA PowerHeard ==
  ASSUME NEW d, NEW p, NEW o \in ObjRecord, NEW m \in ModemStates, NEW e, NEW calls,
         NEW q \in Seq(MessageRecord), q # <<>>,
         Attentive(d, p, o, m, e, calls, q), p.there, Head(q).kind \in {"Powered", "Properties"},
         NEW y, y = IF Head(q).kind = "Properties" THEN Head(q).value
                    ELSE [o EXCEPT !.powered = Head(q).value],
         ~(d.initializing /\ y.powered),
         NEW x, x.there, x.initialized = p.initialized, x.powered = (y.powered /\ y.online)
  PROVE  Attentive(d, x, y, m, e, calls, Tail(q))
<1>1. PICK h \in MessageRecord : h = Head(q)
  OBVIOUS
<1>2. \A K : /\ None(q, K) <=> None(Tail(q), K) /\ h \notin K
             /\ \A T : LastIn(q, K, T) <=> IF None(Tail(q), K) THEN h \in K => h \in T
                                           ELSE LastIn(Tail(q), K, T)
  BY <1>1, Taken
<1>3. /\ h \notin Answering /\ h.kind \in {"Powered", "Properties"} /\ h \in PowerNews
      /\ h \in OnlineNews <=> h.kind = "Properties"
      /\ h \in SaysOnline(m.online) <=> h.kind = "Properties" /\ h.value.online = m.online
      /\ h \in SaysPowered(m.powered)
           <=> m.powered = IF h.kind = "Properties" THEN h.value.powered ELSE h.value
      /\ h.kind = "Properties" => h.value \in ModemStates
  BY <1>1, MessageKinds
<1>4. /\ y.online = IF h.kind = "Properties" THEN h.value.online ELSE o.online
      /\ y.powered = IF h.kind = "Properties" THEN h.value.powered ELSE h.value
  BY <1>1 DEF ObjRecord
<1>5. /\ None(calls, Lost)
      /\ p.initialized <=> ~d.initializing
      /\ Follows(o, m, calls, q)
  BY DEF Attentive
<1>6. Follows(y, m, calls, Tail(q))
  <2>1. LastIn(Tail(q), OnlineNews, SaysOnline(m.online))
    BY <1>2, <1>5 DEF Follows, LastIn, None
  <2>2. LastIn(Tail(q), PowerNews, SaysPowered(m.powered))
    BY <1>2, <1>5 DEF Follows, LastIn, None
  <2>3. None(calls, CallsTo("get")) => (None(Tail(q), OnlineNews) => y.online = m.online)
    BY <1>2, <1>3, <1>4, <1>5 DEF Follows
  <2>4. None(Tail(q), PowerNews) => y.powered = m.powered
    BY <1>2, <1>3, <1>4, <1>5 DEF Follows
  <2>. QED
    BY <2>1, <2>2, <2>3, <2>4 DEF Follows
<1>7. p.initialized => Heeds(d, y, m, e, calls, Tail(q))
  <2>1. p.initialized => Heeds(d, o, m, e, calls, q)
    BY DEF Attentive
  <2>2. Powering(d, o, m, e, calls, q) => Powering(d, y, m, e, calls, Tail(q))
    BY <1>2, <1>3, <1>4 DEF Powering
  <2>. QED
    BY <1>2, <2>1, <2>2 DEF Heeds
<1>8. ~p.initialized => Waits(y, m, calls, Tail(q))
  <2>1. ~p.initialized => Waits(o, m, calls, q)
    BY DEF Attentive
  <2>2. ~p.initialized => ~y.powered
    BY <1>5
  <2>3. ~p.initialized => ~y.online
    BY <1>3, <1>4, <2>1, <2>2 DEF Waits, ModemStates
  <2>. QED
    BY <1>2, <2>1, <2>2, <2>3 DEF Waits
<1>. QED
  BY <1>5, <1>6, <1>7, <1>8 DEF Attentive

(* A slot that is as asked for makes no call.                              *)
LEMMA NoFirstCall ==
  ASSUME NEW d \in OdRecord, NEW o \in ObjRecord, NEW on \in BOOLEAN, NEW owner \in Owner,
         SwitchedAlready(o, on), NEW calls \in Seq(CallRecord)
  PROVE  calls \o FirstCalls(d, o, on, owner) = calls
<1>1. FirstCalls(d, o, on, owner) = <<>>
  BY DEF FirstCalls, AtOnce
<1>. QED
  BY <1>1

(* The one call that switches an idle slot that is not.                    *)
FirstCall(o, on, owner) == Call(IF o.powered THEN "Online" ELSE "Powered", on, owner)

(* It is made, and asks for what is asked of the slot.                     *)
LEMMA OneFirstCall ==
  ASSUME NEW d \in OdRecord, ~d.power_set_pending, NEW o \in ObjRecord, NEW on \in BOOLEAN,
         NEW owner \in Owner, ~SwitchedAlready(o, on), NEW calls \in Seq(CallRecord)
  PROVE  /\ FirstCall(o, on, owner) \in CallRecord
         /\ calls \o FirstCalls(d, o, on, owner) = Append(calls, FirstCall(o, on, owner))
         /\ FirstCall(o, on, owner) \notin Lost /\ FirstCall(o, on, owner) \notin CallsTo("get")
         /\ FirstCall(o, on, owner) \notin Against(on)
<1>1. PICK c : c = FirstCall(o, on, owner)
  OBVIOUS
<1>2. c \in CallRecord
  BY <1>1 DEF FirstCall, Call, CallRecord
<1>3. FirstCalls(d, o, on, owner) = <<c>>
  BY <1>1 DEF FirstCalls, FirstCall, AtOnce
<1>4. calls \o FirstCalls(d, o, on, owner) = Append(calls, c)
  BY <1>2, <1>3
<1>5. c.kind \in {"Online", "Powered"} /\ c.value = on /\ ~c.lost
  BY <1>1 DEF FirstCall, Call
<1>6. c \notin Lost /\ c \notin CallsTo("get") /\ c \notin Against(on)
  BY <1>2, <1>5, CallKinds
<1>. QED
  BY <1>1, <1>2, <1>4, <1>6

(* The modem tells that it has power, and the slot comes up: it is         *)
(* switched as the settings want it.                                       *)
LEMMA PowerComes ==
  ASSUME NEW d \in OdRecord, NEW p, NEW o \in ObjRecord, NEW m \in ModemStates, NEW e,
         NEW calls \in Seq(CallRecord), NEW q \in Seq(MessageRecord), q # <<>>,
         SlotOK(d, p, calls, q), Attentive(d, p, o, m, e, calls, q), p.there,
         Head(q).kind \in {"Powered", "Properties"},
         NEW y \in ObjRecord,
         y.online = IF Head(q).kind = "Properties" THEN Head(q).value.online ELSE o.online,
         y.powered = IF Head(q).kind = "Properties" THEN Head(q).value.powered ELSE Head(q).value,
         d.initializing, y.powered, NEW on \in BOOLEAN,
         NEW b, ~b.initializing,
         b.power_set_pending = ofono_power_set(d, y, on).power_set_pending,
         NEW x, x.there, x.initialized, x.powered = (y.powered /\ y.online)
  PROVE  Attentive(b, x, y, m, on, calls \o FirstCalls(d, y, on, Nobody), Tail(q))
<1>1. PICK h \in MessageRecord : h = Head(q)
  OBVIOUS
<1>2. \A K : /\ None(q, K) <=> None(Tail(q), K) /\ h \notin K
             /\ \A T : LastIn(q, K, T) <=> IF None(Tail(q), K) THEN h \in K => h \in T
                                           ELSE LastIn(Tail(q), K, T)
  BY <1>1, Taken
<1>3. /\ h \notin Answering /\ h.kind \in {"Powered", "Properties"} /\ h \in PowerNews
      /\ h \in OnlineNews <=> h.kind = "Properties"
      /\ h \in SaysOnline(m.online) <=> h.kind = "Properties" /\ h.value.online = m.online
      /\ h \in DeniesOnline(m.online) <=> h.kind = "Properties" /\ h.value.online # m.online
      /\ h \in PowerUps <=> h.kind = "Powered" /\ h.value
      /\ h \in SaysPowered(m.powered)
           <=> m.powered = IF h.kind = "Properties" THEN h.value.powered ELSE h.value
      /\ h.kind = "Properties" => h.value \in ModemStates
  BY <1>1, MessageKinds
<1>4. /\ y.online = IF h.kind = "Properties" THEN h.value.online ELSE o.online
      /\ y.powered = IF h.kind = "Properties" THEN h.value.powered ELSE h.value
  BY <1>1
<1>5. /\ None(calls, Lost) /\ Follows(o, m, calls, q) /\ Waits(o, m, calls, q)
  BY DEF Attentive
<1>6. y.online = m.online
  <2>1. CASE h.kind = "Properties"
    BY <1>2, <1>3, <1>4, <1>5, <2>1 DEF Waits
  <2>2. CASE h.kind = "Powered"
    <3>1. h \in PowerUps
      BY <1>3, <1>4, <2>2
    <3>2. ~m.online
      BY <1>2, <1>5, <3>1 DEF Waits
    <3>. QED
      BY <1>4, <1>5, <2>2, <3>2 DEF Waits, ObjRecord, ModemStates
  <2>. QED
    BY <1>3, <2>1, <2>2
<1>7. ~d.power_set_pending
  BY <1>5 DEF SlotOK, Waits, None
<1>8. /\ b.power_set_pending <=> ~SwitchedAlready(y, on)
      /\ ~b.initializing
  BY <1>7 DEF ofono_power_set, OdRecord, SwitchedAlready
<1>9. SwitchedAlready(y, on) => m.online = on
  BY <1>6 DEF SwitchedAlready
<1>10. Follows(y, m, calls, Tail(q))
  <2>1. LastIn(Tail(q), OnlineNews, SaysOnline(m.online))
    BY <1>2, <1>5 DEF Follows, LastIn, None
  <2>2. LastIn(Tail(q), PowerNews, SaysPowered(m.powered))
    BY <1>2, <1>5 DEF Follows, LastIn, None
  <2>3. None(Tail(q), PowerNews) => y.powered = m.powered
    BY <1>2, <1>3, <1>4, <1>5 DEF Follows
  <2>. QED
    BY <1>6, <2>1, <2>2, <2>3 DEF Follows
<1>11. /\ None(calls, CallsTo("Powered")) /\ None(calls, Against(on))
       /\ None(Tail(q), Of({"PoweredReply"})) /\ None(Tail(q), Of({"OnlineReply"}))
       /\ None(Tail(q), Refusals)
  <2>1. None(calls, Switching) /\ None(q, Answering)
    BY <1>5 DEF Waits
  <2>2. /\ None(calls, CallsTo("Powered")) /\ None(calls, Against(on))
        /\ None(q, Of({"PoweredReply"})) /\ None(q, Of({"OnlineReply"})) /\ None(q, Refusals)
    BY <1>5, <2>1, NoSwitch
  <2>. QED
    BY <1>2, <2>2
<1>14. Nobody \in Owner
  BY DEF Owner
<1>12. CASE SwitchedAlready(y, on)
  <2>1. calls \o FirstCalls(d, y, on, Nobody) = calls
    BY <1>12, <1>14, NoFirstCall
  <2>2. Heeds(b, y, m, on, calls, Tail(q))
    BY <1>8, <1>9, <1>11, <1>12 DEF Heeds
  <2>. QED
    BY <1>5, <1>8, <1>10, <2>1, <2>2 DEF Attentive
<1>13. CASE ~SwitchedAlready(y, on)
  <2>0. PICK c : c = FirstCall(y, on, Nobody)
    OBVIOUS
  <2>1. /\ c \in CallRecord /\ calls \o FirstCalls(d, y, on, Nobody) = Append(calls, c)
        /\ c \notin Lost /\ c \notin CallsTo("get") /\ c \notin Against(on)
    BY <1>7, <1>13, <1>14, <2>0, OneFirstCall
  <2>2. \A K : None(Append(calls, c), K) <=> None(calls, K) /\ c \notin K
    BY <2>1, Added
  <2>3. Heeds(b, y, m, on, Append(calls, c), Tail(q))
    <3>1. c \notin CallsTo("Powered")
      BY <2>0 DEF FirstCall, Call, CallsTo
    <3>. QED
      BY <1>8, <1>11, <1>13, <2>1, <2>2, <3>1 DEF Heeds
  <2>4. Follows(y, m, Append(calls, c), Tail(q))
    BY <1>10, <2>1, <2>2 DEF Follows
  <2>5. None(Append(calls, c), Lost)
    BY <1>5, <2>1, <2>2
  <2>. QED
    BY <1>8, <2>1, <2>3, <2>4, <2>5 DEF Attentive
<1>. QED
  BY <1>12, <1>13

(* A slot with nothing under way is asked to switch.                       *)
LEMMA SwitchQuiet ==
  ASSUME NEW d \in OdRecord, NEW p, NEW o \in ObjRecord, NEW m \in ModemStates, NEW e,
         SlotOK(d, p, <<>>, <<>>), Attentive(d, p, o, m, e, <<>>, <<>>),
         p.there, p.initialized, NEW on \in BOOLEAN, NEW owner \in Owner,
         NEW b, b = ofono_power_set(d, o, on),
         NEW x, x.there, x.initialized, x.powered = p.powered
  PROVE  Attentive(b, x, o, m, on, <<>> \o FirstCalls(d, o, on, owner), <<>>)
<1>1. /\ ~d.power_set_pending /\ o.online = m.online /\ o.powered = m.powered
      /\ p.powered <=> m.online
  BY QuietSlot
<1>2. \A K, T : None(<<>>, K) /\ LastIn(<<>>, K, T)
  BY Empty
<1>3. /\ b.power_set_pending <=> ~SwitchedAlready(o, on)
      /\ b.initializing = d.initializing /\ b.power_target = on
  BY <1>1 DEF ofono_power_set, OdRecord, SwitchedAlready
<1>4. ~d.initializing
  BY DEF Attentive
<1>5. m.online => m.powered
  BY DEF ModemStates
<1>6. <<>> \in Seq(CallRecord)
  OBVIOUS
<1>7. \A calls : Follows(o, m, calls, <<>>)
  BY <1>1, <1>2 DEF Follows
<1>8. CASE SwitchedAlready(o, on)
  <2>1. <<>> \o FirstCalls(d, o, on, owner) = <<>>
    BY <1>6, <1>8, NoFirstCall, ZenonT(60)
  <2>2. m.online = on
    BY <1>1, <1>5, <1>8 DEF SwitchedAlready, ModemStates, ObjRecord
  <2>3. Heeds(b, o, m, on, <<>>, <<>>)
    BY <1>2, <2>2 DEF Heeds
  <2>. QED
    BY <1>1, <1>2, <1>3, <1>4, <1>7, <2>1, <2>3 DEF Attentive
<1>9. CASE ~SwitchedAlready(o, on)
  <2>0. PICK c : c = FirstCall(o, on, owner)
    OBVIOUS
  <2>1. /\ c \in CallRecord /\ <<>> \o FirstCalls(d, o, on, owner) = Append(<<>>, c)
        /\ c \notin Lost /\ c \notin CallsTo("get") /\ c \notin Against(on)
    BY <1>1, <1>6, <1>9, <2>0, OneFirstCall, ZenonT(60)
  <2>2. \A K : None(Append(<<>>, c), K) <=> None(<<>>, K) /\ c \notin K
    BY <1>6, <2>1, Added
  <2>3. c \in CallsTo("Powered") => Powering(b, o, m, on, Append(<<>>, c), <<>>)
    <3>1. c \in CallsTo("Powered") => ~o.powered
      BY <2>0 DEF FirstCall, Call, CallsTo
    <3>2. ~o.powered => on
      BY <1>9 DEF SwitchedAlready
    <3>. QED
      BY <1>1, <1>2, <1>3, <1>5, <2>1, <2>2, <3>1, <3>2 DEF Powering
  <2>4. Heeds(b, o, m, on, Append(<<>>, c), <<>>)
    BY <1>2, <1>3, <1>9, <2>1, <2>2, <2>3 DEF Heeds
  <2>. QED
    BY <1>1, <1>2, <1>3, <1>4, <1>7, <2>1, <2>2, <2>4 DEF Attentive
<1>. QED
  BY <1>8, <1>9

(* A call that the daemon still waits for comes from a slot that is there. *)
LEMMA Present ==
  ASSUME NEW d, NEW p, NEW o, NEW m, NEW e, NEW calls, NEW q,
         SlotOK(d, p, calls, q), Attentive(d, p, o, m, e, calls, q), calls # <<>>
  PROVE  p.there /\ Head(calls) \in CallRecord /\ ~Head(calls).lost
<1>1. calls \in Seq(CallRecord)
  BY DEF SlotOK
<1>2. 1 \in DOMAIN calls /\ calls[1] = Head(calls) /\ Head(calls) \in CallRecord
  BY <1>1
<1>3. Head(calls) \notin Lost
  BY <1>2 DEF Attentive, None, Open
<1>4. ~Head(calls).lost
  BY <1>2, <1>3, CallKinds
<1>. QED
  BY <1>2, <1>4 DEF SlotOK

(* ofono tells what the modem's properties are.                            *)
LEMMA PropertiesTold ==
  ASSUME NEW d, NEW p, NEW o, NEW m \in ModemStates, NEW e, NEW calls, NEW q,
         SlotOK(d, p, calls, q), Attentive(d, p, o, m, e, calls, q), calls # <<>>,
         Head(calls).kind = "get"
  PROVE  Attentive(d, p, o, m, e, Tail(calls), Append(q, Tidings("Properties", m, Nobody)))
<1>0. calls \in Seq(CallRecord) /\ q \in Seq(MessageRecord)
  BY DEF SlotOK
<1>1. p.there /\ Head(calls) \in CallRecord
  BY Present
<1>2. PICK g \in MessageRecord : g = Tidings("Properties", m, Nobody)
  BY Messages
<1>3. g.kind = "Properties" /\ g.value = m
  BY <1>2 DEF Tidings
<1>4. /\ g \in OnlineNews /\ g \in PowerNews /\ g \in SaysOnline(m.online) /\ g \in SaysPowered(m.powered)
      /\ g \notin Answering /\ g \notin DeniesOnline(m.online) /\ g \notin PowerUps
      /\ g \notin Refusals /\ \A kinds : g \in Of(kinds) <=> "Properties" \in kinds
  BY <1>3, MessageKinds
<1>5. \A K : /\ None(Append(q, g), K) <=> None(q, K) /\ g \notin K
             /\ \A T : LastIn(Append(q, g), K, T) <=> IF g \in K THEN g \in T ELSE LastIn(q, K, T)
  BY <1>0, Added
<1>6. \A K : None(calls, K) <=> None(Tail(calls), K) /\ Head(calls) \notin K
  BY <1>0, Taken
<1>7. ~None(calls, CallsTo("get"))
  BY <1>1, <1>6, CallKinds
<1>8. Follows(o, m, Tail(calls), Append(q, g))
  BY <1>4, <1>5 DEF Follows
<1>9. p.initialized => Heeds(d, o, m, e, Tail(calls), Append(q, g))
  <2>1. p.initialized => Heeds(d, o, m, e, calls, q)
    BY <1>1 DEF Attentive
  <2>2. ~Powering(d, o, m, e, calls, q)
    BY <1>7 DEF Powering
  <2>3. g \notin Of({"PoweredReply"}) /\ g \notin Of({"OnlineReply"})
    BY <1>4
  <2>. QED
    BY <1>4, <1>5, <1>6, <2>1, <2>2, <2>3 DEF Heeds
<1>10. ~p.initialized => Waits(o, m, Tail(calls), Append(q, g))
  <2>1. ~p.initialized => Waits(o, m, calls, q)
    BY <1>1 DEF Attentive
  <2>2. g \notin Of({"Online"})
    BY <1>4
  <2>. QED
    BY <1>4, <1>5, <1>6, <2>1, <2>2 DEF Waits
<1>. QED
  BY <1>1, <1>2, <1>6, <1>8, <1>9, <1>10 DEF Attentive

(* A reply r is told, and a change g, in either order.                     *)
LEMMA Replied ==
  ASSUME NEW q \in Seq(MessageRecord), NEW r \in MessageRecord, NEW g \in MessageRecord,
         NEW said, said = <<r>> \o <<g>> \/ said = <<g>> \o <<r>>
  PROVE  \A K : /\ None(q \o said, K) <=> None(q, K) /\ r \notin K /\ g \notin K
                /\ \A T : r \notin K => (LastIn(q \o said, K, T)
                                           <=> IF g \in K THEN g \in T ELSE LastIn(q, K, T))
<1>. DEFINE Fine(p) ==
       \A K : /\ None(p, K) <=> None(q, K) /\ r \notin K /\ g \notin K
              /\ \A T : r \notin K => (LastIn(p, K, T) <=> IF g \in K THEN g \in T ELSE LastIn(q, K, T))
<1>1. /\ q \o (<<r>> \o <<g>>) = Append(Append(q, r), g)
      /\ q \o (<<g>> \o <<r>>) = Append(Append(q, g), r)
  BY TwoMessages
<1>2. Append(q, r) \in Seq(MessageRecord) /\ Append(q, g) \in Seq(MessageRecord)
  OBVIOUS
<1>3. PICK qr \in Seq(MessageRecord), qg \in Seq(MessageRecord) : qr = Append(q, r) /\ qg = Append(q, g)
  BY <1>2
<1>4. \A K : /\ None(qr, K) <=> None(q, K) /\ r \notin K
             /\ \A T : LastIn(qr, K, T) <=> IF r \in K THEN r \in T ELSE LastIn(q, K, T)
  BY <1>3, Added
<1>5. \A K : /\ None(qg, K) <=> None(q, K) /\ g \notin K
             /\ \A T : LastIn(qg, K, T) <=> IF g \in K THEN g \in T ELSE LastIn(q, K, T)
  BY <1>3, Added
<1>6. \A K : /\ None(Append(qr, g), K) <=> None(qr, K) /\ g \notin K
             /\ \A T : LastIn(Append(qr, g), K, T) <=> IF g \in K THEN g \in T ELSE LastIn(qr, K, T)
  BY Added
<1>7. \A K : /\ None(Append(qg, r), K) <=> None(qg, K) /\ r \notin K
             /\ \A T : LastIn(Append(qg, r), K, T) <=> IF r \in K THEN r \in T ELSE LastIn(qg, K, T)
  BY Added
<1>8. Fine(Append(qr, g))
  BY <1>4, <1>6
<1>9. Fine(Append(qg, r))
  BY <1>5, <1>7
<1>10. PICK p : p = q \o said
  OBVIOUS
<1>11. p = Append(qr, g) \/ p = Append(qg, r)
  BY <1>1, <1>3, <1>10
<1>. HIDE DEF Fine
<1>12. Fine(p)
  BY <1>8, <1>9, <1>11, Zenon
<1>. QED
  BY <1>10, <1>12, Zenon DEF Fine

(* A reply of the modem, and the change it has made.                       *)
LEMMA ReplyIs ==
  ASSUME NEW c \in CallRecord, ~c.lost, c.kind # "get"
  PROVE  \E r \in MessageRecord :
           /\ Reply(c, TRUE) = <<r>>
           /\ r.kind = (IF c.kind = "Online" THEN "OnlineReply" ELSE "PoweredReply") /\ r.value = TRUE
<1>1. PICK r : r = Tidings(IF c.kind = "Online" THEN "OnlineReply" ELSE "PoweredReply", TRUE, c.owner)
  OBVIOUS
<1>2. r \in MessageRecord
  BY <1>1 DEF Tidings, MessageRecord, CallRecord
<1>3. Reply(c, TRUE) = <<r>>
  BY <1>1 DEF Reply
<1>. QED
  BY <1>1, <1>2, <1>3 DEF Tidings

(* A call for power asks for it.                                           *)
LEMMA PowerAsked ==
  ASSUME NEW d, NEW p, NEW o, NEW m, NEW e \in BOOLEAN, NEW calls, NEW q,
         SlotOK(d, p, calls, q), Attentive(d, p, o, m, e, calls, q), calls # <<>>,
         NEW c, c = Head(calls), c.kind = "Powered"
  PROVE  c.value = TRUE
<1>1. calls \in Seq(CallRecord) /\ q \in Seq(MessageRecord)
  BY DEF SlotOK
<1>2. p.there /\ c \in CallRecord /\ ~c.lost
  BY Present
<1>3. \A K : None(calls, K) <=> None(Tail(calls), K) /\ c \notin K
  BY <1>1, Taken
<1>4. c \in Switching /\ c \in CallsTo("Powered") /\ (c \in Against(e) <=> c.value # e)
  BY <1>2, CallKinds
<1>5. Heeds(d, o, m, e, calls, q)
  BY <1>2, <1>3, <1>4 DEF Attentive, Waits
<1>6. Powering(d, o, m, e, calls, q) /\ c.value = e
  BY <1>3, <1>4, <1>5 DEF Heeds
<1>. QED
  BY <1>6 DEF Powering

(* ofono gives the modem power.                                            *)
LEMMA PowerGiven ==
  ASSUME NEW d, NEW p, NEW o, NEW m \in ModemStates, NEW e \in BOOLEAN, NEW calls, NEW q,
         SlotOK(d, p, calls, q), Attentive(d, p, o, m, e, calls, q), calls # <<>>,
         NEW c, c = Head(calls), c.kind = "Powered",
         NEW w, w.online = m.online, w.powered = c.value,
         NEW changed \in BOOLEAN, changed <=> m.powered # c.value,
         NEW signal, signal = IF changed THEN <<Tidings(c.kind, c.value, Nobody)>> ELSE <<>>,
         NEW said, said \in {Reply(c, TRUE) \o signal, signal \o Reply(c, TRUE)}
  PROVE  Attentive(d, p, o, w, e, Tail(calls), q \o said)
<1>1. calls \in Seq(CallRecord) /\ q \in Seq(MessageRecord)
  BY DEF SlotOK
<1>2. p.there /\ c \in CallRecord /\ ~c.lost
  BY Present
<1>3. \A K : None(calls, K) <=> None(Tail(calls), K) /\ c \notin K
  BY <1>1, Taken
<1>4. c \in Switching /\ c \in CallsTo("Powered") /\ (c \in Against(e) <=> c.value # e)
  BY <1>2, CallKinds
<1>5. p.initialized
  BY <1>2, <1>3, <1>4 DEF Attentive, Waits
<1>6. /\ Heeds(d, o, m, e, calls, q) /\ Follows(o, m, calls, q)
      /\ None(calls, Lost)
      /\ p.initialized <=> ~d.initializing
      /\ p.powered <=> o.powered /\ o.online
  BY <1>2, <1>5 DEF Attentive
<1>7. Powering(d, o, m, e, calls, q) /\ c.value = e
  BY <1>3, <1>4, <1>6 DEF Heeds
<1>8. c.value = TRUE
  BY <1>7 DEF Powering
<1>9. PICK r \in MessageRecord : Reply(c, TRUE) = <<r>> /\ r.kind = "PoweredReply" /\ r.value = TRUE
  BY <1>2, ReplyIs
<1>10. PICK g \in MessageRecord : g = Tidings("Powered", TRUE, Nobody)
  BY Messages
<1>11. g.kind = "Powered" /\ g.value = TRUE
  BY <1>10 DEF Tidings
<1>12. \A K : /\ None(q \o said, K) <=> None(q, K) /\ r \notin K /\ (changed => g \notin K)
              /\ \A T : r \notin K => (LastIn(q \o said, K, T)
                                         <=> IF changed /\ g \in K THEN g \in T ELSE LastIn(q, K, T))
  <2>1. CASE ~changed
    <3>1. said = <<r>>
      <4>1. signal = <<>> /\ <<r>> \o <<>> = <<r>> /\ <<>> \o <<r>> = <<r>>
        BY <2>1
      <4>. QED
        BY <1>9, <4>1
    <3>2. q \o said = Append(q, r)
      BY <1>1, <3>1
    <3>3. \A K : /\ None(Append(q, r), K) <=> None(q, K) /\ r \notin K
                 /\ \A T : LastIn(Append(q, r), K, T) <=> IF r \in K THEN r \in T ELSE LastIn(q, K, T)
      BY <1>1, Added
    <3>. QED
      BY <2>1, <3>2, <3>3
  <2>2. CASE changed
    <3>1. signal = <<g>>
      BY <1>8, <1>10, <2>2
    <3>2. said = <<r>> \o <<g>> \/ said = <<g>> \o <<r>>
      BY <1>9, <3>1
    <3>3. \A K : /\ None(q \o said, K) <=> None(q, K) /\ r \notin K /\ g \notin K
                 /\ \A T : r \notin K => (LastIn(q \o said, K, T)
                                            <=> IF g \in K THEN g \in T ELSE LastIn(q, K, T))
      BY <1>1, <3>2, Replied
    <3>. QED
      BY <2>2, <3>3
  <2>. QED
    BY <2>1, <2>2
<1>13. /\ r \notin OnlineNews /\ r \notin PowerNews /\ r \notin Refusals
       /\ r \notin Of({"OnlineReply"}) /\ r \in Of({"PoweredReply"}) /\ r \in Answering
  BY <1>9, MessageKinds
<1>14. /\ g \notin OnlineNews /\ g \in PowerNews /\ g \in SaysPowered(w.powered)
       /\ g \notin Refusals /\ g \notin Of({"OnlineReply"}) /\ g \notin Answering
  <2>1. g \in SaysPowered(TRUE)
    BY <1>11 DEF SaysPowered, PowerNews, Of
  <2>2. w.powered = TRUE
    BY <1>8
  <2>3. g \in SaysPowered(w.powered)
    BY <2>1, <2>2, Zenon
  <2>. QED
    BY <1>11, <2>3, MessageKinds
<1>15. Follows(o, w, Tail(calls), q \o said)
  <2>1. LastIn(q \o said, OnlineNews, SaysOnline(w.online))
    BY <1>6, <1>12, <1>13, <1>14 DEF Follows
  <2>2. LastIn(q \o said, PowerNews, SaysPowered(w.powered))
    <3>1. ~changed => w.powered = m.powered
      BY DEF ModemStates
    <3>. QED
      BY <1>6, <1>12, <1>13, <1>14, <3>1 DEF Follows
  <2>3. o.online = w.online \/ ~None(q \o said, OnlineNews) \/ ~None(Tail(calls), CallsTo("get"))
    BY <1>3, <1>6, <1>7, <1>12 DEF Follows, Powering
  <2>4. /\ None(Tail(calls), CallsTo("get")) /\ None(q \o said, PowerNews)
          => o.powered = w.powered
    <3>1. None(calls, CallsTo("get"))
      BY <1>7 DEF Powering
    <3>2. ~changed => w.powered = m.powered
      BY DEF ModemStates
    <3>. QED
      BY <1>6, <1>12, <1>14, <3>1, <3>2 DEF Follows
  <2>. QED
    BY <2>1, <2>2, <2>3, <2>4 DEF Follows
<1>16. Powering(d, o, w, e, Tail(calls), q \o said)
  BY <1>3, <1>7, <1>12, <1>13, <1>14 DEF Powering
<1>17. Heeds(d, o, w, e, Tail(calls), q \o said)
  <2>1. d.power_set_pending
    <3>1. Open(calls, Switching) # {}
      BY <1>3, <1>4 DEF None
    <3>. QED
      BY <3>1 DEF SlotOK
  <2>2. None(q, Answering)
    BY <1>3, <1>4 DEF SlotOK, None
  <2>3. None(q, Of({"OnlineReply"}))
    BY <2>2 DEF None, Open, Of, Answering
  <2>. QED
    BY <1>3, <1>6, <1>12, <1>13, <1>14, <1>16, <2>1, <2>3 DEF Heeds
<1>. QED
  BY <1>2, <1>3, <1>5, <1>6, <1>15, <1>17 DEF Attentive

(* ofono puts the modem online, or offline.                                *)
LEMMA OnlineSwitched ==
  ASSUME NEW d, NEW p, NEW o, NEW m \in ModemStates, NEW e \in BOOLEAN, NEW calls, NEW q,
         SlotOK(d, p, calls, q), Attentive(d, p, o, m, e, calls, q), calls # <<>>,
         NEW c, c = Head(calls), c.kind = "Online",
         NEW w, w.online = c.value, w.powered = m.powered,
         NEW changed \in BOOLEAN, changed <=> m.online # c.value,
         NEW signal, signal = IF changed THEN <<Tidings(c.kind, c.value, Nobody)>> ELSE <<>>,
         NEW said, said \in {Reply(c, TRUE) \o signal, signal \o Reply(c, TRUE)}
  PROVE  Attentive(d, p, o, w, e, Tail(calls), q \o said)
<1>1. calls \in Seq(CallRecord) /\ q \in Seq(MessageRecord)
  BY DEF SlotOK
<1>2. p.there /\ c \in CallRecord /\ ~c.lost
  BY Present
<1>3. \A K : None(calls, K) <=> None(Tail(calls), K) /\ c \notin K
  BY <1>1, Taken
<1>4. c \in Switching /\ (c \in Against(e) <=> c.value # e) /\ c \notin CallsTo("get")
      /\ c.value \in BOOLEAN
  BY <1>2, CallKinds
<1>5. p.initialized
  BY <1>2, <1>3, <1>4 DEF Attentive, Waits
<1>6. /\ Heeds(d, o, m, e, calls, q) /\ Follows(o, m, calls, q)
      /\ None(calls, Lost)
      /\ p.initialized <=> ~d.initializing
      /\ p.powered <=> o.powered /\ o.online
  BY <1>2, <1>5 DEF Attentive
<1>7. c.value = e
  BY <1>3, <1>4, <1>6 DEF Heeds
<1>8. PICK r \in MessageRecord : Reply(c, TRUE) = <<r>> /\ r.kind = "OnlineReply" /\ r.value = TRUE
  BY <1>2, ReplyIs
<1>9. PICK g \in MessageRecord : g = Tidings("Online", e, Nobody)
  BY Messages
<1>10. g.kind = "Online" /\ g.value = e
  BY <1>9 DEF Tidings
<1>11. \A K : /\ None(q \o said, K) <=> None(q, K) /\ r \notin K /\ (changed => g \notin K)
              /\ \A T : r \notin K => (LastIn(q \o said, K, T)
                                         <=> IF changed /\ g \in K THEN g \in T ELSE LastIn(q, K, T))
  <2>1. CASE ~changed
    <3>1. said = <<r>>
      <4>1. signal = <<>> /\ <<r>> \o <<>> = <<r>> /\ <<>> \o <<r>> = <<r>>
        BY <2>1
      <4>. QED
        BY <1>8, <4>1
    <3>2. q \o said = Append(q, r)
      BY <1>1, <3>1
    <3>3. \A K : /\ None(Append(q, r), K) <=> None(q, K) /\ r \notin K
                 /\ \A T : LastIn(Append(q, r), K, T) <=> IF r \in K THEN r \in T ELSE LastIn(q, K, T)
      BY <1>1, Added
    <3>. QED
      BY <2>1, <3>2, <3>3
  <2>2. CASE changed
    <3>1. signal = <<g>>
      BY <1>7, <1>9, <2>2
    <3>2. said = <<r>> \o <<g>> \/ said = <<g>> \o <<r>>
      BY <1>8, <3>1
    <3>3. \A K : /\ None(q \o said, K) <=> None(q, K) /\ r \notin K /\ g \notin K
                 /\ \A T : r \notin K => (LastIn(q \o said, K, T)
                                            <=> IF g \in K THEN g \in T ELSE LastIn(q, K, T))
      BY <1>1, <3>2, Replied
    <3>. QED
      BY <2>2, <3>3
  <2>. QED
    BY <2>1, <2>2
<1>12. /\ r \notin OnlineNews /\ r \notin PowerNews /\ r \notin Refusals
       /\ r \in Answering /\ r \notin Of({"PoweredReply"})
  BY <1>8, MessageKinds
<1>13. /\ g \in OnlineNews /\ g \notin PowerNews /\ g \in SaysOnline(e) /\ g \notin Refusals
       /\ g \notin Of({"PoweredReply"}) /\ g \notin Answering
  BY <1>10, MessageKinds
<1>14. ~changed => w.online = m.online
  OBVIOUS
<1>15. Follows(o, w, Tail(calls), q \o said)
  <2>1. LastIn(q \o said, OnlineNews, SaysOnline(w.online))
    BY <1>6, <1>7, <1>11, <1>12, <1>13, <1>14 DEF Follows
  <2>2. LastIn(q \o said, PowerNews, SaysPowered(w.powered))
    BY <1>6, <1>11, <1>12, <1>13 DEF Follows
  <2>3. None(Tail(calls), CallsTo("get")) => None(calls, CallsTo("get"))
    BY <1>3, <1>4
  <2>. QED
    BY <1>6, <1>11, <1>12, <1>13, <1>14, <2>1, <2>2, <2>3 DEF Follows
<1>16. Heeds(d, o, w, e, Tail(calls), q \o said)
  <2>1. /\ Open(Tail(calls), Switching) = {} /\ Open(q, Answering) = {}
        /\ Tail(calls) \in Seq(CallRecord)
    <3>1. Open(calls, Switching) # {}
      BY <1>3, <1>4 DEF None
    <3>. QED
      BY <1>1, <1>4, <3>1, TakeOpen DEF SlotOK
  <2>2. /\ None(Tail(calls), CallsTo("Powered")) /\ None(Tail(calls), Against(e))
        /\ None(q, Of({"PoweredReply"})) /\ None(q, Refusals)
    <3>1. None(Tail(calls), Lost)
      BY <1>3, <1>6
    <3>. QED
      BY <1>1, <2>1, <3>1, NoSwitch DEF None
  <2>. QED
    BY <1>7, <1>11, <1>12, <1>13, <2>2 DEF Heeds
<1>. QED
  BY <1>2, <1>3, <1>5, <1>6, <1>15, <1>16 DEF Attentive

(* A modem gets power by itself.                                           *)
LEMMA PowerCame ==
  ASSUME NEW d, NEW p, NEW o, NEW m \in ModemStates, NEW e, NEW calls, NEW q,
         SlotOK(d, p, calls, q), Attentive(d, p, o, m, e, calls, q), p.there, ~m.powered,
         NEW w, w.online = m.online, w.powered = TRUE
  PROVE  Attentive(d, p, o, w, e, calls, Append(q, Tidings("Powered", TRUE, Nobody)))
<1>1. q \in Seq(MessageRecord)
  BY DEF SlotOK
<1>2. PICK g \in MessageRecord : g = Tidings("Powered", TRUE, Nobody)
  BY Messages
<1>3. g.kind = "Powered" /\ g.value = TRUE
  BY <1>2 DEF Tidings
<1>4. /\ g \notin OnlineNews /\ g \in PowerNews /\ g \in SaysPowered(w.powered)
      /\ g \notin Answering /\ g \notin Refusals /\ g \notin DeniesOnline(w.online)
      /\ \A kinds : g \in Of(kinds) <=> "Powered" \in kinds
  <2>1. g \in SaysPowered(TRUE)
    BY <1>3 DEF SaysPowered, PowerNews, Of
  <2>2. g \notin OnlineNews
    BY <1>3, MessageKinds
  <2>3. g \notin DeniesOnline(w.online)
    BY <2>2 DEF DeniesOnline
  <2>4. g \in SaysPowered(w.powered)
    BY <2>1, Zenon
  <2>. QED
    BY <1>3, <2>2, <2>3, <2>4, MessageKinds
<1>5. \A K : /\ None(Append(q, g), K) <=> None(q, K) /\ g \notin K
             /\ \A T : LastIn(Append(q, g), K, T) <=> IF g \in K THEN g \in T ELSE LastIn(q, K, T)
  BY <1>1, Added
<1>6. ~m.online
  BY DEF ModemStates
<1>7. /\ g \notin Of({"Online"}) /\ g \notin Of({"OnlineReply"}) /\ g \notin Of({"PoweredReply"})
  BY <1>4
<1>8. Follows(o, w, calls, Append(q, g))
  BY <1>4, <1>5 DEF Attentive, Follows
<1>9. p.initialized => Heeds(d, o, w, e, calls, Append(q, g))
  <2>1. p.initialized => Heeds(d, o, m, e, calls, q)
    BY DEF Attentive
  <2>2. Powering(d, o, m, e, calls, q) => Powering(d, o, w, e, calls, Append(q, g))
    BY <1>4, <1>5 DEF Powering
  <2>. QED
    BY <1>4, <1>5, <1>7, <2>1, <2>2 DEF Heeds
<1>10. ~p.initialized => Waits(o, w, calls, Append(q, g))
  BY <1>4, <1>5, <1>6, <1>7 DEF Attentive, Waits
<1>. QED
  BY <1>2, <1>8, <1>9, <1>10 DEF Attentive

(* A modem loses its power while nothing is under way at its slot.         *)
LEMMA PowerWent ==
  ASSUME NEW d \in OdRecord, NEW p \in SimRecord, NEW o \in ObjRecord, NEW m \in ModemStates,
         NEW e \in BOOLEAN, p.there, m.powered,
         SlotOK(d, p, <<>>, <<>>), Attentive(d, p, o, m, e, <<>>, <<>>)
  PROVE  Attentive(d, p, o, Off, FALSE, <<>>,
                   (IF m.online THEN <<Tidings("Online", FALSE, Nobody)>> ELSE <<>>)
                      \o <<Tidings("Powered", FALSE, Nobody)>>)
<1>1. /\ ~d.power_set_pending /\ o.online = m.online /\ o.powered = m.powered
      /\ ~p.initialized => ~m.powered
  <2>1. /\ ~d.power_set_pending /\ o.online = m.online /\ o.powered = m.powered
        /\ p.powered <=> m.online
        /\ p.initialized => m.online = e
        /\ ~p.initialized => ~m.powered /\ ~m.online
    BY QuietSlot
  <2>. QED
    BY <2>1
<1>2. \A K, T : None(<<>>, K) /\ LastIn(<<>>, K, T)
  BY Empty
<1>3. PICK a \in MessageRecord, b \in MessageRecord :
        a = Tidings("Online", FALSE, Nobody) /\ b = Tidings("Powered", FALSE, Nobody)
  BY Messages
<1>4. a.kind = "Online" /\ a.value = FALSE /\ b.kind = "Powered" /\ b.value = FALSE
  BY <1>3 DEF Tidings
<1>5. /\ a \in OnlineNews /\ a \in SaysOnline(Off.online) /\ a \notin PowerNews
      /\ b \notin OnlineNews /\ b \in PowerNews /\ b \in SaysPowered(Off.powered)
      /\ a \notin Answering /\ b \notin Answering /\ a \notin Refusals /\ b \notin Refusals
      /\ \A kinds : (a \in Of(kinds) <=> "Online" \in kinds) /\ (b \in Of(kinds) <=> "Powered" \in kinds)
  <2>1. a \in SaysOnline(FALSE) /\ b \in SaysPowered(FALSE)
    BY <1>4 DEF SaysOnline, SaysPowered, OnlineNews, PowerNews, Of
  <2>2. Off.online = FALSE /\ Off.powered = FALSE
    BY DEF Off
  <2>3. a \in SaysOnline(Off.online) /\ b \in SaysPowered(Off.powered)
    BY <2>1, <2>2
  <2>. QED
    BY <1>4, <2>3, MessageKinds
<1>6. PICK first : first = IF m.online THEN Append(<<>>, a) ELSE <<>>
  OBVIOUS
<1>7. PICK q : q = Append(first, b)
  OBVIOUS
<1>14. first \in Seq(MessageRecord)
  <2>1. <<>> \in Seq(MessageRecord) /\ Append(<<>>, a) \in Seq(MessageRecord)
    OBVIOUS
  <2>2. CASE m.online
    BY <1>6, <2>1, <2>2
  <2>3. CASE ~m.online
    BY <1>6, <2>1, <2>3
  <2>. QED
    BY <2>2, <2>3
<1>15. (IF m.online THEN <<Tidings("Online", FALSE, Nobody)>> ELSE <<>>)
          \o <<Tidings("Powered", FALSE, Nobody)>> = q
  <2>1. CASE m.online
    <3>1. q = Append(Append(<<>>, a), b)
      BY <1>6, <1>7, <2>1
    <3>2. Append(Append(<<>>, a), b) = <<a>> \o <<b>>
      OBVIOUS
    <3>. QED
      BY <1>3, <2>1, <3>1, <3>2
  <2>2. CASE ~m.online
    <3>1. q = Append(<<>>, b)
      BY <1>6, <1>7, <2>2
    <3>2. Append(<<>>, b) = <<>> \o <<b>>
      OBVIOUS
    <3>. QED
      BY <1>3, <2>2, <3>1, <3>2
  <2>. QED
    BY <2>1, <2>2
<1>8. \A K : /\ None(first, K) <=> (m.online => a \notin K)
             /\ \A T : LastIn(first, K, T) <=> (m.online /\ a \in K => a \in T)
  <2>1. <<>> \in Seq(MessageRecord)
    OBVIOUS
  <2>2. \A K : /\ None(Append(<<>>, a), K) <=> None(<<>>, K) /\ a \notin K
               /\ \A T : LastIn(Append(<<>>, a), K, T)
                           <=> IF a \in K THEN a \in T ELSE LastIn(<<>>, K, T)
    BY <2>1, Added
  <2>. QED
    BY <1>2, <1>6, <2>2
<1>9. \A K : /\ None(q, K) <=> None(first, K) /\ b \notin K
             /\ \A T : LastIn(q, K, T) <=> IF b \in K THEN b \in T ELSE LastIn(first, K, T)
  BY <1>7, <1>14, Added, Zenon
<1>10. Off.online = FALSE /\ Off.powered = FALSE
  BY DEF Off
<1>11. p.initialized /\ None(<<>>, Lost) /\ (p.initialized <=> ~d.initializing)
       /\ (p.powered <=> o.powered /\ o.online)
  BY <1>1, <1>2 DEF Attentive
<1>12. Follows(o, Off, <<>>, q)
  <2>1. LastIn(q, OnlineNews, SaysOnline(Off.online)) /\ LastIn(q, PowerNews, SaysPowered(Off.powered))
    BY <1>5, <1>8, <1>9
  <2>2. None(q, OnlineNews) => o.online = FALSE
    BY <1>1, <1>5, <1>8, <1>9 DEF ModemStates
  <2>. QED
    BY <1>5, <1>9, <1>10, <2>1, <2>2 DEF Follows
<1>13. Heeds(d, o, Off, FALSE, <<>>, q)
  <2>1. /\ a \notin Of({"OnlineReply"}) /\ a \notin Of({"PoweredReply"})
        /\ b \notin Of({"OnlineReply"}) /\ b \notin Of({"PoweredReply"})
    BY <1>5
  <2>. QED
    BY <1>2, <1>5, <1>8, <1>9, <1>10, <2>1 DEF Heeds
<1>. QED
  BY <1>11, <1>12, <1>13, <1>15 DEF Attentive

-----------------------------------------------------------------------------
(***************************************************************************)
(* The steps, for the user who waits.                                      *)
(***************************************************************************)
(* One slot changes: it heeds what is expected, and the others still do.   *)
LEMMA OneSlotHeeds ==
  ASSUME SlotsHeed, NEW s \in Slot,
         Attentive(od'[s], sim'[s], mdm'[s], radio'[s], expected'[s], toModem'[s], news'[s]),
         \A u \in Slot : u # s => /\ od'[u] = od[u] /\ sim'[u] = sim[u] /\ mdm'[u] = mdm[u]
                                  /\ radio'[u] = radio[u] /\ expected'[u] = expected[u]
                                  /\ toModem'[u] = toModem[u] /\ news'[u] = news[u]
  PROVE  SlotsHeed'
<1>1. ASSUME NEW u \in Slot
      PROVE  Attentive(od'[u], sim'[u], mdm'[u], radio'[u], expected'[u], toModem'[u], news'[u])
  <2>1. CASE u = s
    BY <2>1
  <2>2. CASE u # s
    BY <2>2 DEF SlotsHeed
  <2>. QED
    BY <2>1, <2>2
<1>. QED
  BY <1>1 DEF SlotsHeed

(* What a slot is when all is quiet.                                       *)
LEMMA QuietSlots ==
  ASSUME PInv, HistoryOK, PatientInv, Obedient, Still, NEW s \in Slot
  PROVE  /\ toModem[s] = <<>> /\ news[s] = <<>>
         /\ SlotOK(od[s], sim[s], <<>>, <<>>)
         /\ Attentive(od[s], sim[s], mdm[s], radio[s], expected[s], <<>>, <<>>)
         /\ od[s] \in OdRecord /\ sim[s] \in SimRecord /\ mdm[s] \in ObjRecord
         /\ radio[s] \in ModemStates /\ expected[s] \in BOOLEAN
<1>1. toModem[s] = <<>> /\ news[s] = <<>>
  BY DEF Still
<1>2. SlotOK(od[s], sim[s], <<>>, <<>>)
  BY <1>1 DEF PInv, SlotsOK
<1>3. Attentive(od[s], sim[s], mdm[s], radio[s], expected[s], <<>>, <<>>)
  BY <1>1 DEF PatientInv, SlotsHeed
<1>4. /\ od[s] \in OdRecord /\ sim[s] \in SimRecord /\ mdm[s] \in ObjRecord
      /\ radio[s] \in ModemStates /\ expected[s] \in BOOLEAN
  BY DEF PInv, Shape, HistoryOK
<1>. QED
  BY <1>1, <1>2, <1>3, <1>4

(* The driver is asked for what is expected of the radio, unless the       *)
(* settings overrule what was asked.                                       *)
LEMMA AskedAsExpected ==
  ASSUME NEW airplane, NEW slots, NEW s \in slots, ~Overruled(airplane, slots)
  PROVE  effective_power_state(airplane, s) = (~airplane /\ asked[s])
BY DEF Overruled, effective_power_state

(* A slot that is not switched does not change what it heeds.              *)
LEMMA OtherExpected ==
  ASSUME NEW d, NEW p, NEW o, NEW m, NEW e, NEW x, NEW calls, NEW q,
         Attentive(d, p, o, m, e, calls, q), p.there /\ p.initialized => x = e
  PROVE  Attentive(d, p, o, m, x, calls, q)
<1>1. CASE ~p.there
  BY <1>1 DEF Attentive
<1>2. CASE p.there /\ p.initialized
  BY <1>2
<1>3. CASE p.there /\ ~p.initialized
  BY <1>3 DEF Attentive
<1>. QED
  BY <1>1, <1>2, <1>3

(* Nothing of the slots changes.                                           *)
LEMMA SlotsStay ==
  ASSUME PatientInv, UNCHANGED <<od, sim, mdm, radio, toModem, news, expected, overruled,
                               patient>>
  PROVE  PatientInv'
BY DEF PatientInv, Obedient, SlotsHeed

(* A slot whose modem's message is taken.                                  *)
LEMMA Hearing ==
  ASSUME PInv, HistoryOK, NEW s \in Slot, news[s] # <<>>, news' = [news EXCEPT ![s] = Tail(@)]
  PROVE  /\ news'[s] = Tail(news[s]) /\ \A u \in Slot : u # s => news'[u] = news[u]
         /\ SlotOK(od[s], sim[s], toModem[s], news[s]) /\ sim[s].there
         /\ toModem[s] \in Seq(CallRecord) /\ news[s] \in Seq(MessageRecord)
         /\ Head(news[s]) \in MessageRecord
         /\ od[s] \in OdRecord /\ sim[s] \in SimRecord /\ mdm[s] \in ObjRecord
         /\ radio[s] \in ModemStates /\ expected[s] \in BOOLEAN
<1>1. /\ SlotOK(od[s], sim[s], toModem[s], news[s])
      /\ toModem[s] \in Seq(CallRecord) /\ news[s] \in Seq(MessageRecord)
      /\ od[s] \in OdRecord /\ sim[s] \in SimRecord /\ mdm[s] \in ObjRecord
      /\ radio[s] \in ModemStates /\ expected[s] \in BOOLEAN
  BY DEF PInv, SlotsOK, Shape, HistoryOK
<1>2. sim[s].there
  BY <1>1 DEF SlotOK
<1>3. Head(news[s]) \in MessageRecord
  BY <1>1
<1>4. news'[s] = Tail(news[s]) /\ \A u \in Slot : u # s => news'[u] = news[u]
  BY DEF PInv, Shape
<1>. QED
  BY <1>1, <1>2, <1>3, <1>4

(* The reply to Online.                                                    *)
LEMMA OnlineRepliedHeeds ==
  ASSUME PInv, HistoryOK, PatientInv, set_online_cb
  PROVE  PatientInv'
<1>1. PICK s \in Slot :
        /\ Reaches(s, "OnlineReply") /\ od' = [od EXCEPT ![s].power_set_pending = FALSE]
        /\ Finish(s, Head(news[s]).owner, Head(news[s]).value)
  BY DEF set_online_cb
<1>2. UNCHANGED <<mdm, radio, toModem, expected, overruled, patient>>
  BY DEF set_online_cb, history
<1>3. /\ news[s] # <<>> /\ news' = [news EXCEPT ![s] = Tail(@)]
      /\ Head(news[s]).kind = "OnlineReply"
  BY <1>1 DEF Reaches
<1>4. SUFFICES ASSUME Obedient PROVE SlotsHeed'
  BY <1>2 DEF PatientInv, Obedient
<1>5. SlotsHeed /\ Attentive(od[s], sim[s], mdm[s], radio[s], expected[s], toModem[s], news[s])
  BY <1>4 DEF PatientInv, SlotsHeed
<1>6. /\ news'[s] = Tail(news[s]) /\ \A u \in Slot : u # s => news'[u] = news[u]
      /\ SlotOK(od[s], sim[s], toModem[s], news[s]) /\ sim[s].there
      /\ news[s] \in Seq(MessageRecord)
  BY <1>3, Hearing
<1>7. /\ ~od'[s].power_set_pending /\ od'[s].initializing = od[s].initializing
      /\ \A u \in Slot : u # s => od'[u] = od[u]
  BY <1>1 DEF PInv, Shape, OdRecord
<1>8. /\ sim'[s].there = sim[s].there /\ sim'[s].initialized = sim[s].initialized
      /\ sim'[s].powered = sim[s].powered
      /\ \A u \in Slot : u # s => sim'[u] = sim[u]
  BY <1>1 DEF PInv, Shape, SimRecord, Finish
<1>9. PICK b, x : b = od'[s] /\ x = sim'[s]
  OBVIOUS
<1>10. Attentive(b, x, mdm[s], radio[s], expected[s], toModem[s], Tail(news[s]))
  <2>1. /\ ~b.power_set_pending /\ b.initializing = od[s].initializing
        /\ x.there /\ x.initialized = sim[s].initialized /\ x.powered = sim[s].powered
    BY <1>6, <1>7, <1>8, <1>9
  <2>. QED
    BY <1>3, <1>5, <1>6, <2>1, OnlineDone
<1>11. Attentive(od'[s], sim'[s], mdm'[s], radio'[s], expected'[s], toModem'[s], news'[s])
  BY <1>2, <1>6, <1>9, <1>10
<1>. QED
  BY <1>2, <1>5, <1>6, <1>7, <1>8, <1>11, OneSlotHeeds

(* The reply to Powered: the modem is put online next.                     *)
LEMMA PoweredRepliedHeeds ==
  ASSUME PInv, HistoryOK, PatientInv, set_powered_cb
  PROVE  PatientInv'
<1>1. PICK s \in Slot :
        /\ Reaches(s, "PoweredReply")
        /\ IF Head(news[s]).value /\ od[s].power_target /\ ~mdm[s].online
           THEN /\ toModem' = [toModem EXCEPT
                                 ![s] = Append(@, Call("Online", TRUE, Head(news[s]).owner))]
                /\ UNCHANGED <<od, sim, req>>
           ELSE /\ od' = [od EXCEPT ![s].power_set_pending = FALSE]
                /\ Finish(s, Head(news[s]).owner, Head(news[s]).value)
                /\ UNCHANGED toModem
  BY DEF set_powered_cb
<1>2. UNCHANGED <<mdm, radio, expected, overruled, patient>>
  BY DEF set_powered_cb, history
<1>3. /\ news[s] # <<>> /\ news' = [news EXCEPT ![s] = Tail(@)]
      /\ Head(news[s]).kind = "PoweredReply"
  BY <1>1 DEF Reaches
<1>4. SUFFICES ASSUME Obedient PROVE SlotsHeed'
  BY <1>2 DEF PatientInv, Obedient
<1>5. SlotsHeed /\ Attentive(od[s], sim[s], mdm[s], radio[s], expected[s], toModem[s], news[s])
  BY <1>4 DEF PatientInv, SlotsHeed
<1>6. /\ news'[s] = Tail(news[s]) /\ \A u \in Slot : u # s => news'[u] = news[u]
      /\ SlotOK(od[s], sim[s], toModem[s], news[s]) /\ sim[s].there
      /\ toModem[s] \in Seq(CallRecord) /\ news[s] \in Seq(MessageRecord)
      /\ Head(news[s]) \in MessageRecord /\ expected[s] \in BOOLEAN
  BY <1>3, Hearing
<1>7. PICK owner \in Owner : owner = Head(news[s]).owner
  BY <1>6 DEF MessageRecord
<1>8. /\ Head(news[s]).value /\ od[s].power_target /\ ~mdm[s].online
      /\ Attentive(od[s], sim[s], mdm[s], radio[s], expected[s],
                   Append(toModem[s], Call("Online", TRUE, owner)), Tail(news[s]))
  BY <1>3, <1>5, <1>6, PoweredDone, ZenonT(60)
<1>9. /\ toModem' = [toModem EXCEPT ![s] = Append(@, Call("Online", TRUE, owner))]
      /\ UNCHANGED <<od, sim>>
  BY <1>1, <1>7, <1>8
<1>10. /\ toModem'[s] = Append(toModem[s], Call("Online", TRUE, owner))
       /\ \A u \in Slot : u # s => toModem'[u] = toModem[u]
  BY <1>9 DEF PInv, Shape
<1>11. Attentive(od'[s], sim'[s], mdm'[s], radio'[s], expected'[s], toModem'[s], news'[s])
  BY <1>2, <1>6, <1>8, <1>9, <1>10
<1>. QED
  BY <1>2, <1>5, <1>6, <1>9, <1>10, <1>11, OneSlotHeeds

(* The modem tells that it is online, or not.                              *)
LEMMA OnlineToldHeeds ==
  ASSUME PInv, HistoryOK, PatientInv, online_changed
  PROVE  PatientInv'
<1>1. PICK s \in Slot :
        /\ Reaches(s, "Online")
        /\ mdm' = [mdm EXCEPT ![s].online = Head(news[s]).value]
        /\ sim' = [sim EXCEPT ![s].powered = mdm'[s].powered /\ mdm'[s].online]
  BY DEF online_changed
<1>2. UNCHANGED <<od, radio, toModem, expected, overruled, patient>>
  BY DEF online_changed, history
<1>3. /\ news[s] # <<>> /\ news' = [news EXCEPT ![s] = Tail(@)]
      /\ Head(news[s]).kind = "Online"
  BY <1>1 DEF Reaches
<1>4. SUFFICES ASSUME Obedient PROVE SlotsHeed'
  BY <1>2 DEF PatientInv, Obedient
<1>5. SlotsHeed /\ Attentive(od[s], sim[s], mdm[s], radio[s], expected[s], toModem[s], news[s])
  BY <1>4 DEF PatientInv, SlotsHeed
<1>6. /\ news'[s] = Tail(news[s]) /\ \A u \in Slot : u # s => news'[u] = news[u]
      /\ sim[s].there /\ news[s] \in Seq(MessageRecord)
      /\ mdm[s] \in ObjRecord /\ radio[s] \in ModemStates
  BY <1>3, Hearing
<1>7. /\ mdm'[s] = [mdm[s] EXCEPT !.online = Head(news[s]).value]
      /\ \A u \in Slot : u # s => mdm'[u] = mdm[u]
  BY <1>1 DEF PInv, Shape
<1>8. PICK y : y = mdm'[s]
  OBVIOUS
<1>9. /\ sim'[s].there = sim[s].there /\ sim'[s].initialized = sim[s].initialized
      /\ sim'[s].powered = (y.powered /\ y.online)
      /\ \A u \in Slot : u # s => sim'[u] = sim[u]
  <2>1. PICK v : v = (y.powered /\ y.online)
    OBVIOUS
  <2>2. sim' = [sim EXCEPT ![s].powered = v]
    BY <1>1, <1>8, <2>1
  <2>. QED
    BY <2>1, <2>2 DEF PInv, Shape, SimRecord
<1>10. PICK x : x = sim'[s]
  OBVIOUS
<1>11. Attentive(od[s], x, y, radio[s], expected[s], toModem[s], Tail(news[s]))
  <2>1. y = [mdm[s] EXCEPT !.online = Head(news[s]).value]
    BY <1>7, <1>8
  <2>2. x.there /\ x.initialized = sim[s].initialized /\ x.powered = (y.powered /\ y.online)
    BY <1>6, <1>9, <1>10
  <2>. QED
    BY <1>3, <1>5, <1>6, <2>1, <2>2, OnlineHeard
<1>12. Attentive(od'[s], sim'[s], mdm'[s], radio'[s], expected'[s], toModem'[s], news'[s])
  BY <1>2, <1>6, <1>8, <1>10, <1>11
<1>. QED
  BY <1>2, <1>5, <1>6, <1>7, <1>9, <1>12, OneSlotHeeds

(* The modem tells whether it has power: its slot may come up, and is      *)
(* expected to be as it is switched then.                                  *)
LEMMA PowerToldHeeds ==
  ASSUME PInv, HistoryOK, PatientInv, powered_arrives
  PROVE  PatientInv'
<1>0. PICK s \in Slot :
        /\ TellsPower(s)
        /\ LET o  == ObjectAfter(s)
               up == od[s].initializing /\ o.powered
               on == effective_power_state(airplane_mode, s)
           IN  /\ mdm' = [mdm EXCEPT ![s] = o]
               /\ sim' = [sim EXCEPT ![s].powered = o.powered /\ o.online,
                                     ![s].initialized = @ \/ up]
               /\ IF up
                  THEN /\ od' = [od EXCEPT ![s] = [ofono_power_set(@, o, on)
                                                     EXCEPT !.initializing = FALSE]]
                       /\ toModem' = [toModem EXCEPT ![s] = @ \o FirstCalls(od[s], o, on, Nobody)]
                       /\ expected' = [expected EXCEPT ![s] = ~airplane_mode /\ asked[s]]
                       /\ overruled' = (overruled \/ Overruled(airplane_mode, {s}))
                  ELSE UNCHANGED <<od, toModem, expected, overruled>>
  BY DEF powered_arrives
<1>2. UNCHANGED <<radio, patient>>
  BY DEF powered_arrives
<1>3. /\ news[s] # <<>> /\ news' = [news EXCEPT ![s] = Tail(@)]
      /\ Head(news[s]).kind \in {"Powered", "Properties"}
  BY <1>0 DEF TellsPower, Reaches
<1>4. SUFFICES ASSUME Obedient, ~overruled' PROVE SlotsHeed'
  BY <1>0, <1>2 DEF PatientInv, Obedient
<1>5. SlotsHeed /\ Attentive(od[s], sim[s], mdm[s], radio[s], expected[s], toModem[s], news[s])
  BY <1>4 DEF PatientInv, SlotsHeed
<1>6. /\ news'[s] = Tail(news[s]) /\ \A u \in Slot : u # s => news'[u] = news[u]
      /\ SlotOK(od[s], sim[s], toModem[s], news[s]) /\ sim[s].there
      /\ toModem[s] \in Seq(CallRecord) /\ news[s] \in Seq(MessageRecord)
      /\ Head(news[s]) \in MessageRecord
      /\ od[s] \in OdRecord /\ sim[s] \in SimRecord /\ mdm[s] \in ObjRecord
      /\ radio[s] \in ModemStates /\ expected[s] \in BOOLEAN
  BY <1>3, Hearing
<1>7. IF Head(news[s]).kind = "Properties" THEN Head(news[s]).value \in ModemStates
      ELSE Head(news[s]).value \in BOOLEAN
  BY <1>6, MessageKinds
<1>8. ObjectAfter(s) \in ObjRecord
  BY <1>6, <1>7 DEF ObjectAfter, ObjRecord, ModemStates
<1>9. PICK y \in ObjRecord : y = ObjectAfter(s)
  BY <1>8
<1>10. /\ y = IF Head(news[s]).kind = "Properties" THEN Head(news[s]).value
              ELSE [mdm[s] EXCEPT !.powered = Head(news[s]).value]
       /\ y.online = IF Head(news[s]).kind = "Properties" THEN Head(news[s]).value.online
                     ELSE mdm[s].online
       /\ y.powered = IF Head(news[s]).kind = "Properties" THEN Head(news[s]).value.powered
                      ELSE Head(news[s]).value
  BY <1>6, <1>9 DEF ObjectAfter, ObjRecord
<1>11. PICK on \in BOOLEAN : on = effective_power_state(airplane_mode, s)
  BY EffectiveIsBoolean
<1>12. PICK up \in BOOLEAN : up <=> od[s].initializing /\ y.powered
  OBVIOUS
<1>13. /\ mdm' = [mdm EXCEPT ![s] = y]
       /\ sim' = [sim EXCEPT ![s].powered = y.powered /\ y.online, ![s].initialized = @ \/ up]
  BY <1>0, <1>9, <1>12
<1>14. mdm'[s] = y /\ \A u \in Slot : u # s => mdm'[u] = mdm[u]
  BY <1>13 DEF PInv, Shape
<1>15. /\ \A u \in Slot : u # s => sim'[u] = sim[u]
       /\ sim'[s].there = sim[s].there /\ (sim'[s].initialized <=> sim[s].initialized \/ up)
       /\ sim'[s].powered = (y.powered /\ y.online) /\ sim'[s] \in SimRecord
  <2>1. PICK v, w : v = (y.powered /\ y.online) /\ w = (sim[s].initialized \/ up)
    OBVIOUS
  <2>2. v \in BOOLEAN /\ w \in BOOLEAN
    BY <2>1
  <2>3. sim' = [sim EXCEPT ![s].powered = v, ![s].initialized = w]
    BY <1>13, <2>1 DEF PInv, Shape
  <2>. QED
    BY <2>1, <2>2, <2>3 DEF PInv, Shape, SimRecord
<1>16. PICK x \in SimRecord : x = sim'[s]
  BY <1>15
<1>17. CASE ~up
  <2>1. UNCHANGED <<od, toModem, expected>>
    BY <1>0, <1>9, <1>12, <1>17
  <2>2. x.there /\ x.initialized = sim[s].initialized /\ x.powered = (y.powered /\ y.online)
    BY <1>6, <1>15, <1>16, <1>17 DEF SimRecord
  <2>3. ~(od[s].initializing /\ y.powered)
    BY <1>12, <1>17
  <2>4. Attentive(od[s], x, y, radio[s], expected[s], toModem[s], Tail(news[s]))
    BY <1>3, <1>5, <1>6, <1>10, <2>2, <2>3, PowerHeard
  <2>5. Attentive(od'[s], sim'[s], mdm'[s], radio'[s], expected'[s], toModem'[s], news'[s])
    BY <1>2, <1>6, <1>14, <1>16, <2>1, <2>4
  <2>. QED
    BY <1>2, <1>5, <1>6, <1>14, <1>15, <2>1, <2>5, OneSlotHeeds
<1>18. CASE up
  <2>1. od[s].initializing /\ y.powered
    BY <1>12, <1>18
  <2>2. /\ od' = [od EXCEPT ![s] = [ofono_power_set(@, y, on) EXCEPT !.initializing = FALSE]]
        /\ toModem' = [toModem EXCEPT ![s] = @ \o FirstCalls(od[s], y, on, Nobody)]
        /\ expected' = [expected EXCEPT ![s] = on]
    <3>0. ~Overruled(airplane_mode, {s})
      BY <1>0, <1>4, <1>9, <2>1
    <3>1. (~airplane_mode /\ asked[s]) = on
      BY <1>11, <3>0, AskedAsExpected
    <3>. QED
      BY <1>0, <1>9, <1>11, <2>1, <3>1
  <2>3. PICK d \in OdRecord : d = ofono_power_set(od[s], y, on)
    BY <1>6 DEF ofono_power_set, SwitchedAlready, OdRecord, ObjRecord
  <2>4. /\ od'[s] = [d EXCEPT !.initializing = FALSE]
        /\ \A u \in Slot : u # s => od'[u] = od[u]
    BY <2>2, <2>3 DEF PInv, Shape
  <2>5. PICK b : b = od'[s]
    OBVIOUS
  <2>6. ~b.initializing /\ b.power_set_pending = ofono_power_set(od[s], y, on).power_set_pending
    BY <2>3, <2>4, <2>5 DEF OdRecord
  <2>7. /\ toModem'[s] = toModem[s] \o FirstCalls(od[s], y, on, Nobody)
        /\ \A u \in Slot : u # s => toModem'[u] = toModem[u]
    BY <2>2 DEF PInv, Shape
  <2>8. expected'[s] = on /\ \A u \in Slot : u # s => expected'[u] = expected[u]
    BY <2>2 DEF HistoryOK
  <2>9. x.there /\ x.initialized /\ x.powered = (y.powered /\ y.online)
    BY <1>6, <1>15, <1>16, <1>18
  <2>10. Attentive(b, x, y, radio[s], on, toModem[s] \o FirstCalls(od[s], y, on, Nobody),
                   Tail(news[s]))
    <3>1. PICK dd \in OdRecord, p \in SimRecord, o \in ObjRecord, m \in ModemStates, e \in BOOLEAN,
               calls \in Seq(CallRecord), q \in Seq(MessageRecord) :
                 /\ dd = od[s] /\ p = sim[s] /\ o = mdm[s] /\ m = radio[s] /\ e = expected[s]
                 /\ calls = toModem[s] /\ q = news[s]
      BY <1>6, Zenon
    <3>2. /\ y.online = IF Head(q).kind = "Properties" THEN Head(q).value.online ELSE o.online
          /\ y.powered = IF Head(q).kind = "Properties" THEN Head(q).value.powered ELSE Head(q).value
      BY <1>10, <3>1
    <3>3. /\ SlotOK(dd, p, calls, q) /\ Attentive(dd, p, o, m, e, calls, q) /\ p.there
          /\ Head(q).kind \in {"Powered", "Properties"} /\ q # <<>>
      BY <1>3, <1>5, <1>6, <3>1
    <3>4. /\ dd.initializing /\ y.powered /\ ~b.initializing
          /\ b.power_set_pending = ofono_power_set(dd, y, on).power_set_pending
      BY <2>1, <2>6, <3>1
    <3>5. Attentive(b, x, y, m, on, calls \o FirstCalls(dd, y, on, Nobody), Tail(q))
      BY <2>9, <3>2, <3>3, <3>4, PowerComes
    <3>. QED
      BY <3>1, <3>5
  <2>11. Attentive(od'[s], sim'[s], mdm'[s], radio'[s], expected'[s], toModem'[s], news'[s])
    BY <1>2, <1>6, <1>14, <1>16, <2>5, <2>7, <2>8, <2>10
  <2>. QED
    BY <1>2, <1>5, <1>6, <1>14, <1>15, <2>4, <2>7, <2>8, <2>11, OneSlotHeeds
<1>. QED
  BY <1>17, <1>18

(* powerSet, when all is quiet: the slot heeds the request.                *)
LEMMA PowerSetHeeds ==
  ASSUME PInv, HistoryOK, PatientInv, power_set
  PROVE  PatientInv'
<1>1. PICK f : f = Fresh
  OBVIOUS
<1>2. f \in Owner
  BY <1>1, FreshIsNew DEF power_set, Owner
<1>3. PICK s \in Slot, on \in BOOLEAN :
       /\ sim[s].there /\ sim[s].initialized
       /\ sim' = [sim EXCEPT ![s].power_off_pending = power_off_pending(od[s], mdm[s], on)]
       /\ od' = [od EXCEPT ![s] = ofono_power_set(od[s], mdm[s], on)]
       /\ toModem' = [toModem EXCEPT ![s] = @ \o FirstCalls(od[s], mdm[s], on, f)]
       /\ expected' = [expected EXCEPT ![s] = on]
  BY <1>1 DEF power_set
<1>4. patient' = (patient /\ Still) /\ UNCHANGED <<mdm, radio, news, overruled>>
  BY DEF power_set
<1>5. SUFFICES ASSUME Obedient /\ Still PROVE SlotsHeed'
  BY <1>4 DEF PatientInv, Obedient
<1>6. /\ toModem[s] = <<>> /\ news[s] = <<>>
      /\ SlotOK(od[s], sim[s], <<>>, <<>>)
      /\ Attentive(od[s], sim[s], mdm[s], radio[s], expected[s], <<>>, <<>>)
      /\ od[s] \in OdRecord /\ sim[s] \in SimRecord /\ mdm[s] \in ObjRecord
      /\ radio[s] \in ModemStates /\ expected[s] \in BOOLEAN
  BY <1>5, QuietSlots
<1>7. SlotsHeed
  BY <1>5 DEF PatientInv
<1>8. /\ sim'[s].there = sim[s].there /\ sim'[s].initialized = sim[s].initialized
      /\ sim'[s].powered = sim[s].powered /\ \A u \in Slot : u # s => sim'[u] = sim[u]
  BY <1>3 DEF PInv, Shape, SimRecord
<1>9. /\ od'[s] = ofono_power_set(od[s], mdm[s], on) /\ \A u \in Slot : u # s => od'[u] = od[u]
      /\ toModem'[s] = <<>> \o FirstCalls(od[s], mdm[s], on, f)
      /\ \A u \in Slot : u # s => toModem'[u] = toModem[u]
      /\ expected'[s] = on /\ \A u \in Slot : u # s => expected'[u] = expected[u]
  BY <1>3, <1>6 DEF PInv, Shape, HistoryOK
<1>10. PICK b, x : b = ofono_power_set(od[s], mdm[s], on) /\ x = sim'[s]
  OBVIOUS
<1>11. Attentive(b, x, mdm[s], radio[s], on, <<>> \o FirstCalls(od[s], mdm[s], on, f), <<>>)
  <2>1. x.there /\ x.initialized /\ x.powered = sim[s].powered
    BY <1>3, <1>8, <1>10
  <2>. QED
    BY <1>2, <1>3, <1>6, <1>10, <2>1, SwitchQuiet
<1>12. Attentive(od'[s], sim'[s], mdm'[s], radio'[s], expected'[s], toModem'[s], news'[s])
  BY <1>4, <1>6, <1>9, <1>10, <1>11
<1>. QED
  BY <1>4, <1>7, <1>8, <1>9, <1>12, OneSlotHeeds

(* airplaneModeSet, when all is quiet: the slots that are switched heed    *)
(* it, and the others are as it wants them.                                *)
LEMMA AirplaneSetHeeds ==
  ASSUME PInv, HistoryOK, PatientInv, airplane_mode_set
  PROVE  PatientInv'
<1>1. PICK f : f = Fresh
  OBVIOUS
<1>2. f \in Owner
  BY <1>1, FreshIsNew DEF airplane_mode_set, Owner
<1>a. PICK airplane \in BOOLEAN :
        LET want == [s \in Slot |-> effective_power_state(airplane, s)]
            them == ToSwitch(airplane)
        IN  /\ sim' = [s \in Slot |->
                         IF s \in them
                         THEN [sim[s] EXCEPT !.power_off_pending =
                                  power_off_pending(od[s], mdm[s], want[s])]
                         ELSE sim[s]]
            /\ od' = [s \in Slot |-> IF s \in them THEN ofono_power_set(od[s], mdm[s], want[s])
                                     ELSE od[s]]
            /\ toModem' = [s \in Slot |->
                             IF s \in them
                             THEN toModem[s] \o FirstCalls(od[s], mdm[s], want[s], Fresh)
                             ELSE toModem[s]]
            /\ expected' = [s \in Slot |-> sim[s].initialized /\ ~airplane /\ asked[s]]
            /\ overruled' = (overruled \/ Overruled(airplane, {s \in Slot : sim[s].initialized}))
  BY DEF airplane_mode_set
<1>4. patient' = (patient /\ Still) /\ UNCHANGED <<mdm, radio, news>>
  BY DEF airplane_mode_set
<1>5. SUFFICES ASSUME Obedient /\ Still, NEW s \in Slot,
                      ~Overruled(airplane, {u \in Slot : sim[u].initialized})
               PROVE  Attentive(od'[s], sim'[s], mdm'[s], radio'[s], expected'[s], toModem'[s],
                                news'[s])
  BY <1>a, <1>4 DEF PatientInv, Obedient, SlotsHeed
<1>6. /\ toModem[s] = <<>> /\ news[s] = <<>>
      /\ SlotOK(od[s], sim[s], <<>>, <<>>)
      /\ Attentive(od[s], sim[s], mdm[s], radio[s], expected[s], <<>>, <<>>)
      /\ od[s] \in OdRecord /\ sim[s] \in SimRecord /\ mdm[s] \in ObjRecord
      /\ radio[s] \in ModemStates /\ expected[s] \in BOOLEAN
  BY <1>5, QuietSlots
<1>7. PICK on \in BOOLEAN : on = effective_power_state(airplane, s)
  BY EffectiveIsBoolean
<1>8. expected'[s] = (sim[s].initialized /\ on)
  <2>1. sim[s].initialized => on = (~airplane /\ asked[s])
    BY <1>5, <1>7, AskedAsExpected
  <2>2. sim[s].initialized \in BOOLEAN
    BY <1>6 DEF SimRecord
  <2>. QED
    BY <1>a, <2>1, <2>2
<1>9. s \in ToSwitch(airplane) <=> sim[s].initialized /\ sim[s].powered # on
  BY <1>7 DEF ToSwitch
<1>10. CASE s \in ToSwitch(airplane)
  <2>1. sim[s].initialized /\ sim[s].there
    BY <1>6, <1>9, <1>10 DEF SlotOK
  <2>2. PICK b, x : b = ofono_power_set(od[s], mdm[s], on) /\ x = sim'[s]
    OBVIOUS
  <2>3. sim'[s] = [sim[s] EXCEPT !.power_off_pending = power_off_pending(od[s], mdm[s], on)]
    BY <1>a, <1>7, <1>10
  <2>4. x.there /\ x.initialized /\ x.powered = sim[s].powered
    BY <1>6, <2>1, <2>2, <2>3 DEF SimRecord
  <2>5. Attentive(b, x, mdm[s], radio[s], on, <<>> \o FirstCalls(od[s], mdm[s], on, f), <<>>)
    BY <1>2, <1>6, <2>1, <2>2, <2>4, SwitchQuiet
  <2>6. /\ od'[s] = ofono_power_set(od[s], mdm[s], on)
        /\ toModem'[s] = <<>> \o FirstCalls(od[s], mdm[s], on, f)
    BY <1>1, <1>a, <1>6, <1>7, <1>10
  <2>7. expected'[s] = on
    BY <1>8, <2>1
  <2>. QED
    BY <1>4, <1>6, <2>2, <2>5, <2>6, <2>7
<1>11. CASE s \notin ToSwitch(airplane)
  <2>1. sim'[s] = sim[s] /\ od'[s] = od[s] /\ toModem'[s] = <<>>
    BY <1>a, <1>6, <1>11
  <2>2. PICK x : x = expected'[s]
    OBVIOUS
  <2>3. sim[s].there /\ sim[s].initialized => x = expected[s]
    <3>1. ASSUME sim[s].there, sim[s].initialized
          PROVE  x = expected[s]
      <4>1. sim[s].powered = on /\ x = on
        BY <1>8, <1>9, <1>11, <2>2, <3>1
      <4>2. (sim[s].powered <=> radio[s].online) /\ radio[s].online = expected[s]
        <5>1. /\ ~od[s].power_set_pending /\ mdm[s].online = radio[s].online
              /\ mdm[s].powered = radio[s].powered
              /\ sim[s].powered <=> radio[s].online
              /\ sim[s].initialized => radio[s].online = expected[s]
              /\ ~sim[s].initialized => ~radio[s].powered /\ ~radio[s].online
          BY <1>6, <3>1, QuietSlot, SMTT(40)
        <5>. QED
          BY <3>1, <5>1
      <4>. QED
        BY <1>6, <4>1, <4>2 DEF SimRecord
    <3>. QED
      BY <3>1
  <2>4. Attentive(od[s], sim[s], mdm[s], radio[s], x, <<>>, <<>>)
    BY <1>6, <2>3, OtherExpected
  <2>. QED
    BY <1>4, <1>6, <2>1, <2>2, <2>4
<1>. QED
  BY <1>10, <1>11

(* The slots come, with nothing on its way: their modems' properties are   *)
(* asked for.                                                              *)
LEMMA SlotsComeHeed ==
  ASSUME PInv, HistoryOK, PatientInv, SlotsCome
  PROVE  PatientInv'
<1>1. /\ \A s \in Slot : ~sim[s].there
      /\ sim' = [s \in Slot |-> [NoSim EXCEPT !.there = TRUE]]
      /\ od' = [s \in Slot |-> [NoOd EXCEPT !.initializing = TRUE]]
      /\ mdm' = [s \in Slot |-> Off]
      /\ toModem' = [s \in Slot |-> Append(toModem[s], GetPowerState)]
      /\ UNCHANGED <<radio, news, expected, overruled, patient>>
  BY DEF SlotsCome, history
<1>2. SUFFICES ASSUME Obedient, NEW s \in Slot
               PROVE  Attentive(od'[s], sim'[s], mdm'[s], radio'[s], expected'[s], toModem'[s],
                                news'[s])
  BY <1>1 DEF PatientInv, Obedient, SlotsHeed
<1>3. /\ SlotOK(od[s], sim[s], toModem[s], news[s]) /\ None(toModem[s], Lost)
      /\ toModem[s] \in Seq(CallRecord)
  BY <1>2 DEF PInv, SlotsOK, Shape, PatientInv, SlotsHeed, Attentive
<1>4. news[s] = <<>> /\ toModem[s] = <<>>
  <2>1. news[s] = <<>> /\ \A i \in DOMAIN toModem[s] : toModem[s][i].lost
    BY <1>1, <1>3 DEF SlotOK
  <2>2. \A i \in DOMAIN toModem[s] : toModem[s][i] \in CallRecord /\ toModem[s][i] \notin Lost
    BY <1>3 DEF None, Open
  <2>3. DOMAIN toModem[s] = {}
    BY <2>1, <2>2, CallKinds
  <2>4. \A q \in Seq(CallRecord) : DOMAIN q = {} => q = <<>>
    OBVIOUS
  <2>. QED
    BY <1>3, <2>1, <2>3, <2>4
<1>5. PICK c \in CallRecord : c = GetPowerState
  BY DEF GetPowerState, Call, CallRecord, Owner
<1>6. c.kind = "get" /\ ~c.lost
  BY <1>5 DEF GetPowerState, Call
<1>7. PICK calls : calls = Append(<<>>, c)
  OBVIOUS
<1>8. \A K : None(calls, K) <=> c \notin K
  <2>1. <<>> \in Seq(CallRecord)
    OBVIOUS
  <2>2. \A K : None(Append(<<>>, c), K) <=> None(<<>>, K) /\ c \notin K
    BY <2>1, Added
  <2>. QED
    BY <1>7, <2>2, Empty
<1>9. None(calls, Lost) /\ None(calls, Switching) /\ ~None(calls, CallsTo("get"))
  BY <1>6, <1>8, CallKinds
<1>10. \A K, T : None(<<>>, K) /\ LastIn(<<>>, K, T)
  BY Empty
<1>11. PICK p, d, o : /\ p = [NoSim EXCEPT !.there = TRUE] /\ d = [NoOd EXCEPT !.initializing = TRUE]
                      /\ o = Off
  OBVIOUS
<1>12. /\ p.there /\ ~p.initialized /\ ~p.powered /\ d.initializing
       /\ ~o.powered /\ ~o.online
  BY <1>11 DEF NoSim, NoOd, Off
<1>13. Follows(o, radio[s], calls, <<>>)
  BY <1>9, <1>10 DEF Follows
<1>14. Waits(o, radio[s], calls, <<>>)
  BY <1>9, <1>10, <1>12 DEF Waits
<1>15. Attentive(d, p, o, radio[s], expected[s], calls, <<>>)
  BY <1>9, <1>12, <1>13, <1>14 DEF Attentive
<1>. QED
  BY <1>1, <1>4, <1>5, <1>7, <1>11, <1>15

(* A slot that is gone, with no call on its way.                           *)
LEMMA GoneHeeds ==
  \A d, o, m, e : Attentive(d, NoSim, o, m, e, <<>>, <<>>)
BY Empty DEF Attentive, NoSim

(* ofono or the daemon dies when all is quiet.                             *)
LEMMA DeathHeeds ==
  ASSUME PInv, HistoryOK, PatientInv, OfonoExits \/ DaemonDies
  PROVE  PatientInv'
<1>1. patient' = (patient /\ Still) /\ UNCHANGED overruled
  BY DEF OfonoExits, DaemonDies
<1>2. SUFFICES ASSUME Obedient /\ Still, NEW s \in Slot
               PROVE  Attentive(od'[s], sim'[s], mdm'[s], radio'[s], expected'[s], toModem'[s],
                                news'[s])
  BY <1>1 DEF PatientInv, Obedient, SlotsHeed
<1>3. sim'[s] = NoSim /\ news'[s] = <<>>
  BY DEF OfonoExits, DaemonDies
<1>4. toModem'[s] = <<>>
  <2>1. CASE OfonoExits
    BY <2>1 DEF OfonoExits
  <2>2. CASE DaemonDies
    <3>1. toModem[s] = <<>>
      BY <1>2 DEF Still
    <3>2. toModem'[s] = [i \in DOMAIN toModem[s] |->
                           [toModem[s][i] EXCEPT !.owner = Nobody, !.lost = TRUE]]
      BY <2>2 DEF DaemonDies
    <3>. QED
      BY <3>1, <3>2
  <2>. QED
    BY <2>1, <2>2
<1>. QED
  BY <1>3, <1>4, GoneHeeds

(* A modem gets power.                                                     *)
LEMMA ModemPowersHeeds ==
  ASSUME PInv, HistoryOK, PatientInv, RadioPowers
  PROVE  PatientInv'
<1>1. PICK s \in Slot : /\ ~radio[s].powered
                        /\ radio' = [radio EXCEPT ![s].powered = TRUE]
                        /\ Say(s, <<Tidings("Powered", TRUE, Nobody)>>)
  BY DEF RadioPowers
<1>2. UNCHANGED <<od, sim, mdm, toModem, expected, overruled, patient>>
  BY DEF RadioPowers, copies, history
<1>3. SUFFICES ASSUME Obedient PROVE SlotsHeed'
  BY <1>2 DEF PatientInv, Obedient
<1>4. SlotsHeed /\ Attentive(od[s], sim[s], mdm[s], radio[s], expected[s], toModem[s], news[s])
  BY <1>3 DEF PatientInv, SlotsHeed
<1>5. /\ SlotOK(od[s], sim[s], toModem[s], news[s]) /\ news[s] \in Seq(MessageRecord)
      /\ radio[s] \in ModemStates
  BY DEF PInv, SlotsOK, Shape
<1>6. PICK g \in MessageRecord : g = Tidings("Powered", TRUE, Nobody)
  BY Messages
<1>7. news[s] \o <<g>> = Append(news[s], g)
  BY <1>5
<1>8. /\ news'[s] = IF sim[s].there THEN Append(news[s], g) ELSE news[s]
      /\ \A u \in Slot : u # s => news'[u] = news[u]
  <2>1. news[s] \o <<g>> \in Seq(MessageRecord)
    BY <1>5, <1>7
  <2>2. Say(s, <<g>>)
    BY <1>1, <1>6
  <2>. QED
    BY <1>7, <2>1, <2>2, SayFrame DEF PInv
<1>9. /\ radio'[s].online = radio[s].online /\ radio'[s].powered = TRUE
      /\ \A u \in Slot : u # s => radio'[u] = radio[u]
  BY <1>1 DEF PInv, Shape, ModemStates
<1>10. PICK w : w = radio'[s]
  OBVIOUS
<1>11. CASE sim[s].there
  <2>1. w.online = radio[s].online /\ w.powered = TRUE
    BY <1>9, <1>10
  <2>2. Attentive(od[s], sim[s], mdm[s], w, expected[s], toModem[s],
                  Append(news[s], Tidings("Powered", TRUE, Nobody)))
    BY <1>1, <1>4, <1>5, <1>11, <2>1, PowerCame
  <2>3. Attentive(od'[s], sim'[s], mdm'[s], radio'[s], expected'[s], toModem'[s], news'[s])
    BY <1>2, <1>6, <1>8, <1>10, <1>11, <2>2
  <2>. QED
    BY <1>2, <1>4, <1>8, <1>9, <2>3, OneSlotHeeds
<1>12. CASE ~sim[s].there
  <2>1. Attentive(od[s], sim[s], mdm[s], w, expected[s], toModem[s], news[s])
    BY <1>4, <1>12 DEF Attentive
  <2>2. Attentive(od'[s], sim'[s], mdm'[s], radio'[s], expected'[s], toModem'[s], news'[s])
    BY <1>2, <1>8, <1>10, <1>12, <2>1
  <2>. QED
    BY <1>2, <1>4, <1>8, <1>9, <2>2, OneSlotHeeds
<1>. QED
  BY <1>11, <1>12

(* A modem loses its power when all is quiet, and is not expected to be    *)
(* online any more.                                                        *)
LEMMA ModemLosesPowerHeeds ==
  ASSUME PInv, HistoryOK, PatientInv, RadioLosesPower
  PROVE  PatientInv'
<1>1. PICK s \in Slot :
        /\ radio[s].powered
        /\ radio' = [radio EXCEPT ![s] = Off]
        /\ Say(s, (IF radio[s].online THEN <<Tidings("Online", FALSE, Nobody)>> ELSE <<>>)
                  \o <<Tidings("Powered", FALSE, Nobody)>>)
        /\ expected' = [expected EXCEPT ![s] = FALSE]
  BY DEF RadioLosesPower
<1>2. patient' = (patient /\ Still) /\ UNCHANGED <<od, sim, mdm, toModem, overruled>>
  BY DEF RadioLosesPower, copies
<1>3. SUFFICES ASSUME Obedient /\ Still PROVE SlotsHeed'
  BY <1>2 DEF PatientInv, Obedient
<1>4. /\ toModem[s] = <<>> /\ news[s] = <<>>
      /\ SlotOK(od[s], sim[s], <<>>, <<>>)
      /\ Attentive(od[s], sim[s], mdm[s], radio[s], expected[s], <<>>, <<>>)
      /\ od[s] \in OdRecord /\ sim[s] \in SimRecord /\ mdm[s] \in ObjRecord
      /\ radio[s] \in ModemStates /\ expected[s] \in BOOLEAN
  BY <1>3, QuietSlots
<1>5. SlotsHeed
  BY <1>3 DEF PatientInv
<1>6. PICK said : said = (IF radio[s].online THEN <<Tidings("Online", FALSE, Nobody)>> ELSE <<>>)
                            \o <<Tidings("Powered", FALSE, Nobody)>>
  OBVIOUS
<1>7. said \in Seq(MessageRecord)
  <2>1. PICK a \in MessageRecord, b \in MessageRecord :
          a = Tidings("Online", FALSE, Nobody) /\ b = Tidings("Powered", FALSE, Nobody)
    BY Messages
  <2>2. <<a>> \o <<b>> \in Seq(MessageRecord) /\ <<>> \o <<b>> \in Seq(MessageRecord)
    OBVIOUS
  <2>. QED
    BY <1>6, <2>1, <2>2
<1>8. /\ news'[s] = IF sim[s].there THEN said ELSE <<>>
      /\ \A u \in Slot : u # s => news'[u] = news[u]
  <2>1. Say(s, said)
    BY <1>1, <1>6
  <2>2. news[s] \o said = said
    BY <1>4, <1>7
  <2>. QED
    BY <1>4, <1>7, <2>1, <2>2, SayFrame DEF PInv
<1>9. /\ radio'[s] = Off /\ \A u \in Slot : u # s => radio'[u] = radio[u]
      /\ expected'[s] = FALSE /\ \A u \in Slot : u # s => expected'[u] = expected[u]
  BY <1>1 DEF PInv, Shape, HistoryOK
<1>10. CASE sim[s].there
  <2>1. Attentive(od[s], sim[s], mdm[s], Off, FALSE, <<>>, said)
    BY <1>1, <1>4, <1>6, <1>10, PowerWent
  <2>2. Attentive(od'[s], sim'[s], mdm'[s], radio'[s], expected'[s], toModem'[s], news'[s])
    BY <1>2, <1>4, <1>8, <1>9, <1>10, <2>1
  <2>. QED
    BY <1>2, <1>5, <1>8, <1>9, <2>2, OneSlotHeeds
<1>11. CASE ~sim[s].there
  <2>1. Attentive(od[s], sim[s], mdm[s], Off, FALSE, <<>>, <<>>)
    BY <1>4, <1>11 DEF Attentive
  <2>2. Attentive(od'[s], sim'[s], mdm'[s], radio'[s], expected'[s], toModem'[s], news'[s])
    BY <1>2, <1>4, <1>8, <1>9, <1>11, <2>1
  <2>. QED
    BY <1>2, <1>5, <1>8, <1>9, <2>2, OneSlotHeeds
<1>. QED
  BY <1>10, <1>11

(* ofono handles a call: it tells the properties, or does what the call    *)
(* asks, unless it fails and the user does not count as waiting any more.  *)
LEMMA OfonoHandlesHeeds ==
  ASSUME PInv, HistoryOK, PatientInv, OfonoHandles
  PROVE  PatientInv'
<1>1. PICK s \in Slot : /\ toModem[s] # <<>>
                        /\ toModem' = [toModem EXCEPT ![s] = Tail(@)]
                        /\ Handles(s, Head(toModem[s]))
  BY DEF OfonoHandles
<1>2. UNCHANGED <<od, sim, mdm, expected, overruled>>
  BY DEF OfonoHandles, copies
<1>3. /\ SlotOK(od[s], sim[s], toModem[s], news[s]) /\ radio[s] \in ModemStates
      /\ toModem[s] \in Seq(CallRecord) /\ news[s] \in Seq(MessageRecord)
      /\ expected[s] \in BOOLEAN
  BY DEF PInv, SlotsOK, Shape, HistoryOK
<1>4. PICK c \in CallRecord : c = Head(toModem[s])
  BY <1>1, <1>3
<1>5. Handles(s, c)
  BY <1>1, <1>4
<1>6. SUFFICES ASSUME Obedient' PROVE SlotsHeed'
  BY DEF PatientInv
<1>7. SlotsHeed /\ Attentive(od[s], sim[s], mdm[s], radio[s], expected[s], toModem[s], news[s])
  BY <1>2, <1>5, <1>6 DEF PatientInv, Obedient, SlotsHeed, Handles
<1>8. sim[s].there /\ ~c.lost
  BY <1>1, <1>3, <1>4, <1>7, Present
<1>9. /\ toModem'[s] = Tail(toModem[s])
      /\ \A u \in Slot : u # s => toModem'[u] = toModem[u]
  BY <1>1 DEF PInv, Shape
<1>10. ASSUME NEW w, NEW said, Say(s, said), news[s] \o said \in Seq(MessageRecord),
              radio'[s] = w, \A u \in Slot : u # s => radio'[u] = radio[u],
              Attentive(od[s], sim[s], mdm[s], w, expected[s], Tail(toModem[s]), news[s] \o said)
       PROVE  SlotsHeed'
  <2>1. /\ news'[s] = news[s] \o said
        /\ \A u \in Slot : u # s => news'[u] = news[u]
    BY <1>8, <1>10, SayFrame DEF PInv
  <2>2. Attentive(od'[s], sim'[s], mdm'[s], radio'[s], expected'[s], toModem'[s], news'[s])
    BY <1>2, <1>9, <1>10, <2>1
  <2>. QED
    BY <1>2, <1>7, <1>9, <1>10, <2>1, <2>2, OneSlotHeeds
<1>11. CASE /\ c.kind = "get"
            /\ Say(s, IF c.lost THEN <<>> ELSE <<Tidings("Properties", radio[s], Nobody)>>)
            /\ UNCHANGED <<radio, patient, faults>>
  <2>1. PICK g \in MessageRecord : g = Tidings("Properties", radio[s], Nobody)
    BY <1>3, Messages
  <2>2. news[s] \o <<g>> = Append(news[s], g) /\ news[s] \o <<g>> \in Seq(MessageRecord)
    BY <1>3
  <2>3. Say(s, <<g>>)
    BY <1>8, <1>11, <2>1
  <2>4. Attentive(od[s], sim[s], mdm[s], radio[s], expected[s], Tail(toModem[s]), Append(news[s], g))
    BY <1>1, <1>3, <1>4, <1>7, <1>11, <2>1, PropertiesTold
  <2>5. radio'[s] = radio[s] /\ \A u \in Slot : u # s => radio'[u] = radio[u]
    BY <1>11
  <2>. QED
    BY <1>10, <2>2, <2>3, <2>4, <2>5
<1>12. ASSUME c.kind # "get", NEW changed \in BOOLEAN, NEW signal,
              signal = IF changed THEN <<Tidings(c.kind, c.value, Nobody)>> ELSE <<>>,
              NEW said \in {Reply(c, TRUE) \o signal, signal \o Reply(c, TRUE)}
       PROVE  news[s] \o said \in Seq(MessageRecord)
  <2>1. PICK r \in MessageRecord : Reply(c, TRUE) = <<r>>
    BY <1>8, <1>12, ReplyIs
  <2>2. PICK g \in MessageRecord : g = Tidings(c.kind, c.value, Nobody)
    BY <1>12, Messages DEF CallRecord
  <2>3. <<r>> \in Seq(MessageRecord) /\ <<g>> \in Seq(MessageRecord) /\ <<>> \in Seq(MessageRecord)
    OBVIOUS
  <2>4. signal \in Seq(MessageRecord)
    BY <1>12, <2>2, <2>3
  <2>5. \A x, y \in Seq(MessageRecord) : x \o y \in Seq(MessageRecord)
    OBVIOUS
  <2>6. said \in Seq(MessageRecord)
    BY <1>12, <2>1, <2>3, <2>4, <2>5
  <2>. QED
    BY <1>3, <2>5, <2>6
<1>13. CASE /\ c.kind = "Powered"
            /\ radio' = [radio EXCEPT ![s].powered = TRUE]
            /\ Done(s, c, ~radio[s].powered)
            /\ UNCHANGED <<patient, faults>>
  <2>1. PICK w : w = radio'[s]
    OBVIOUS
  <2>2. /\ w.online = radio[s].online /\ w.powered = TRUE
        /\ \A u \in Slot : u # s => radio'[u] = radio[u]
    BY <1>13, <2>1 DEF PInv, Shape, ModemStates
  <2>3. PICK changed \in BOOLEAN : changed <=> ~radio[s].powered
    OBVIOUS
  <2>4. PICK signal : signal = IF changed THEN <<Tidings(c.kind, c.value, Nobody)>> ELSE <<>>
    OBVIOUS
  <2>5. PICK said \in {Reply(c, TRUE) \o signal, signal \o Reply(c, TRUE)} : Say(s, said)
    BY <1>13, <2>3, <2>4 DEF Done
  <2>6. news[s] \o said \in Seq(MessageRecord)
    BY <1>12, <1>13, <2>4
  <2>7. Attentive(od[s], sim[s], mdm[s], w, expected[s], Tail(toModem[s]), news[s] \o said)
    <3>1. PICK d, p, o : d = od[s] /\ p = sim[s] /\ o = mdm[s]
      OBVIOUS
    <3>2. PICK m \in ModemStates, e \in BOOLEAN : m = radio[s] /\ e = expected[s]
      BY <1>3
    <3>3. PICK calls, q : calls = toModem[s] /\ q = news[s]
      OBVIOUS
    <3>4. /\ SlotOK(d, p, calls, q) /\ Attentive(d, p, o, m, e, calls, q)
          /\ calls # <<>> /\ c = Head(calls) /\ c.kind = "Powered"
      BY <1>1, <1>3, <1>4, <1>7, <1>13, <3>1, <3>2, <3>3
    <3>5. c.value = TRUE
      BY <3>4, PowerAsked
    <3>6. /\ w.online = m.online /\ w.powered = c.value
          /\ changed <=> m.powered # c.value
      BY <2>2, <2>3, <3>2, <3>5 DEF ModemStates
    <3>7. Attentive(d, p, o, w, e, Tail(calls), q \o said)
      BY <2>4, <3>4, <3>6, PowerGiven, ZenonT(60)
    <3>. QED
      BY <3>1, <3>2, <3>3, <3>7
  <2>. QED
    BY <1>10, <2>1, <2>2, <2>5, <2>6, <2>7
<1>14. CASE /\ c.kind = "Online" /\ (c.value => radio[s].powered)
            /\ radio' = [radio EXCEPT ![s].online = c.value]
            /\ Done(s, c, radio[s].online # c.value)
            /\ UNCHANGED <<patient, faults>>
  <2>1. PICK w : w = radio'[s]
    OBVIOUS
  <2>2. /\ w.online = c.value /\ w.powered = radio[s].powered
        /\ \A u \in Slot : u # s => radio'[u] = radio[u]
    BY <1>14, <2>1 DEF PInv, Shape, ModemStates
  <2>3. PICK changed \in BOOLEAN : changed <=> radio[s].online # c.value
    OBVIOUS
  <2>4. PICK signal : signal = IF changed THEN <<Tidings(c.kind, c.value, Nobody)>> ELSE <<>>
    OBVIOUS
  <2>5. PICK said \in {Reply(c, TRUE) \o signal, signal \o Reply(c, TRUE)} : Say(s, said)
    BY <1>14, <2>3, <2>4 DEF Done
  <2>6. news[s] \o said \in Seq(MessageRecord)
    BY <1>12, <1>14, <2>4
  <2>7. Attentive(od[s], sim[s], mdm[s], w, expected[s], Tail(toModem[s]), news[s] \o said)
    <3>1. PICK d, p, o : d = od[s] /\ p = sim[s] /\ o = mdm[s]
      OBVIOUS
    <3>2. PICK m \in ModemStates, e \in BOOLEAN : m = radio[s] /\ e = expected[s]
      BY <1>3
    <3>3. PICK calls, q : calls = toModem[s] /\ q = news[s]
      OBVIOUS
    <3>4. /\ SlotOK(d, p, calls, q) /\ Attentive(d, p, o, m, e, calls, q)
          /\ calls # <<>> /\ c = Head(calls) /\ c.kind = "Online"
      BY <1>1, <1>3, <1>4, <1>7, <1>14, <3>1, <3>2, <3>3
    <3>5. /\ w.online = c.value /\ w.powered = m.powered
          /\ changed <=> m.online # c.value
      BY <2>2, <2>3, <3>2
    <3>6. Attentive(d, p, o, w, e, Tail(calls), q \o said)
      BY <2>4, <3>4, <3>5, OnlineSwitched, ZenonT(60)
    <3>. QED
      BY <3>1, <3>2, <3>3, <3>6
  <2>. QED
    BY <1>10, <2>1, <2>2, <2>5, <2>6, <2>7
<1>15. ~(patient' = FALSE)
  BY <1>6 DEF Obedient
<1>. QED
  BY <1>5, <1>11, <1>13, <1>14, <1>15 DEF Handles

(* Every step.                                                             *)
LEMMA PatientStep ==
  ASSUME PInv, HistoryOK, PatientInv, [PowerNext]_powerVars
  PROVE  PatientInv'
<1>1. CASE power_set_refused \/ airplane_mode_not_stored \/ CallCancelled \/ UNCHANGED powerVars
  <2>1. UNCHANGED <<od, sim, mdm, radio, toModem, news, expected, overruled, patient>>
    BY <1>1 DEF power_set_refused, airplane_mode_not_stored, CallCancelled, powerVars, copies, bus,
                history
  <2>. QED
    BY <2>1, SlotsStay
<1>2. CASE power_set
  BY <1>2, PowerSetHeeds
<1>3. CASE airplane_mode_set
  BY <1>3, AirplaneSetHeeds
<1>4. CASE set_online_cb
  BY <1>4, OnlineRepliedHeeds
<1>5. CASE set_powered_cb
  BY <1>5, PoweredRepliedHeeds
<1>6. CASE online_changed
  BY <1>6, OnlineToldHeeds
<1>7. CASE powered_arrives
  BY <1>7, PowerToldHeeds
<1>8. CASE SlotsCome
  BY <1>8, SlotsComeHeed
<1>9. CASE OfonoExits \/ DaemonDies
  BY <1>9, DeathHeeds
<1>10. CASE OfonoHandles
  BY <1>10, OfonoHandlesHeeds
<1>11. CASE RadioPowers
  BY <1>11, ModemPowersHeeds
<1>12. CASE RadioLosesPower
  BY <1>12, ModemLosesPowerHeeds
<1>. QED
  BY <1>1, <1>2, <1>3, <1>4, <1>5, <1>6, <1>7, <1>8, <1>9, <1>10, <1>11, <1>12
     DEF PowerNext, Requests, Handlers

(* For a user who waits, and an ofono that does not fail, the radio of     *)
(* each slot ends up off in airplane mode and else as powerSet last asked, *)
(* as long as the settings were gone back to only where they say what was  *)
(* asked.                                                                  *)
THEOREM PatientUserIsObeyed == PowerSpec => []PatientIsObeyed
<1>1. PowerInit => PatientInv
  <2>1. ASSUME PowerInit, NEW s \in Slot
        PROVE  Attentive(od[s], sim[s], mdm[s], radio[s], expected[s], toModem[s], news[s])
    <3>1. sim[s] = NoSim /\ toModem[s] = <<>> /\ news[s] = <<>>
      BY <2>1 DEF PowerInit
    <3>. QED
      BY <3>1, GoneHeeds
  <2>. QED
    BY <2>1 DEF PatientInv, SlotsHeed
<1>2. PInv /\ HistoryOK /\ PatientInv /\ [PowerNext]_powerVars => PatientInv'
  BY PatientStep
<1>3. PInv /\ HistoryOK /\ PatientInv => PatientIsObeyed
  <2>1. SUFFICES ASSUME PInv, HistoryOK, PatientInv, Obedient, Still, NEW s \in Slot,
                        sim[s].initialized
                 PROVE  radio[s].online = expected[s]
    BY DEF PatientIsObeyed, Obedient
  <2>2. /\ SlotOK(od[s], sim[s], <<>>, <<>>)
        /\ Attentive(od[s], sim[s], mdm[s], radio[s], expected[s], <<>>, <<>>)
        /\ mdm[s] \in ObjRecord /\ radio[s] \in ModemStates
    BY <2>1, QuietSlots
  <2>3. sim[s].there
    BY <2>1, <2>2 DEF SlotOK
  <2>4. sim[s].initialized => radio[s].online = expected[s]
    BY <2>2, <2>3, QuietSlot
  <2>. QED
    BY <2>1, <2>4
<1>. QED
  BY <1>1, <1>2, <1>3, DueAnswersAreCounted, HistoryIsTyped, PTL DEF PowerSpec
=============================================================================
