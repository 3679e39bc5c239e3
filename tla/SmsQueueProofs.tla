--------------------------- MODULE SmsQueueProofs ---------------------------
(***************************************************************************)
(* Proofs about SmsQueue, for any number of messages, recipients, slots,   *)
(* restarts and lost slots, with a bus on which calls go out.              *)
(***************************************************************************)
EXTENDS SmsQueue, FiniteSetTheorems, TLAPS

-----------------------------------------------------------------------------
(***************************************************************************)
(* What is in a queue, and in which order: one of K; none of L behind any  *)
(* of K.                                                                   *)
(***************************************************************************)
Occurs(q, K)         == \E i \in 1..Len(q) : q[i] \in K
NotFollowed(q, K, L) == \A i, j \in 1..Len(q) : q[i] \in K /\ i < j => q[j] \notin L

(* The first is taken.                                                     *)
LEMMA Tails ==
  ASSUME NEW S, NEW q \in Seq(S), q # <<>>
  PROVE  /\ Head(q) \in S /\ Tail(q) \in Seq(S)
         /\ \A K : Occurs(q, K) <=> Head(q) \in K \/ Occurs(Tail(q), K)
         /\ \A K, L : NotFollowed(q, K, L) <=> /\ Head(q) \in K => ~Occurs(Tail(q), L)
                                               /\ NotFollowed(Tail(q), K, L)
<1>. DEFINE p == Tail(q)
<1>1. /\ Head(q) \in S /\ p \in Seq(S) /\ Len(q) \in Nat \ {0} /\ Len(p) = Len(q) - 1
      /\ Head(q) = q[1] /\ \A i \in 1..Len(p) : p[i] = q[i + 1]
  OBVIOUS
<1>2. \A i \in 1..Len(q) : i = 1 \/ (i - 1 \in 1..Len(p) /\ p[i - 1] = q[i])
  BY <1>1
<1>3. \A i \in 1..Len(p) : i + 1 \in 1..Len(q)
  BY <1>1
<1>4. 1 \in 1..Len(q)
  BY <1>1
<1>. HIDE DEF p
<1>5. ASSUME NEW K
      PROVE  Occurs(q, K) <=> Head(q) \in K \/ Occurs(p, K)
  BY <1>1, <1>2, <1>3, <1>4 DEF Occurs
<1>6. ASSUME NEW K, NEW L
      PROVE  NotFollowed(q, K, L) <=> (Head(q) \in K => ~Occurs(p, L)) /\ NotFollowed(p, K, L)
  <2>1. ASSUME NotFollowed(q, K, L)
        PROVE  (Head(q) \in K => ~Occurs(p, L)) /\ NotFollowed(p, K, L)
    <3>1. ASSUME Head(q) \in K, NEW j \in 1..Len(p)
          PROVE  p[j] \notin L
      BY <1>1, <1>3, <1>4, <2>1, <3>1 DEF NotFollowed
    <3>2. ASSUME NEW i \in 1..Len(p), NEW j \in 1..Len(p), p[i] \in K, i < j
          PROVE  p[j] \notin L
      <4>1. i + 1 \in 1..Len(q) /\ j + 1 \in 1..Len(q) /\ i + 1 < j + 1
        BY <1>1, <3>2
      <4>2. p[i] = q[i + 1] /\ p[j] = q[j + 1]
        BY <1>1, <3>2
      <4>. QED
        BY <2>1, <3>2, <4>1, <4>2 DEF NotFollowed
    <3>. QED
      BY <3>1, <3>2 DEF NotFollowed, Occurs
  <2>2. ASSUME Head(q) \in K => ~Occurs(p, L), NotFollowed(p, K, L),
               NEW i \in 1..Len(q), NEW j \in 1..Len(q), q[i] \in K, i < j
        PROVE  q[j] \notin L
    <3>1. j - 1 \in 1..Len(p) /\ p[j - 1] = q[j]
      BY <1>1, <1>2, <2>2
    <3>2. CASE i = 1
      BY <1>1, <2>2, <3>1, <3>2 DEF Occurs
    <3>3. CASE i # 1
      <4>1. i - 1 \in 1..Len(p) /\ p[i - 1] = q[i] /\ i - 1 < j - 1
        BY <1>1, <1>2, <2>2, <3>3
      <4>. QED
        BY <2>2, <3>1, <4>1 DEF NotFollowed
    <3>. QED
      BY <3>2, <3>3
  <2>. QED
    BY <2>1, <2>2 DEF NotFollowed
<1>. QED
  BY <1>1, <1>5, <1>6 DEF p

(* Some are added.                                                         *)
LEMMA Cats ==
  ASSUME NEW S, NEW q \in Seq(S), NEW m \in Seq(S)
  PROVE  /\ q \o m \in Seq(S)
         /\ \A K : Occurs(q \o m, K) <=> Occurs(q, K) \/ Occurs(m, K)
         /\ \A K, L : NotFollowed(q, K, L) /\ NotFollowed(m, K, L)
                        /\ ~(Occurs(q, K) /\ Occurs(m, L)) => NotFollowed(q \o m, K, L)
<1>. DEFINE p == q \o m
<1>1. /\ p \in Seq(S) /\ Len(q) \in Nat /\ Len(m) \in Nat /\ Len(p) = Len(q) + Len(m)
      /\ \A i \in 1..Len(q) : p[i] = q[i]
      /\ \A i \in 1..Len(m) : p[Len(q) + i] = m[i]
  OBVIOUS
<1>2. \A i \in 1..Len(q) : i \in 1..Len(p)
  BY <1>1
<1>3. \A i \in 1..Len(m) : Len(q) + i \in 1..Len(p)
  BY <1>1
<1>4. \A i \in 1..Len(p) : i \in 1..Len(q) \/ (i - Len(q) \in 1..Len(m) /\ p[i] = m[i - Len(q)])
  <2>1. ASSUME NEW i \in 1..Len(p), i \notin 1..Len(q)
        PROVE  i - Len(q) \in 1..Len(m) /\ p[i] = m[i - Len(q)]
    <3>1. i - Len(q) \in 1..Len(m) /\ Len(q) + (i - Len(q)) = i
      BY <1>1, <2>1
    <3>2. p[Len(q) + (i - Len(q))] = m[i - Len(q)]
      BY <1>1, <3>1
    <3>. QED
      BY <3>1, <3>2
  <2>. QED
    BY <2>1
<1>. HIDE DEF p
<1>5. ASSUME NEW K
      PROVE  Occurs(p, K) <=> Occurs(q, K) \/ Occurs(m, K)
  <2>1. ASSUME Occurs(p, K)
        PROVE  Occurs(q, K) \/ Occurs(m, K)
    BY <1>1, <1>4, <2>1 DEF Occurs
  <2>2. ASSUME Occurs(q, K)
        PROVE  Occurs(p, K)
    BY <1>1, <1>2, <2>2 DEF Occurs
  <2>3. ASSUME Occurs(m, K)
        PROVE  Occurs(p, K)
    BY <1>1, <1>3, <2>3 DEF Occurs
  <2>. QED
    BY <2>1, <2>2, <2>3
<1>6. ASSUME NEW K, NEW L, NotFollowed(q, K, L), NotFollowed(m, K, L),
             ~(Occurs(q, K) /\ Occurs(m, L)),
             NEW i \in 1..Len(p), NEW j \in 1..Len(p), p[i] \in K, i < j
      PROVE  p[j] \notin L
  <2>1. CASE i \in 1..Len(q) /\ j \in 1..Len(q)
    BY <1>1, <1>6, <2>1 DEF NotFollowed
  <2>2. CASE i \in 1..Len(q) /\ j \notin 1..Len(q)
    BY <1>1, <1>4, <1>6, <2>2 DEF Occurs
  <2>3. CASE i \notin 1..Len(q)
    <3>. DEFINE k == i - Len(q)
                n == j - Len(q)
    <3>1. k \in 1..Len(m) /\ p[i] = m[k]
      BY <1>4, <2>3
    <3>2. j \notin 1..Len(q)
      BY <1>1, <1>6, <2>3
    <3>3. n \in 1..Len(m) /\ p[j] = m[n]
      BY <1>4, <3>2
    <3>4. k < n
      BY <1>1, <1>6
    <3>. QED
      BY <1>6, <3>1, <3>3, <3>4 DEF NotFollowed
  <2>. QED
    BY <2>1, <2>2, <2>3
<1>. QED
  BY <1>1, <1>5, <1>6 DEF p, NotFollowed

(* None.                                                                   *)
LEMMA Nones ==
  /\ \A S : <<>> \in Seq(S)
  /\ \A K : ~Occurs(<<>>, K)
  /\ \A K, L : NotFollowed(<<>>, K, L)
BY DEF Occurs, NotFollowed

(* One.                                                                    *)
LEMMA Ones ==
  ASSUME NEW S, NEW x \in S
  PROVE  /\ <<x>> \in Seq(S)
         /\ \A K : Occurs(<<x>>, K) <=> x \in K
         /\ \A K, L : NotFollowed(<<x>>, K, L)
<1>1. <<x>> \in Seq(S) /\ Len(<<x>>) = 1 /\ <<x>>[1] = x
  OBVIOUS
<1>2. \A i \in 1..Len(<<x>>) : i = 1
  BY <1>1
<1>. QED
  BY <1>1, <1>2 DEF Occurs, NotFollowed

(* Nothing follows what is not there.                                      *)
LEMMA Absent ==
  ASSUME NEW q
  PROVE  \A K, L : ~Occurs(q, K) \/ ~Occurs(q, L) => NotFollowed(q, K, L)
BY DEF Occurs, NotFollowed

-----------------------------------------------------------------------------
(***************************************************************************)
(* The invariant.                                                          *)
(***************************************************************************)
MergesOf(m) == {c \in DbCall : c.op = "merge" /\ c.id = m}
MergeTo(m, status) == {c \in MergesOf(m) : c.status = status}
Asking == {Find}

(* The driver is busy exactly as long as the queue believes it.            *)
Busy == (sending # {} => tx_active) /\ \A c, d \in sending : c = d

(* At most one query waits for its answer, and what it will find or has    *)
(* found is not about to be changed by a merge behind it.                  *)
Queries ==
  /\ armed => ~Occurs(toDb, Asking) /\ found = <<>>
  /\ Occurs(toDb, Asking) => found = <<>>
  /\ NotFollowed(toDb, Asking, Asking)
  /\ Len(found) <= 1
  /\ \A m \in Message : db[m] = "pending" => NotFollowed(toDb, Asking, MergesOf(m))
  /\ ~Occurs(toDb, {c \in DbCall : c.op = "find" /\ c.id > crashes})
  /\ found # <<>> => \A m \in Head(found) : db[m] = "pending" /\ ~Occurs(toDb, MergesOf(m))

(* A message db8 will still give out as pending was never sent; one in the *)
(* queue is in it once and was never sent; one that is being sent has been *)
(* sent to as many as its countdown says.                                  *)
Unclaimed(m) == db[m] \in {"", "pending"} /\ ~Occurs(toDb, MergesOf(m))

Fresh(m) == sends[m] = 0 /\ delivered[m] = 0 /\ \A c \in sending : c.id # m

Placed(m) ==
  /\ Unclaimed(m) => Fresh(m) /\ ~Occurs(tx_queue, {m})
  /\ db[m] = "" => ~Occurs(toDb, MergesOf(m))
  /\ \A status \in {"", "pending"} : ~Occurs(toDb, MergeTo(m, status))
  /\ NotFollowed(tx_queue, {m}, {m})
  /\ Occurs(tx_queue, {m}) => /\ Fresh(m) /\ db[m] \in {"pending", "sending"}
                              /\ ~Occurs(toDb, MergeTo(m, "successful"))
                              /\ ~Occurs(toDb, MergeTo(m, "failed"))
  /\ \A c \in sending : c.id = m => /\ db[m] = "sending" /\ ~Occurs(toDb, MergesOf(m))
                                    /\ sends[m] + c.left = spec[m].to
                                    /\ delivered[m] + 1 = sends[m]
  /\ sends[m] <= spec[m].to

(* What the database says or is about to be told is so.                    *)
Truthful(m) ==
  /\ db[m] = "successful" \/ Occurs(toDb, MergeTo(m, "successful"))
       => spec[m].inhibit \/ delivered[m] = spec[m].to
  /\ db[m] = "failed" \/ Occurs(toDb, MergeTo(m, "failed"))
       => ~spec[m].valid \/ delivered[m] < spec[m].to

Ordered == Queries /\ \A m \in Message : Placed(m) /\ Truthful(m)
Orderly == ~db_late => Ordered

-----------------------------------------------------------------------------
(***************************************************************************)
(* The type invariant.                                                     *)
(***************************************************************************)
(* What db8 is told are calls of it.                                       *)
LEMMA MergesAreCalls ==
  ASSUME NEW m \in Message, NEW status \in Status
  PROVE  Merge(m, status) \in DbCall
BY SmsQueueAssumption DEF Merge, DbCall, Message

(* So is the query of the present daemon.                                  *)
LEMMA FindIsCall ==
  ASSUME SmsTypeOK
  PROVE  Find \in DbCall
<1>1. crashes \in Nat
  BY SmsQueueAssumption DEF SmsTypeOK
<1>. QED
  BY <1>1 DEF Find, DbCall, Status

(* The database is told of one message.                                    *)
LEMMA TellOneIsTyped ==
  ASSUME SmsTypeOK, NEW m \in Message, NEW status \in Status, NEW ok \in BOOLEAN,
         NEW active \in BOOLEAN, update_message_status(<<Merge(m, status)>>, active, ok)
  PROVE  toDb' \in Seq(DbCall) /\ tx_active' \in BOOLEAN
<1>1. PICK c \in DbCall : c = Merge(m, status)
  BY MergesAreCalls
<1>2. toDb \in Seq(DbCall) /\ toDb \o <<c>> \in Seq(DbCall)
  BY DEF SmsTypeOK
<1>3. toDb' \in Seq(DbCall)
  BY <1>1, <1>2 DEF update_message_status
<1>4. tx_active' \in BOOLEAN
  BY DEF update_message_status
<1>. QED
  BY <1>3, <1>4

(* A send_sms call the driver has.                                         *)
SendCall == [id: Message, left: 0..(MaxTo - 1), at: {"call", "watch", "lost"}]

(* The bounds are numbers.                                                 *)
LEMMA Bounds ==
  /\ MaxMessages \in Nat \ {0} /\ MaxTo \in Nat \ {0} /\ MaxSims \in Nat \ {0}
  /\ MaxOut \in Nat \ {0} /\ MaxComings \in Nat /\ MaxCrashes \in Nat
BY SmsQueueAssumption

(* A recipient's message goes to the driver.                               *)
LEMMA ProcessIsTyped ==
  ASSUME SmsTypeOK, NEW m \in Message, NEW left \in 1..MaxTo, NEW others, others \subseteq SendCall,
         process_message(m, left, others)
  PROVE  /\ sending' \subseteq SendCall /\ sends' \in [Message -> Nat]
         /\ toDb' \in Seq(DbCall) /\ tx_active' \in BOOLEAN
<1>1. CASE /\ ofono_send_sms(m, left - 1, others)
           /\ sends' = [sends EXCEPT ![m] = @ + 1]
           /\ tx_active' = TRUE
           /\ UNCHANGED toDb
  <2>1. SendMessage(m, left - 1) \in SendCall
    BY Bounds DEF SendMessage, SendCall
  <2>2. sending' \subseteq SendCall
    BY <1>1, <2>1 DEF ofono_send_sms
  <2>. QED
    BY <1>1, <2>2 DEF SmsTypeOK
<1>2. CASE /\ sending' = others
           /\ \E ok \in BusWorks : update_message_status(<<Merge(m, "failed")>>, FALSE, ok)
           /\ UNCHANGED sends
  <2>1. PICK ok \in BOOLEAN : update_message_status(<<Merge(m, "failed")>>, FALSE, ok)
    BY <1>2 DEF BusWorks
  <2>2. toDb' \in Seq(DbCall) /\ tx_active' \in BOOLEAN
    BY <2>1, TellOneIsTyped DEF Status
  <2>. QED
    BY <1>2, <2>2 DEF SmsTypeOK
<1>. QED
  BY <1>1, <1>2 DEF process_message

(* The driver's report.                                                    *)
LEMMA ReportIsTyped ==
  ASSUME SmsTypeOK, NEW c \in sending, NEW success \in BOOLEAN, send_msg_cb(c, success)
  PROVE  /\ sending' \subseteq SendCall /\ sends' \in [Message -> Nat]
         /\ delivered' \in [Message -> Nat]
         /\ toDb' \in Seq(DbCall) /\ tx_active' \in BOOLEAN
<1>1. sending \subseteq SendCall /\ c \in SendCall
  BY DEF SmsTypeOK, SendCall
<1>2. c.id \in Message /\ c.left \in 0..(MaxTo - 1)
  BY <1>1 DEF SendCall
<1>3. delivered' \in [Message -> Nat]
  BY DEF send_msg_cb, SmsTypeOK
<1>4. CASE success /\ c.left > 0
  <2>1. process_message(c.id, c.left, sending \ {c})
    BY <1>4 DEF send_msg_cb
  <2>2. c.left \in 1..MaxTo /\ sending \ {c} \subseteq SendCall
    BY <1>1, <1>2, <1>4, Bounds
  <2>. QED
    BY <1>2, <1>3, <2>1, <2>2, ProcessIsTyped
<1>5. CASE ~(success /\ c.left > 0)
  <2>1. PICK ok \in BOOLEAN :
          update_message_status(<<Merge(c.id, IF success THEN "successful" ELSE "failed")>>, FALSE, ok)
    BY <1>5 DEF send_msg_cb, BusWorks
  <2>2. PICK status \in Status : status = IF success THEN "successful" ELSE "failed"
    BY DEF Status
  <2>3. update_message_status(<<Merge(c.id, status)>>, FALSE, ok)
    BY <2>1, <2>2
  <2>4. toDb' \in Seq(DbCall) /\ tx_active' \in BOOLEAN
    BY <1>2, <2>3, TellOneIsTyped
  <2>5. sending' = sending \ {c} /\ UNCHANGED sends
    BY <1>5 DEF send_msg_cb
  <2>. QED
    BY <1>1, <1>3, <2>4, <2>5 DEF SmsTypeOK
<1>. QED
  BY <1>4, <1>5

(* What a query's answer is made of.                                       *)
LEMMA OrderIsTyped ==
  ASSUME NEW T \in SUBSET Message, NEW q \in InOrder(T)
  PROVE  /\ q \in Seq(Message)
         /\ \A m : Occurs(q, {m}) <=> m \in T
         /\ \A m : NotFollowed(q, {m}, {m})
<1>1. IsFiniteSet(Message)
  BY Bounds, FS_Interval DEF Message
<1>2. Cardinality(T) \in Nat
  BY <1>1, FS_Subset, FS_CardinalityType
<1>3. /\ q \in [1..Cardinality(T) -> T] /\ DOMAIN q = 1..Cardinality(T)
      /\ \A i, j \in DOMAIN q : i < j => q[i] < q[j]
      /\ \A m \in T : \E i \in DOMAIN q : q[i] = m
  BY DEF InOrder
<1>4. q \in Seq(Message) /\ Len(q) = Cardinality(T)
  BY <1>2, <1>3
<1>5. \A i \in 1..Len(q) : q[i] \in T /\ q[i] \in Int
  <2>1. \A m \in T : m \in Int
    BY Bounds DEF Message
  <2>2. \A i \in 1..Len(q) : q[i] \in T
    BY <1>3, <1>4
  <2>. QED
    BY <2>1, <2>2
<1>6. \A m : Occurs(q, {m}) <=> m \in T
  BY <1>3, <1>4, <1>5 DEF Occurs
<1>7. ASSUME NEW m, NEW i \in 1..Len(q), NEW j \in 1..Len(q), q[i] = m, i < j
      PROVE  q[j] # m
  BY <1>3, <1>4, <1>5, <1>7
<1>. QED
  BY <1>4, <1>6, <1>7 DEF NotFollowed

(* What the database is told of the messages that were found.              *)
LEMMA QueuedAreCalls ==
  ASSUME NEW T \in SUBSET Message, NEW q \in InOrder(T)
  PROVE  [i \in DOMAIN q |-> Queued(q[i])] \in Seq(DbCall)
<1>. DEFINE p == [i \in DOMAIN q |-> Queued(q[i])]
<1>1. q \in Seq(Message)
  BY OrderIsTyped
<1>2. \A m \in Message : Queued(m) \in DbCall
  BY MergesAreCalls DEF Queued, Status
<1>. QED
  BY <1>1, <1>2

(* db8's answer.                                                           *)
LEMMA AnswerIsTyped ==
  ASSUME SmsTypeOK, query_pending_messages_cb
  PROVE  SmsTypeOK'
<1>1. /\ found # <<>> /\ found' = Tail(found)
      /\ UNCHANGED <<sending, db, spec, armed, slot, sends, delivered, comings, crashes, db_late>>
  BY DEF query_pending_messages_cb
<1>2. Head(found) \in SUBSET Message /\ found' \in Seq(SUBSET Message)
  BY <1>1 DEF SmsTypeOK
<1>3. CASE UNCHANGED <<tx_queue, tx_timeout, tx_active, toDb>>
  BY <1>1, <1>2, <1>3 DEF SmsTypeOK
<1>4. CASE /\ \E all \in InOrder(Head(found)), ok \in BusWorks :
                update_message_status([i \in DOMAIN all |-> Queued(all[i])], tx_active, ok)
           /\ \E good \in InOrder(Valid(Head(found))) : tx_queue' = tx_queue \o good
           /\ tx_timeout' = IF tx_timeout = "none" THEN "poll" ELSE tx_timeout
  <2>1. PICK all \in InOrder(Head(found)), ok \in BusWorks :
          update_message_status([i \in DOMAIN all |-> Queued(all[i])], tx_active, ok)
    BY <1>4
  <2>2. PICK merges \in Seq(DbCall) : update_message_status(merges, tx_active, ok)
    BY <1>2, <2>1, QueuedAreCalls
  <2>3. PICK good \in InOrder(Valid(Head(found))) : tx_queue' = tx_queue \o good
    BY <1>4
  <2>4. good \in Seq(Message)
    BY <1>2, OrderIsTyped DEF Valid
  <2>5. toDb' \in Seq(DbCall) /\ tx_active' \in BOOLEAN
    BY <2>2 DEF update_message_status, SmsTypeOK
  <2>6. tx_queue' \in Seq(Message)
    BY <2>3, <2>4 DEF SmsTypeOK
  <2>. QED
    BY <1>1, <1>2, <1>4, <2>5, <2>6 DEF SmsTypeOK
<1>. QED
  BY <1>3, <1>4 DEF query_pending_messages_cb

(* The driver's answers and the states of a message.                       *)
LEMMA DriverIsTyped ==
  ASSUME SmsTypeOK, send_sms_cb \/ message_status_cb
  PROVE  SmsTypeOK'
<1>1. UNCHANGED <<tx_queue, tx_timeout, db, spec, found, armed, slot, comings, crashes>>
  BY DEF send_sms_cb, message_status_cb
<1>2. PICK c \in sending :
        \/ \E success \in BOOLEAN : send_msg_cb(c, success)
        \/ \E at \in {"watch", "lost"} :
             /\ sending' = (sending \ {c}) \cup {[c EXCEPT !.at = at]}
             /\ UNCHANGED <<tx_active, toDb, sends, delivered>>
  BY DEF send_sms_cb, message_status_cb, update_property, ofono_message_watch_create
<1>3. CASE \E success \in BOOLEAN : send_msg_cb(c, success)
  <2>1. /\ sending' \subseteq SendCall /\ sends' \in [Message -> Nat]
        /\ delivered' \in [Message -> Nat]
        /\ toDb' \in Seq(DbCall) /\ tx_active' \in BOOLEAN
    BY <1>3, ReportIsTyped
  <2>. QED
    BY <1>1, <2>1 DEF SmsTypeOK, SendCall
<1>4. ASSUME NEW at \in {"watch", "lost"},
             sending' = (sending \ {c}) \cup {[c EXCEPT !.at = at]},
             UNCHANGED <<tx_active, toDb, sends, delivered>>
      PROVE  SmsTypeOK'
  <2>1. c \in SendCall /\ sending \subseteq SendCall
    BY DEF SmsTypeOK, SendCall
  <2>2. [c EXCEPT !.at = at] \in SendCall
    BY <2>1, <1>4 DEF SendCall
  <2>3. sending' \subseteq SendCall
    BY <1>4, <2>1, <2>2
  <2>. QED
    BY <1>1, <1>4, <2>3 DEF SmsTypeOK, SendCall
<1>. QED
  BY <1>2, <1>3, <1>4

(* The timer sends the next message.                                       *)
LEMMA SendIsTyped ==
  ASSUME SmsTypeOK, tx_send
  PROVE  SmsTypeOK'
<1>1. /\ tx_queue # <<>> /\ tx_queue' = Tail(tx_queue)
      /\ UNCHANGED <<tx_timeout, db, spec, found, armed, slot, delivered, comings, crashes>>
  BY DEF tx_send
<1>2. PICK m \in Message : m = Head(tx_queue)
  BY <1>1 DEF SmsTypeOK
<1>3. tx_queue' \in Seq(Message)
  BY <1>1 DEF SmsTypeOK
<1>4. spec[m].to \in 1..MaxTo
  BY DEF SmsTypeOK, Outgoing
<1>5. sending \subseteq SendCall
  BY DEF SmsTypeOK, SendCall
<1>6. CASE spec[m].inhibit
  <2>1. PICK ok \in BOOLEAN : update_message_status(<<Merge(m, "successful")>>, FALSE, ok)
    BY <1>2, <1>6 DEF tx_send, BusWorks
  <2>2. toDb' \in Seq(DbCall) /\ tx_active' \in BOOLEAN
    BY <2>1, TellOneIsTyped DEF Status
  <2>3. UNCHANGED <<sending, sends>>
    BY <1>2, <1>6 DEF tx_send
  <2>. QED
    BY <1>1, <1>3, <2>2, <2>3 DEF SmsTypeOK
<1>7. CASE ~spec[m].inhibit
  <2>1. process_message(m, spec[m].to, sending)
    BY <1>2, <1>7 DEF tx_send
  <2>2. /\ sending' \subseteq SendCall /\ sends' \in [Message -> Nat]
        /\ toDb' \in Seq(DbCall) /\ tx_active' \in BOOLEAN
    BY <1>4, <1>5, <2>1, ProcessIsTyped
  <2>. QED
    BY <1>1, <1>3, <2>2 DEF SmsTypeOK, SendCall
<1>. QED
  BY <1>6, <1>7

(* The steps of db8, and of the activity that asks it.                     *)
LEMMA DbIsTyped ==
  ASSUME SmsTypeOK, DbHandles \/ send_sms_from_db
  PROVE  SmsTypeOK'
<1>1. CASE DbHandles
  <2>1. PICK c \in DbCall : c = Head(toDb)
    BY <1>1 DEF DbHandles, SmsTypeOK
  <2>2. toDb' \in Seq(DbCall)
    BY <1>1 DEF DbHandles, SmsTypeOK
  <2>3. CASE c.op = "find"
    <3>1. /\ found' \in {found, Append(found, {m \in Message : db[m] = "pending"})}
          /\ UNCHANGED db
      BY <1>1, <2>1, <2>3 DEF DbHandles
    <3>2. found' \in Seq(SUBSET Message)
      <4>1. PICK T \in SUBSET Message : T = {m \in Message : db[m] = "pending"}
        OBVIOUS
      <4>2. found \in Seq(SUBSET Message)
        BY DEF SmsTypeOK
      <4>3. Append(found, T) \in Seq(SUBSET Message)
        BY <4>2
      <4>. QED
        BY <3>1, <4>1, <4>2, <4>3
    <3>. QED
      BY <1>1, <2>2, <3>1, <3>2 DEF DbHandles, SmsTypeOK, outboxVars
  <2>4. CASE c.op # "find"
    <3>1. UNCHANGED found /\ db' \in {db, [db EXCEPT ![c.id] = c.status]}
      BY <1>1, <2>1, <2>4 DEF DbHandles
    <3>2. c.status \in Status
      BY DEF DbCall
    <3>3. db' \in [Message -> Status]
      BY <3>1, <3>2 DEF SmsTypeOK
    <3>. QED
      BY <1>1, <2>2, <3>1, <3>3 DEF DbHandles, SmsTypeOK, outboxVars
  <2>. QED
    BY <2>3, <2>4
<1>2. CASE send_sms_from_db
  <2>1. PICK c \in DbCall : c = Find
    BY FindIsCall
  <2>2. toDb' = Append(toDb, c) \/ toDb' = toDb
    BY <1>2, <2>1 DEF send_sms_from_db
  <2>3. toDb' \in Seq(DbCall)
    <3>1. toDb \in Seq(DbCall)
      BY DEF SmsTypeOK
    <3>2. Append(toDb, c) \in Seq(DbCall)
      BY <3>1
    <3>. QED
      BY <2>2, <3>1, <3>2
  <2>. QED
    BY <1>2, <2>3 DEF send_sms_from_db, SmsTypeOK, outboxVars
<1>. QED
  BY <1>1, <1>2

(* The other steps.                                                        *)
LEMMA OthersAreTyped ==
  ASSUME SmsTypeOK,
         \/ tx_wait \/ tx_empty \/ tx_not_ready \/ restart_tx_queue_cb
         \/ Write \/ SlotComesUp \/ SlotGoesDown \/ Crash
  PROVE  SmsTypeOK'
<1>1. CASE tx_wait
  BY <1>1 DEF tx_wait, outboxVars, SmsTypeOK
<1>2. CASE tx_empty \/ tx_not_ready
  <2>1. armed' \in BOOLEAN /\ tx_timeout' \in {"none", "restart"}
    BY <1>2 DEF tx_empty, tx_not_ready, restart_activity, SmsTypeOK
  <2>. QED
    BY <1>2, <2>1 DEF tx_empty, tx_not_ready, SmsTypeOK
<1>3. CASE restart_tx_queue_cb
  BY <1>3 DEF restart_tx_queue_cb, SmsTypeOK
<1>4. CASE Write
  <2>1. PICK m \in Message, o \in Outgoing :
          db' = [db EXCEPT ![m] = "pending"] /\ spec' = [spec EXCEPT ![m] = o]
    BY <1>4 DEF Write
  <2>2. db' \in [Message -> Status] /\ spec' \in [Message -> Outgoing]
    BY <2>1 DEF SmsTypeOK, Status
  <2>. QED
    BY <1>4, <2>2 DEF Write, outboxVars, SmsTypeOK
<1>5. CASE SlotComesUp
  BY <1>5 DEF SlotComesUp, outboxVars, SmsTypeOK
<1>6. CASE SlotGoesDown
  <2>1. comings' \in 0..MaxComings
    BY <1>6, Bounds DEF SlotGoesDown, SmsTypeOK
  <2>2. slot' \in [Sim -> {"gone", "there", "initialized"}]
    BY <1>6 DEF SlotGoesDown, SmsTypeOK
  <2>. QED
    BY <1>6, <2>1, <2>2 DEF SlotGoesDown, outboxVars, SmsTypeOK
<1>7. CASE Crash
  <2>1. crashes' \in 0..MaxCrashes
    BY <1>7, Bounds DEF Crash, SmsTypeOK
  <2>2. armed' \in BOOLEAN
    BY <1>7 DEF Crash, restart_activity, SmsTypeOK
  <2>3. /\ tx_queue' = <<>> /\ tx_timeout' = "none" /\ tx_active' = FALSE /\ sending' = {}
        /\ found' = <<>> /\ UNCHANGED <<toDb, db, spec, slot, sends, delivered, comings>>
    BY <1>7 DEF Crash
  <2>4. tx_queue' \in Seq(Message) /\ found' \in Seq(SUBSET Message)
    BY <2>3
  <2>. QED
    BY <2>1, <2>2, <2>3, <2>4 DEF SmsTypeOK
<1>. QED
  BY <1>1, <1>2, <1>3, <1>4, <1>5, <1>6, <1>7

(* It holds at the start.                                                  *)
LEMMA InitIsTyped == SmsInit => SmsTypeOK
<1>. SUFFICES ASSUME SmsInit PROVE SmsTypeOK
  OBVIOUS
<1>1. spec \in [Message -> Outgoing]
  <2>1. [to |-> 1, sim |-> -1, inhibit |-> FALSE, valid |-> TRUE] \in Outgoing
    BY Bounds DEF Outgoing
  <2>. QED
    BY <2>1 DEF SmsInit
<1>2. comings \in 0..MaxComings /\ crashes \in 0..MaxCrashes
  <2>1. comings = 0 /\ crashes = 0
    BY DEF SmsInit
  <2>. QED
    BY <2>1, Bounds
<1>3. sends \in [Message -> Nat] /\ delivered \in [Message -> Nat]
  BY DEF SmsInit
<1>4. tx_queue \in Seq(Message) /\ toDb \in Seq(DbCall) /\ found \in Seq(SUBSET Message)
  <2>1. tx_queue = <<>> /\ toDb = <<>> /\ found = <<>>
    BY DEF SmsInit
  <2>. QED
    BY <2>1
<1>. QED
  BY <1>1, <1>2, <1>3, <1>4 DEF SmsInit, SmsTypeOK, Status

(* Every step keeps the types.                                             *)
LEMMA TypeStep == SmsTypeOK /\ [SmsNext]_smsVars => SmsTypeOK'
<1>. SUFFICES ASSUME SmsTypeOK, [SmsNext]_smsVars PROVE SmsTypeOK'
  OBVIOUS
<1>1. CASE UNCHANGED smsVars
  BY <1>1 DEF smsVars, outboxVars, SmsTypeOK
<1>2. CASE SmsNext
  BY <1>2, AnswerIsTyped, DriverIsTyped, SendIsTyped, DbIsTyped, OthersAreTyped DEF SmsNext, Daemon
<1>. QED
  BY <1>1, <1>2

(* Whatever the queue, the database, the driver and the slots do, every    *)
(* variable of the outgoing messages keeps its type.                       *)
THEOREM OutboxIsWellTyped == SmsSpec => []SmsTypeOK
<1>. QED
  BY InitIsTyped, TypeStep, PTL DEF SmsSpec

-----------------------------------------------------------------------------
(***************************************************************************)
(* One message at a time.                                                  *)
(***************************************************************************)
(* The database is told what there is to tell.                             *)
LEMMA Told ==
  ASSUME ~BusFaults, NEW ok \in BusWorks, NEW merges, NEW active \in BOOLEAN,
         update_message_status(merges, active, ok)
  PROVE  toDb' = toDb \o merges /\ tx_active' = active
<1>1. ok = TRUE
  BY DEF BusWorks
<1>. QED
  BY <1>1 DEF update_message_status

(* The message goes to the driver, or the database is told that it failed. *)
LEMMA Processed ==
  ASSUME ~BusFaults, NEW m, NEW left, process_message(m, left, {})
  PROVE  \/ /\ sending' = {SendMessage(m, left - 1)}
            /\ sends' = [sends EXCEPT ![m] = @ + 1]
            /\ tx_active' = TRUE /\ toDb' = toDb
         \/ /\ sending' = {} /\ sends' = sends
            /\ tx_active' = FALSE /\ toDb' = toDb \o <<Merge(m, "failed")>>
<1>1. CASE ofono_send_sms(m, left - 1, {}) /\ sends' = [sends EXCEPT ![m] = @ + 1]
             /\ tx_active' = TRUE /\ UNCHANGED toDb
  BY <1>1 DEF ofono_send_sms
<1>2. CASE /\ sending' = {}
           /\ \E ok \in BusWorks : update_message_status(<<Merge(m, "failed")>>, FALSE, ok)
           /\ UNCHANGED sends
  BY <1>2, Told
<1>. QED
  BY <1>1, <1>2 DEF process_message

(* What the driver's report does.                                          *)
LEMMA Reported ==
  ASSUME ~BusFaults, Busy, NEW c \in sending, NEW success \in BOOLEAN, send_msg_cb(c, success)
  PROVE  /\ delivered' = [delivered EXCEPT ![c.id] = @ + (IF success THEN 1 ELSE 0)]
         /\ \/ /\ success /\ c.left > 0
               /\ sending' = {SendMessage(c.id, c.left - 1)}
               /\ sends' = [sends EXCEPT ![c.id] = @ + 1]
               /\ tx_active' = TRUE /\ toDb' = toDb
            \/ /\ sending' = {} /\ sends' = sends /\ tx_active' = FALSE
               /\ \/ ~success \/ c.left > 0
                  \/ toDb' = toDb \o <<Merge(c.id, "successful")>>
               /\ \/ success /\ ~(c.left > 0)
                  \/ toDb' = toDb \o <<Merge(c.id, "failed")>>
<1>1. sending \ {c} = {}
  BY DEF Busy
<1>2. CASE success /\ c.left > 0
  <2>1. process_message(c.id, c.left, {})
    BY <1>1, <1>2 DEF send_msg_cb
  <2>. QED
    BY <1>2, <2>1, Processed DEF send_msg_cb
<1>3. CASE ~(success /\ c.left > 0)
  <2>1. PICK ok \in BusWorks :
          update_message_status(<<Merge(c.id, IF success THEN "successful" ELSE "failed")>>, FALSE, ok)
    BY <1>3 DEF send_msg_cb
  <2>2. /\ toDb' = toDb \o <<Merge(c.id, IF success THEN "successful" ELSE "failed")>>
        /\ tx_active' = FALSE
    BY <2>1, Told
  <2>3. sending' = {} /\ sends' = sends
    BY <1>1, <1>3 DEF send_msg_cb
  <2>. QED
    BY <1>3, <2>2, <2>3 DEF send_msg_cb
<1>. QED
  BY <1>2, <1>3

(* The watch of a message that is under way.                               *)
LEMMA Watched ==
  ASSUME ~BusFaults, SmsTypeOK, Busy, send_sms_cb \/ message_status_cb
  PROVE  /\ UNCHANGED <<tx_queue, tx_timeout, db, spec, found, armed, slot, comings, crashes, db_late>>
         /\ \E c \in sending :
              \/ \E success \in BOOLEAN : send_msg_cb(c, success)
              \/ \E d : /\ sending' = {d} /\ d.id = c.id /\ d.left = c.left
                        /\ UNCHANGED <<tx_active, toDb, sends, delivered>>
<1>1. UNCHANGED <<tx_queue, tx_timeout, db, spec, found, armed, slot, comings, crashes, db_late>>
  BY DEF send_sms_cb, message_status_cb
<1>2. PICK c \in sending :
        \/ \E success \in BOOLEAN : send_msg_cb(c, success)
        \/ \E at \in {"watch", "lost"} :
             /\ sending' = (sending \ {c}) \cup {[c EXCEPT !.at = at]}
             /\ UNCHANGED <<tx_active, toDb, sends, delivered>>
  BY DEF send_sms_cb, message_status_cb, update_property, ofono_message_watch_create
<1>3. c \in SendCall /\ sending \ {c} = {}
  BY DEF SmsTypeOK, SendCall, Busy
<1>4. ASSUME NEW at \in {"watch", "lost"},
             sending' = (sending \ {c}) \cup {[c EXCEPT !.at = at]}
      PROVE  \E d : sending' = {d} /\ d.id = c.id /\ d.left = c.left
  <2>1. PICK d : d = [c EXCEPT !.at = at]
    OBVIOUS
  <2>2. d.id = c.id /\ d.left = c.left
    BY <1>3, <2>1 DEF SendCall
  <2>. QED
    BY <1>3, <1>4, <2>1, <2>2
<1>. QED
  BY <1>1, <1>2, <1>4

(* What sends the next message does.                                       *)
LEMMA Started ==
  ASSUME ~BusFaults, SmsTypeOK, Busy, tx_send
  PROVE  \E m \in Message :
           /\ tx_queue # <<>> /\ m = Head(tx_queue) /\ tx_queue' = Tail(tx_queue)
           /\ sending = {}
           /\ UNCHANGED <<tx_timeout, db, spec, found, armed, slot, delivered, comings, crashes>>
           /\ TimerFires
           /\ \/ /\ spec[m].inhibit /\ sending' = {} /\ sends' = sends /\ tx_active' = FALSE
                 /\ toDb' = toDb \o <<Merge(m, "successful")>>
              \/ /\ sending' = {SendMessage(m, spec[m].to - 1)}
                 /\ sends' = [sends EXCEPT ![m] = @ + 1]
                 /\ tx_active' = TRUE /\ toDb' = toDb
              \/ /\ sending' = {} /\ sends' = sends
                 /\ tx_active' = FALSE /\ toDb' = toDb \o <<Merge(m, "failed")>>
<1>1. PICK m \in Message : m = Head(tx_queue)
  BY DEF tx_send, SmsTypeOK
<1>2. /\ tx_queue # <<>> /\ tx_queue' = Tail(tx_queue)
      /\ UNCHANGED <<tx_timeout, db, spec, found, armed, slot, delivered, comings, crashes>>
      /\ TimerFires
  BY DEF tx_send, Polls
<1>3. sending = {}
  BY DEF tx_send, Busy
<1>4. CASE spec[m].inhibit
  <2>1. PICK ok \in BusWorks : update_message_status(<<Merge(m, "successful")>>, FALSE, ok)
    BY <1>1, <1>4 DEF tx_send
  <2>2. UNCHANGED <<sending, sends>>
    BY <1>1, <1>4 DEF tx_send
  <2>3. toDb' = toDb \o <<Merge(m, "successful")>> /\ tx_active' = FALSE
    BY <2>1, Told
  <2>. QED
    BY <1>1, <1>2, <1>3, <1>4, <2>2, <2>3
<1>5. CASE ~spec[m].inhibit
  <2>1. process_message(m, spec[m].to, {})
    BY <1>1, <1>3, <1>5 DEF tx_send
  <2>. QED
    BY <1>1, <1>2, <1>3, <2>1, Processed
<1>. QED
  BY <1>4, <1>5

(* What the answer to a query does.                                        *)
LEMMA Answered ==
  ASSUME ~BusFaults, SmsTypeOK, query_pending_messages_cb
  PROVE  /\ found # <<>> /\ found' = Tail(found)
         /\ UNCHANGED <<tx_active, sending, db, spec, armed, slot, sends, delivered, comings,
                        crashes, db_late>>
         /\ \E all \in InOrder(Head(found)) :
              toDb' = toDb \o [i \in DOMAIN all |-> Queued(all[i])]
         /\ \E good \in InOrder(Valid(Head(found))) : tx_queue' = tx_queue \o good
<1>1. PICK all \in InOrder(Head(found)), ok \in BusWorks :
        update_message_status([i \in DOMAIN all |-> Queued(all[i])], tx_active, ok)
  BY DEF query_pending_messages_cb
<1>2. tx_active \in BOOLEAN
  BY DEF SmsTypeOK
<1>3. /\ toDb' = toDb \o [i \in DOMAIN all |-> Queued(all[i])]
      /\ tx_active' = tx_active
  BY <1>1, <1>2, Told
<1>. QED
  BY <1>3 DEF query_pending_messages_cb

(* Every step keeps the driver as busy as the queue believes it.           *)
LEMMA BusyStep ==
  ASSUME ~BusFaults, SmsTypeOK, Busy, [SmsNext]_smsVars
  PROVE  Busy'
<1>1. CASE UNCHANGED <<sending, tx_active>>
  BY <1>1 DEF Busy
<1>2. CASE query_pending_messages_cb
  BY <1>2, Answered DEF Busy
<1>3. CASE send_sms_cb \/ message_status_cb
  <2>1. PICK c \in sending :
          \/ \E success \in BOOLEAN : send_msg_cb(c, success)
          \/ \E d : sending' = {d} /\ UNCHANGED tx_active
    BY <1>3, Watched
  <2>2. CASE \E d : sending' = {d} /\ UNCHANGED tx_active
    BY <2>2 DEF Busy
  <2>3. CASE \E success \in BOOLEAN : send_msg_cb(c, success)
    <3>1. sending' = {} \/ (tx_active' = TRUE /\ sending' = {SendMessage(c.id, c.left - 1)})
      BY <2>3, Reported
    <3>. QED
      BY <3>1 DEF Busy
  <2>. QED
    BY <2>1, <2>2, <2>3
<1>4. CASE tx_send
  <2>1. sending' = {} \/ (tx_active' = TRUE /\ \E d : sending' = {d})
    BY <1>4, Started
  <2>. QED
    BY <2>1 DEF Busy
<1>5. CASE Crash
  BY <1>5 DEF Crash, Busy
<1>6. CASE \/ tx_wait \/ tx_empty \/ tx_not_ready \/ restart_tx_queue_cb \/ send_sms_from_db
           \/ DbHandles \/ Write \/ SlotComesUp \/ SlotGoesDown
  BY <1>1, <1>6 DEF tx_wait, tx_empty, tx_not_ready, restart_tx_queue_cb, send_sms_from_db,
     DbHandles, Write, SlotComesUp, SlotGoesDown, outboxVars
<1>7. CASE UNCHANGED smsVars
  BY <1>1, <1>7 DEF smsVars, outboxVars
<1>. QED
  BY <1>2, <1>3, <1>4, <1>5, <1>6, <1>7 DEF SmsNext, Daemon

(* "block others from sending at the same time": on a bus on which calls   *)
(* go out, the driver never has two send_sms calls, however long the queue,*)
(* and however often slots and the daemon go and come.                     *)
THEOREM DriverSendsOneAtATime == SmsSpec /\ ~BusFaults => []OneAtATime
<1>. SUFFICES ASSUME ~BusFaults
     PROVE  SmsSpec => []OneAtATime
  OBVIOUS
<1>1. SmsInit => Busy
  BY DEF SmsInit, Busy
<1>2. SmsTypeOK /\ Busy /\ [SmsNext]_smsVars => Busy'
  BY BusyStep
<1>3. Busy => OneAtATime
  <2>. SUFFICES ASSUME Busy PROVE OneAtATime
    OBVIOUS
  <2>1. sending = {} \/ \E c : sending = {c}
    BY DEF Busy
  <2>2. Cardinality(sending) = 0 \/ Cardinality(sending) = 1
    BY <2>1, FS_EmptySet, FS_Singleton
  <2>. QED
    BY <2>2 DEF OneAtATime
<1>. QED
  BY <1>1, <1>2, <1>3, OutboxIsWellTyped, PTL DEF SmsSpec

-----------------------------------------------------------------------------
(***************************************************************************)
(* Once, and told truly.                                                   *)
(***************************************************************************)
(* What a merge is, and is not.                                            *)
LEMMA MergeIs ==
  ASSUME NEW m \in Message, NEW status \in Status
  PROVE  /\ Merge(m, status) \in DbCall /\ Merge(m, status) \notin Asking
         /\ \A k : Merge(m, status) \in MergesOf(k) <=> k = m
         /\ \A k, s : Merge(m, status) \in MergeTo(k, s) <=> k = m /\ s = status
         /\ \A n : Merge(m, status) \notin {c \in DbCall : c.op = "find" /\ c.id > n}
<1>1. PICK c \in DbCall : c = Merge(m, status)
  BY MergesAreCalls
<1>2. c.op = "merge" /\ c.id = m /\ c.status = status
  BY <1>1 DEF Merge
<1>3. c # Find
  <2>1. Find.op = "find"
    BY DEF Find
  <2>. QED
    BY <1>2, <2>1
<1>. QED
  BY <1>1, <1>2, <1>3 DEF MergesOf, MergeTo, Asking

(* What a query is not.                                                    *)
LEMMA FindIs ==
  ASSUME SmsTypeOK
  PROVE  /\ Find \in DbCall /\ Find \in Asking
         /\ \A k : Find \notin MergesOf(k)
         /\ \A k, s : Find \notin MergeTo(k, s)
         /\ Find \notin {c \in DbCall : c.op = "find" /\ c.id > crashes}
<1>1. PICK c \in DbCall : c = Find
  BY FindIsCall
<1>2. c.op = "find" /\ c.id = crashes
  BY <1>1 DEF Find
<1>3. crashes \in Nat
  BY Bounds DEF SmsTypeOK
<1>4. ~(c.id > crashes)
  BY <1>2, <1>3
<1>. QED
  BY <1>1, <1>2, <1>4 DEF MergesOf, MergeTo, Asking

(* What the database is told of the messages that were found.              *)
LEMMA QueuedOccur ==
  ASSUME NEW T \in SUBSET Message, NEW q \in InOrder(T)
  PROVE  \A K : Occurs([i \in DOMAIN q |-> Queued(q[i])], K) <=> \E m \in T : Queued(m) \in K
<1>. DEFINE p == [i \in DOMAIN q |-> Queued(q[i])]
<1>1. q \in Seq(Message) /\ p \in Seq(DbCall)
  BY OrderIsTyped, QueuedAreCalls
<1>2. DOMAIN p = DOMAIN q /\ DOMAIN q = 1..Len(q) /\ DOMAIN p = 1..Len(p)
  BY <1>1
<1>3. \A i \in 1..Len(p) : i \in DOMAIN q /\ p[i] = Queued(q[i])
  BY <1>2
<1>4. q \in [1..Cardinality(T) -> T] /\ \A m \in T : \E i \in DOMAIN q : q[i] = m
  BY DEF InOrder
<1>5. \A i \in 1..Len(p) : q[i] \in T
  BY <1>2, <1>4
<1>6. \A m \in T : \E i \in 1..Len(p) : p[i] = Queued(m)
  BY <1>2, <1>3, <1>4
<1>. HIDE DEF p
<1>. QED
  BY <1>3, <1>5, <1>6 DEF Occurs, p

(* A message that a step leaves alone.                                     *)
Same(m) ==
  /\ db'[m] = db[m] /\ spec'[m] = spec[m]
  /\ sends'[m] = sends[m] /\ delivered'[m] = delivered[m]
  /\ \A c \in sending' : c.id = m => \E d \in sending : d.id = m /\ d.left = c.left
  /\ Occurs(tx_queue', {m}) => Occurs(tx_queue, {m})
  /\ NotFollowed(tx_queue', {m}, {m})
  /\ Occurs(toDb', MergesOf(m)) <=> Occurs(toDb, MergesOf(m))
  /\ \A status : Occurs(toDb', MergeTo(m, status)) => Occurs(toDb, MergeTo(m, status))

(* It stays in its place.                                                  *)
LEMMA SameStays ==
  ASSUME NEW m \in Message, Placed(m), Truthful(m), Same(m)
  PROVE  Placed(m)' /\ Truthful(m)'
<1>1. Fresh(m) => Fresh(m)'
  BY DEF Fresh, Same
<1>2. Unclaimed(m)' => Unclaimed(m)
  BY DEF Unclaimed, Same, MergesOf
<1>3. (Unclaimed(m) => Fresh(m) /\ ~Occurs(tx_queue, {m}))'
  BY <1>1, <1>2 DEF Placed, Same
<1>4. (db[m] = "" => ~Occurs(toDb, MergesOf(m)))'
  BY DEF Placed, Same, MergesOf
<1>5. (\A status \in {"", "pending"} : ~Occurs(toDb, MergeTo(m, status)))'
  BY DEF Placed, Same, MergeTo, MergesOf
<1>6. NotFollowed(tx_queue, {m}, {m})'
  BY DEF Same
<1>7. (Occurs(tx_queue, {m}) => /\ Fresh(m) /\ db[m] \in {"pending", "sending"}
                                /\ ~Occurs(toDb, MergeTo(m, "successful"))
                                /\ ~Occurs(toDb, MergeTo(m, "failed")))'
  BY <1>1 DEF Placed, Same, MergeTo, MergesOf
<1>8. (\A c \in sending : c.id = m => /\ db[m] = "sending" /\ ~Occurs(toDb, MergesOf(m))
                                      /\ sends[m] + c.left = spec[m].to
                                      /\ delivered[m] + 1 = sends[m])'
  BY DEF Placed, Same, MergesOf
<1>9. (sends[m] <= spec[m].to)'
  BY DEF Placed, Same
<1>10. Truthful(m)'
  BY DEF Truthful, Same, MergeTo, MergesOf
<1>. QED
  BY <1>3, <1>4, <1>5, <1>6, <1>7, <1>8, <1>9, <1>10 DEF Placed

(* The queries are not concerned.                                          *)
LEMMA QueriesStay ==
  ASSUME Queries, UNCHANGED <<db, toDb, found, armed, crashes>>
  PROVE  Queries'
BY DEF Queries, Asking, Find, MergesOf

(* The history has no late answer that it will lose.                       *)
LEMMA NeverLate ==
  ASSUME [SmsNext]_smsVars, ~db_late'
  PROVE  ~db_late
BY DEF SmsNext, Daemon, smsVars, outboxVars, query_pending_messages_cb, send_sms_cb,
       message_status_cb, tx_empty, tx_not_ready, tx_send, restart_tx_queue_cb, tx_wait, Polls,
       TimerFires, send_sms_from_db, DbHandles, Write, SlotComesUp, SlotGoesDown, Crash

(* It is at the start.                                                     *)
LEMMA InitIsOrderly == SmsInit => Orderly
<1>. SUFFICES ASSUME SmsInit PROVE Ordered
  BY DEF Orderly
<1>1. /\ tx_queue = <<>> /\ sending = {} /\ toDb = <<>> /\ found = <<>>
      /\ \A m \in Message : db[m] = "" /\ sends[m] = 0 /\ delivered[m] = 0 /\ spec[m].to = 1
  <2>1. tx_queue = <<>> /\ sending = {} /\ toDb = <<>> /\ found = <<>>
    BY DEF SmsInit
  <2>2. \A m \in Message : db[m] = "" /\ sends[m] = 0 /\ delivered[m] = 0
    BY DEF SmsInit
  <2>3. \A m \in Message : spec[m] = [to |-> 1, sim |-> -1, inhibit |-> FALSE, valid |-> TRUE]
    BY DEF SmsInit
  <2>4. ASSUME NEW m \in Message
        PROVE  spec[m].to = 1
    BY <2>3
  <2>. QED
    BY <2>1, <2>2, <2>4
<1>2. Len(found) <= 1
  <2>1. found = <<>>
    BY <1>1
  <2>. QED
    BY <2>1
<1>3. Queries
  BY <1>1, <1>2, Nones DEF Queries
<1>4. ASSUME NEW m \in Message
      PROVE  Placed(m) /\ Truthful(m)
  <2>1. Fresh(m)
    BY <1>1 DEF Fresh
  <2>2. sends[m] <= spec[m].to
    <3>1. sends[m] = 0 /\ spec[m].to = 1
      BY <1>1
    <3>. QED
      BY <3>1
  <2>. QED
    BY <1>1, <2>1, <2>2, Nones DEF Placed, Truthful
<1>. QED
  BY <1>3, <1>4 DEF Ordered

(* The activity asks.                                                      *)
LEMMA AskStep ==
  ASSUME ~BusFaults, SmsTypeOK, Ordered, send_sms_from_db
  PROVE  Ordered'
<1>1. /\ armed /\ armed' = FALSE
      /\ UNCHANGED <<tx_queue, sending, db, spec, found, sends, delivered, crashes>>
  BY DEF send_sms_from_db, outboxVars
<1>2. PICK c \in DbCall : c = Find
  BY FindIsCall
<1>3. toDb \in Seq(DbCall) /\ <<c>> \in Seq(DbCall)
  BY DEF SmsTypeOK
<1>4. toDb' = toDb \o <<c>>
  <2>1. \E ok \in BusWorks : toDb' = IF ok THEN Append(toDb, c) ELSE toDb
    BY <1>2 DEF send_sms_from_db
  <2>2. toDb' = Append(toDb, c)
    BY <2>1 DEF BusWorks
  <2>. QED
    BY <1>3, <2>2
<1>5. /\ \A K : Occurs(toDb', K) <=> Occurs(toDb, K) \/ c \in K
      /\ \A K, L : NotFollowed(toDb, K, L) /\ ~(Occurs(toDb, K) /\ c \in L)
                     => NotFollowed(toDb', K, L)
  BY <1>3, <1>4, Cats, Ones
<1>6. ~Occurs(toDb, Asking) /\ found = <<>>
  BY <1>1 DEF Ordered, Queries
<1>7. Asking' = Asking
  BY <1>1 DEF Asking, Find
<1>8. NotFollowed(toDb', Asking, Asking)
  BY <1>5, <1>6, Absent
<1>9. \A m : NotFollowed(toDb', Asking, MergesOf(m))
  BY <1>5, <1>6, Absent
<1>10. ~Occurs(toDb', {d \in DbCall : d.op = "find" /\ d.id > crashes})
  BY <1>2, <1>5, FindIs DEF Ordered, Queries
<1>11. Queries'
  <2>1. Len(found) <= 1
    BY DEF Ordered, Queries
  <2>. QED
    BY <1>1, <1>6, <1>7, <1>8, <1>9, <1>10, <2>1 DEF Queries, MergesOf
<1>12. ASSUME NEW m \in Message
       PROVE  Placed(m)' /\ Truthful(m)'
  <2>1. /\ Occurs(toDb', MergesOf(m)) <=> Occurs(toDb, MergesOf(m))
        /\ \A status : Occurs(toDb', MergeTo(m, status)) => Occurs(toDb, MergeTo(m, status))
    BY <1>2, <1>5, FindIs
  <2>2. Placed(m) /\ Truthful(m)
    BY DEF Ordered
  <2>3. Same(m)
    BY <1>1, <2>1, <2>2 DEF Same, Placed
  <2>. QED
    BY <2>2, <2>3, SameStays
<1>. QED
  BY <1>11, <1>12 DEF Ordered

(* The answer: what was found is queued.                                   *)
LEMMA FoundStep ==
  ASSUME ~BusFaults, SmsTypeOK, Ordered, query_pending_messages_cb
  PROVE  Ordered'
<1>1. /\ found # <<>> /\ found' = Tail(found)
      /\ UNCHANGED <<sending, db, spec, armed, sends, delivered, crashes>>
  BY Answered
<1>2. PICK T \in SUBSET Message : T = Head(found)
  BY <1>1 DEF SmsTypeOK
<1>3. PICK all \in InOrder(T) : toDb' = toDb \o [i \in DOMAIN all |-> Queued(all[i])]
  BY <1>2, Answered
<1>4. PICK good \in InOrder(Valid(T)) : tx_queue' = tx_queue \o good
  BY <1>2, Answered
<1>5. PICK merges \in Seq(DbCall) : merges = [i \in DOMAIN all |-> Queued(all[i])]
  BY QueuedAreCalls
<1>6. \A K : Occurs(merges, K) <=> \E m \in T : Queued(m) \in K
  BY <1>5, QueuedOccur
<1>7. \A K : Occurs(toDb', K) <=> Occurs(toDb, K) \/ \E m \in T : Queued(m) \in K
  <2>1. toDb \in Seq(DbCall) /\ toDb' = toDb \o merges
    BY <1>3, <1>5 DEF SmsTypeOK
  <2>. QED
    BY <1>6, <2>1, Cats
<1>8. /\ good \in Seq(Message)
      /\ \A m : Occurs(good, {m}) <=> m \in Valid(T)
      /\ \A m : NotFollowed(good, {m}, {m})
  BY OrderIsTyped DEF Valid
<1>9. /\ \A m : Occurs(tx_queue', {m}) <=> Occurs(tx_queue, {m}) \/ m \in Valid(T)
      /\ \A m : NotFollowed(tx_queue, {m}, {m}) /\ ~(Occurs(tx_queue, {m}) /\ m \in Valid(T))
                  => NotFollowed(tx_queue', {m}, {m})
  <2>1. tx_queue \in Seq(Message)
    BY DEF SmsTypeOK
  <2>2. /\ \A K : Occurs(tx_queue', K) <=> Occurs(tx_queue, K) \/ Occurs(good, K)
        /\ \A K, L : NotFollowed(tx_queue, K, L) /\ NotFollowed(good, K, L)
                        /\ ~(Occurs(tx_queue, K) /\ Occurs(good, L)) => NotFollowed(tx_queue', K, L)
    BY <1>4, <1>8, <2>1, Cats
  <2>. QED
    BY <1>8, <2>2
<1>10. ASSUME NEW m \in Message
       PROVE  /\ Queued(m) \notin Asking
              /\ \A n : Queued(m) \notin {c \in DbCall : c.op = "find" /\ c.id > n}
              /\ \A k : Queued(m) \in MergesOf(k) <=> k = m
              /\ \A k, s : Queued(m) \in MergeTo(k, s)
                             <=> k = m /\ s = IF spec[m].valid THEN "sending" ELSE "failed"
  <2>1. PICK status \in Status : status = IF spec[m].valid THEN "sending" ELSE "failed"
    BY DEF Status
  <2>2. Queued(m) = Merge(m, status)
    BY <2>1 DEF Queued
  <2>. QED
    BY <2>1, <2>2, MergeIs
<1>11. /\ ~armed /\ ~Occurs(toDb, Asking) /\ Len(found) <= 1
       /\ \A m \in T : db[m] = "pending" /\ ~Occurs(toDb, MergesOf(m))
  BY <1>1, <1>2 DEF Ordered, Queries
<1>12. Queries'
  <2>1. Asking' = Asking
    BY <1>1 DEF Asking, Find
  <2>2. ~Occurs(toDb', Asking)
    BY <1>2, <1>7, <1>10, <1>11
  <2>3. ~Occurs(toDb', {c \in DbCall : c.op = "find" /\ c.id > crashes})
    BY <1>2, <1>7, <1>10 DEF Ordered, Queries
  <2>4. found' = <<>>
    BY <1>1, <1>11 DEF SmsTypeOK
  <2>5. Len(found') <= 1
    BY <2>4
  <2>6. \A L : NotFollowed(toDb', Asking, L)
    BY <2>2, Absent
  <2>. QED
    BY <1>1, <2>1, <2>2, <2>3, <2>4, <2>5, <2>6 DEF Queries, MergesOf
<1>13. ASSUME NEW m \in Message
       PROVE  Placed(m)' /\ Truthful(m)'
  <2>1. Placed(m) /\ Truthful(m)
    BY DEF Ordered
  <2>2. CASE m \notin T
    <3>1. m \notin Valid(T)
      BY <2>2 DEF Valid
    <3>2. /\ Occurs(toDb', MergesOf(m)) <=> Occurs(toDb, MergesOf(m))
          /\ \A status : Occurs(toDb', MergeTo(m, status)) => Occurs(toDb, MergeTo(m, status))
      BY <1>2, <1>7, <1>10, <2>2
    <3>3. Same(m)
      BY <1>1, <1>9, <2>1, <3>1, <3>2 DEF Same, Placed
    <3>. QED
      BY <2>1, <3>3, SameStays
  <2>3. CASE m \in T
    <3>1. db[m] = "pending" /\ ~Occurs(toDb, MergesOf(m))
      BY <1>11, <2>3
    <3>2. Fresh(m) /\ ~Occurs(tx_queue, {m})
      BY <2>1, <3>1 DEF Unclaimed, Placed
    <3>3. Fresh(m)'
      BY <1>1, <3>2 DEF Fresh
    <3>4. \A status : ~Occurs(toDb, MergeTo(m, status))
      BY <3>1 DEF MergeTo, Occurs
    <3>5. Occurs(toDb', MergesOf(m))
      BY <1>2, <1>7, <1>10, <2>3
    <3>6. \A status : Occurs(toDb', MergeTo(m, status))
                        => status = IF spec[m].valid THEN "sending" ELSE "failed"
      BY <1>2, <1>7, <1>10, <2>3, <3>4
    <3>7. NotFollowed(tx_queue', {m}, {m})
      BY <1>9, <2>1, <3>2 DEF Placed
    <3>8. Occurs(tx_queue', {m}) => spec[m].valid
      BY <1>9, <3>2 DEF Valid
    <3>9. Truthful(m)'
      BY <1>1, <3>1, <3>6 DEF Truthful, MergeTo, MergesOf
    <3>10. (\A c \in sending : c.id # m) /\ sends[m] <= spec[m].to
      BY <2>1, <3>2 DEF Placed, Fresh
    <3>11. Placed(m)'
      BY <1>1, <3>1, <3>3, <3>5, <3>6, <3>7, <3>8, <3>10 DEF Placed, Unclaimed, MergeTo, MergesOf
    <3>. QED
      BY <3>9, <3>11
  <2>. QED
    BY <2>2, <2>3
<1>. QED
  BY <1>12, <1>13 DEF Ordered

(* db8 is told of a message it does not wait for.                          *)
LEMMA ToldStep ==
  ASSUME SmsTypeOK, Queries, UNCHANGED <<db, found, armed, crashes>>,
         NEW m \in Message, db[m] # "pending", NEW status \in Status,
         toDb' = toDb \o <<Merge(m, status)>>
  PROVE  /\ Queries'
         /\ \A k : Occurs(toDb', MergesOf(k)) <=> Occurs(toDb, MergesOf(k)) \/ k = m
         /\ \A k, s : Occurs(toDb', MergeTo(k, s)) <=> Occurs(toDb, MergeTo(k, s)) \/ (k = m /\ s = status)
<1>1. PICK c \in DbCall : c = Merge(m, status)
  BY MergesAreCalls
<1>2. toDb \in Seq(DbCall) /\ <<c>> \in Seq(DbCall) /\ toDb' = toDb \o <<c>>
  BY <1>1 DEF SmsTypeOK
<1>3. /\ \A K : Occurs(toDb', K) <=> Occurs(toDb, K) \/ c \in K
      /\ \A K, L : NotFollowed(toDb, K, L) /\ ~(Occurs(toDb, K) /\ c \in L)
                     => NotFollowed(toDb', K, L)
  <2>0. PICK w \in Seq(DbCall) : w = <<c>>
    BY <1>2
  <2>1. /\ \A K : Occurs(w, K) <=> c \in K
        /\ \A K, L : NotFollowed(w, K, L)
    BY <2>0, Ones
  <2>2. toDb \in Seq(DbCall) /\ w \in Seq(DbCall) /\ toDb' = toDb \o w
    BY <1>2, <2>0
  <2>3. /\ \A K : Occurs(toDb', K) <=> Occurs(toDb, K) \/ Occurs(w, K)
        /\ \A K, L : NotFollowed(toDb, K, L) /\ NotFollowed(w, K, L)
                        /\ ~(Occurs(toDb, K) /\ Occurs(w, L)) => NotFollowed(toDb', K, L)
    BY <2>2, Cats
  <2>. QED
    BY <2>1, <2>3
<1>4. /\ c \notin Asking
      /\ \A k : c \in MergesOf(k) <=> k = m
      /\ \A k, s : c \in MergeTo(k, s) <=> k = m /\ s = status
      /\ \A n : c \notin {d \in DbCall : d.op = "find" /\ d.id > n}
  BY <1>1, MergeIs
<1>5. /\ \A k : Occurs(toDb', MergesOf(k)) <=> Occurs(toDb, MergesOf(k)) \/ k = m
      /\ \A k, s : Occurs(toDb', MergeTo(k, s)) <=> Occurs(toDb, MergeTo(k, s)) \/ (k = m /\ s = status)
  BY <1>3, <1>4
<1>6. Asking' = Asking
  BY DEF Asking, Find
<1>7. Occurs(toDb', Asking) <=> Occurs(toDb, Asking)
  BY <1>3, <1>4
<1>8. NotFollowed(toDb', Asking, Asking)
  BY <1>3, <1>4 DEF Queries
<1>9. \A k \in Message : db[k] = "pending" => NotFollowed(toDb', Asking, MergesOf(k))
  BY <1>3, <1>4 DEF Queries
<1>10. ~Occurs(toDb', {d \in DbCall : d.op = "find" /\ d.id > crashes})
  BY <1>3, <1>4 DEF Queries
<1>11. found # <<>> => \A k \in Head(found) : db[k] = "pending" /\ ~Occurs(toDb', MergesOf(k))
  BY <1>5 DEF Queries
<1>12. Queries'
  BY <1>6, <1>7, <1>8, <1>9, <1>10, <1>11 DEF Queries, MergesOf
<1>. QED
  BY <1>5, <1>12

(* The driver's answers and the states of a message.                       *)
LEMMA WatchStep ==
  ASSUME ~BusFaults, SmsTypeOK, Busy, Ordered, send_sms_cb \/ message_status_cb
  PROVE  Ordered'
<1>1. UNCHANGED <<tx_queue, db, spec, found, armed, crashes>>
  BY Watched
<1>2. PICK c \in sending :
        \/ \E success \in BOOLEAN : send_msg_cb(c, success)
        \/ \E d : /\ sending' = {d} /\ d.id = c.id /\ d.left = c.left
                  /\ UNCHANGED <<toDb, sends, delivered>>
  BY Watched
<1>3. PICK m \in Message : m = c.id
  BY DEF SmsTypeOK
<1>4. c.left \in Nat /\ spec[m].to \in Nat /\ sends[m] \in Nat /\ delivered[m] \in Nat
  <2>1. c \in SendCall /\ MaxTo \in Nat
    BY Bounds DEF SmsTypeOK, SendCall
  <2>2. c.left \in Nat
    BY <2>1 DEF SendCall
  <2>3. spec[m].to \in Nat
    BY <2>1 DEF SmsTypeOK, Outgoing
  <2>. QED
    BY <2>2, <2>3 DEF SmsTypeOK
<1>5. /\ db[m] = "sending" /\ ~Occurs(toDb, MergesOf(m))
      /\ sends[m] + c.left = spec[m].to /\ delivered[m] + 1 = sends[m]
      /\ NotFollowed(tx_queue, {m}, {m})
  BY <1>3 DEF Ordered, Placed
<1>6. ~Occurs(tx_queue, {m})
  BY <1>3 DEF Ordered, Placed, Fresh
<1>7. \A d \in sending : d = c
  BY DEF Busy
<1>8. \A s : ~Occurs(toDb, MergeTo(m, s))
  BY <1>5 DEF MergeTo, Occurs
<1>9. CASE \E d : /\ sending' = {d} /\ d.id = c.id /\ d.left = c.left
                  /\ UNCHANGED <<toDb, sends, delivered>>
  <2>1. Queries'
    BY <1>1, <1>9, QueriesStay DEF Ordered
  <2>2. ASSUME NEW k \in Message
        PROVE  Placed(k)' /\ Truthful(k)'
    <3>1. Placed(k) /\ Truthful(k)
      BY DEF Ordered
    <3>2. Same(k)
      BY <1>1, <1>9, <3>1 DEF Same, Placed
    <3>. QED
      BY <3>1, <3>2, SameStays
  <2>. QED
    BY <2>1, <2>2 DEF Ordered
<1>10. ASSUME NEW success \in BOOLEAN, send_msg_cb(c, success)
       PROVE  Ordered'
  <2>1. delivered' = [delivered EXCEPT ![m] = @ + (IF success THEN 1 ELSE 0)]
    BY <1>3, <1>10, Reported
  <2>2. CASE /\ success /\ c.left > 0
             /\ sending' = {SendMessage(m, c.left - 1)}
             /\ sends' = [sends EXCEPT ![m] = @ + 1]
             /\ toDb' = toDb
    <3>1. Queries'
      BY <1>1, <2>2, QueriesStay DEF Ordered
    <3>2. PICK d : d = SendMessage(m, c.left - 1)
      OBVIOUS
    <3>3. sending' = {d} /\ d.id = m /\ d.left = c.left - 1
      BY <2>2, <3>2 DEF SendMessage
    <3>4. ASSUME NEW k \in Message, k # m
          PROVE  Placed(k)' /\ Truthful(k)'
      <4>1. Placed(k) /\ Truthful(k)
        BY DEF Ordered
      <4>2. sends'[k] = sends[k] /\ delivered'[k] = delivered[k]
        BY <2>1, <2>2, <3>4 DEF SmsTypeOK
      <4>3. Same(k)
        BY <1>1, <2>2, <3>3, <3>4, <4>1, <4>2 DEF Same, Placed
      <4>. QED
        BY <4>1, <4>3, SameStays
    <3>5. sends'[m] = sends[m] + 1 /\ delivered'[m] = delivered[m] + 1
      BY <2>1, <2>2 DEF SmsTypeOK
    <3>6. /\ sends'[m] + (c.left - 1) = spec[m].to /\ delivered'[m] + 1 = sends'[m]
          /\ sends'[m] <= spec[m].to
      BY <1>4, <1>5, <2>2, <3>5
    <3>7. Placed(m)'
      BY <1>1, <1>5, <1>6, <1>8, <2>2, <3>3, <3>6 DEF Placed, Unclaimed, MergeTo, MergesOf
    <3>8. Truthful(m)'
      BY <1>1, <1>5, <1>8, <2>2 DEF Truthful, MergeTo, MergesOf
    <3>. QED
      BY <3>1, <3>4, <3>7, <3>8 DEF Ordered
  <2>3. ASSUME NEW status \in {"successful", "failed"},
               sending' = {}, sends' = sends, toDb' = toDb \o <<Merge(m, status)>>,
               status = "successful" => success /\ ~(c.left > 0),
               status = "failed" => ~success \/ c.left > 0
        PROVE  Ordered'
    <3>1. /\ Queries'
          /\ \A k : Occurs(toDb', MergesOf(k)) <=> Occurs(toDb, MergesOf(k)) \/ k = m
          /\ \A k, s : Occurs(toDb', MergeTo(k, s))
                         <=> Occurs(toDb, MergeTo(k, s)) \/ (k = m /\ s = status)
      <4>1. status \in Status /\ Queries /\ db[m] # "pending"
        BY <1>5, <2>3 DEF Ordered, Status
      <4>2. UNCHANGED <<db, found, armed, crashes>> /\ toDb' = toDb \o <<Merge(m, status)>>
        BY <1>1, <2>3
      <4>. QED
        BY <4>1, <4>2, ToldStep
    <3>2. ASSUME NEW k \in Message, k # m
          PROVE  Placed(k)' /\ Truthful(k)'
      <4>1. Placed(k) /\ Truthful(k)
        BY DEF Ordered
      <4>2. sends'[k] = sends[k] /\ delivered'[k] = delivered[k]
        BY <2>1, <2>3, <3>2 DEF SmsTypeOK
      <4>3. Same(k)
        BY <1>1, <2>3, <3>1, <3>2, <4>1, <4>2 DEF Same, Placed
      <4>. QED
        BY <4>1, <4>3, SameStays
    <3>3. /\ sends'[m] = sends[m] /\ delivered'[m] = delivered[m] + (IF success THEN 1 ELSE 0)
      BY <2>1, <2>3 DEF SmsTypeOK
    <3>4. /\ sends'[m] <= spec[m].to
          /\ status = "successful" => delivered'[m] = spec[m].to
          /\ status = "failed" => delivered'[m] < spec[m].to
      <4>1. sends'[m] <= spec[m].to
        BY <1>4, <1>5, <3>3
      <4>2. ASSUME success, ~(c.left > 0)
            PROVE  delivered'[m] = spec[m].to
        BY <1>4, <1>5, <3>3, <4>2
      <4>3. ASSUME ~success
            PROVE  delivered'[m] < spec[m].to
        BY <1>4, <1>5, <3>3, <4>3
      <4>4. ASSUME c.left > 0
            PROVE  delivered'[m] < spec[m].to
        BY <1>4, <1>5, <3>3, <4>4
      <4>. QED
        BY <2>3, <4>1, <4>2, <4>3, <4>4
    <3>5. Placed(m)'
      BY <1>1, <1>5, <1>6, <1>8, <2>3, <3>1, <3>4, ZenonT(60) DEF Placed, Unclaimed, MergeTo, MergesOf
    <3>6. Truthful(m)'
      <4>1. Occurs(toDb', MergeTo(m, "successful")) => status = "successful"
        BY <1>8, <3>1
      <4>2. Occurs(toDb', MergeTo(m, "failed")) => status = "failed"
        BY <1>8, <3>1
      <4>. QED
        BY <1>1, <1>5, <3>4, <4>1, <4>2 DEF Truthful, MergeTo, MergesOf
    <3>. QED
      BY <3>1, <3>2, <3>5, <3>6 DEF Ordered
  <2>4. \/ /\ success /\ c.left > 0
           /\ sending' = {SendMessage(m, c.left - 1)}
           /\ sends' = [sends EXCEPT ![m] = @ + 1]
           /\ toDb' = toDb
        \/ \E status \in {"successful", "failed"} :
             /\ sending' = {} /\ sends' = sends /\ toDb' = toDb \o <<Merge(m, status)>>
             /\ status = "successful" => success /\ ~(c.left > 0)
             /\ status = "failed" => ~success \/ c.left > 0
    BY <1>3, <1>10, Reported
  <2>. QED
    BY <2>2, <2>3, <2>4
<1>. QED
  BY <1>2, <1>9, <1>10

(* db8 takes the next call.                                                *)
LEMMA DbStep ==
  ASSUME ~BusFaults, SmsTypeOK, Ordered, DbHandles
  PROVE  Ordered'
<1>1. /\ toDb # <<>> /\ toDb' = Tail(toDb)
      /\ UNCHANGED <<tx_queue, sending, spec, armed, sends, delivered, crashes>>
  BY DEF DbHandles, outboxVars
<1>2. PICK c \in DbCall : c = Head(toDb)
  BY <1>1 DEF SmsTypeOK
<1>3. /\ \A K : Occurs(toDb, K) <=> c \in K \/ Occurs(toDb', K)
      /\ \A K, L : NotFollowed(toDb, K, L) => /\ c \in K => ~Occurs(toDb', L)
                                              /\ NotFollowed(toDb', K, L)
  <2>1. toDb \in Seq(DbCall)
    BY DEF SmsTypeOK
  <2>. QED
    BY <1>1, <1>2, <2>1, Tails
<1>4. Asking' = Asking
  BY <1>1 DEF Asking, Find
<1>5. ~Occurs(toDb', {d \in DbCall : d.op = "find" /\ d.id > crashes})
  BY <1>3 DEF Ordered, Queries
<1>6. NotFollowed(toDb', Asking, Asking)
  BY <1>3 DEF Ordered, Queries
<1>7. \A k \in Message : Placed(k) /\ Truthful(k)
  BY DEF Ordered
<1>8. CASE c.op = "find"
  <2>1. UNCHANGED db
    BY <1>2, <1>8 DEF DbHandles
  <2>2. /\ \A k : c \notin MergesOf(k)
        /\ \A k, s : c \notin MergeTo(k, s)
    BY <1>8 DEF MergesOf, MergeTo
  <2>3. ASSUME NEW k \in Message
        PROVE  Placed(k)' /\ Truthful(k)'
    <3>1. Same(k)
      BY <1>1, <1>3, <1>7, <2>1, <2>2 DEF Same, Placed
    <3>. QED
      BY <1>7, <3>1, SameStays
  <2>4. CASE c = Find
    <3>1. PICK P \in SUBSET Message : P = {m \in Message : db[m] = "pending"}
      OBVIOUS
    <3>2. found' = Append(found, P)
      BY <1>2, <1>8, <2>4, <3>1 DEF DbHandles
    <3>3. c \in Asking
      BY <2>4 DEF Asking
    <3>4. found = <<>> /\ ~armed
      BY <1>3, <3>3 DEF Ordered, Queries
    <3>5. found' # <<>> /\ Head(found') = P /\ Len(found') <= 1
      BY <3>2, <3>4
    <3>6. ~Occurs(toDb', Asking)
      BY <1>3, <3>3 DEF Ordered, Queries
    <3>7. \A m \in P : db[m] = "pending" /\ ~Occurs(toDb', MergesOf(m))
      BY <1>3, <3>1, <3>3 DEF Ordered, Queries
    <3>8. \A L : NotFollowed(toDb', Asking, L)
      BY <3>6, Absent
    <3>9. Queries'
      BY <1>1, <1>4, <1>5, <1>6, <2>1, <3>4, <3>5, <3>6, <3>7, <3>8 DEF Queries, MergesOf
    <3>. QED
      BY <2>3, <3>9 DEF Ordered
  <2>5. CASE c # Find
    <3>1. UNCHANGED found
      BY <1>2, <1>8, <2>5 DEF DbHandles
    <3>2. c \notin Asking
      BY <2>5 DEF Asking
    <3>3. \A L : Occurs(toDb', L) => Occurs(toDb, L)
      BY <1>3
    <3>4. \A m \in Message : db[m] = "pending" => NotFollowed(toDb', Asking, MergesOf(m))
      BY <1>3 DEF Ordered, Queries
    <3>5. found # <<>> => \A m \in Head(found) : db[m] = "pending" /\ ~Occurs(toDb', MergesOf(m))
      BY <3>3 DEF Ordered, Queries
    <3>6. /\ armed => ~Occurs(toDb', Asking) /\ found = <<>>
          /\ Occurs(toDb', Asking) => found = <<>>
          /\ Len(found) <= 1
      BY <3>3 DEF Ordered, Queries
    <3>7. Queries'
      BY <1>1, <1>4, <1>5, <1>6, <2>1, <3>1, <3>4, <3>5, <3>6 DEF Queries, MergesOf
    <3>. QED
      BY <2>3, <3>7 DEF Ordered
  <2>. QED
    BY <2>4, <2>5
<1>9. CASE c.op # "find"
  <2>1. UNCHANGED found /\ db' = [db EXCEPT ![c.id] = c.status]
    BY <1>2, <1>9 DEF DbHandles, BusWorks
  <2>2. c.op = "merge"
    BY <1>9 DEF DbCall
  <2>3. /\ c \in MergesOf(c.id) /\ c \in MergeTo(c.id, c.status)
        /\ \A k : c \in MergesOf(k) => k = c.id
        /\ \A k, s : c \in MergeTo(k, s) => k = c.id
    BY <2>2 DEF MergesOf, MergeTo
  <2>4. \A L : Occurs(toDb', L) => Occurs(toDb, L)
    BY <1>3
  <2>5. Occurs(toDb, MergesOf(c.id)) /\ Occurs(toDb, MergeTo(c.id, c.status))
    BY <1>3, <2>3
  <2>6. c.status \in Status
    BY DEF DbCall
  <2>7. \A m \in Message : m # c.id => db'[m] = db[m]
    BY <2>1 DEF SmsTypeOK
  <2>8. c.id \in Message => db'[c.id] = c.status
    BY <2>1 DEF SmsTypeOK
  <2>9. c.id \in Message => c.status \in {"sending", "successful", "failed"}
    BY <1>7, <2>5, <2>6 DEF Placed, Status
  <2>10. ASSUME NEW k \in Message
         PROVE  Placed(k)' /\ Truthful(k)'
    <3>1. CASE k # c.id
      <4>1. Same(k)
        BY <1>1, <1>3, <1>7, <2>3, <2>7, <3>1 DEF Same, Placed
      <4>. QED
        BY <1>7, <4>1, SameStays
    <3>2. CASE k = c.id
      <4>1. Placed(k) /\ Truthful(k)
        BY <1>7
      <4>2. db'[k] = c.status /\ c.status \in {"sending", "successful", "failed"}
        BY <2>8, <2>9, <3>2
      <4>3. Fresh(k) => Fresh(k)'
        BY <1>1 DEF Fresh
      <4>4. Occurs(tx_queue, {k}) => Fresh(k) /\ c.status = "sending"
        BY <2>5, <3>2, <4>1, <4>2 DEF Placed
      <4>5. \A d \in sending : d.id # k
        BY <2>5, <3>2, <4>1 DEF Placed
      <4>6. NotFollowed(tx_queue, {k}, {k}) /\ sends[k] <= spec[k].to
        BY <4>1 DEF Placed
      <4>7. \A status \in {"", "pending"} : ~Occurs(toDb', MergeTo(k, status))
        BY <2>4, <4>1 DEF Placed
      <4>8. Occurs(tx_queue, {k}) => /\ ~Occurs(toDb', MergeTo(k, "successful"))
                                     /\ ~Occurs(toDb', MergeTo(k, "failed"))
        BY <2>4, <4>1 DEF Placed
      <4>9. Placed(k)'
        BY <1>1, <4>2, <4>3, <4>4, <4>5, <4>6, <4>7, <4>8 DEF Placed, Unclaimed, MergeTo, MergesOf
      <4>10. Truthful(k)'
        <5>1. db'[k] = "successful" \/ Occurs(toDb', MergeTo(k, "successful"))
                => Occurs(toDb, MergeTo(k, "successful"))
          BY <2>4, <2>5, <3>2, <4>2
        <5>2. db'[k] = "failed" \/ Occurs(toDb', MergeTo(k, "failed"))
                => Occurs(toDb, MergeTo(k, "failed"))
          BY <2>4, <2>5, <3>2, <4>2
        <5>. QED
          BY <1>1, <4>1, <5>1, <5>2 DEF Truthful, MergeTo, MergesOf
      <4>. QED
        BY <4>9, <4>10
    <3>. QED
      BY <3>1, <3>2
  <2>11. \A m \in Message : db'[m] = "pending" => db[m] = "pending"
    BY <2>7, <2>8, <2>9
  <2>12. \A m \in Message : db'[m] = "pending" => NotFollowed(toDb', Asking, MergesOf(m))
    BY <1>3, <2>11 DEF Ordered, Queries
  <2>13. ASSUME found # <<>>, NEW m \in Head(found)
         PROVE  db'[m] = "pending" /\ ~Occurs(toDb', MergesOf(m))
    <3>1. db[m] = "pending" /\ ~Occurs(toDb, MergesOf(m)) /\ m \in Message
      BY <2>13 DEF Ordered, Queries, SmsTypeOK
    <3>. QED
      BY <2>4, <2>5, <2>7, <3>1
  <2>14. /\ armed => ~Occurs(toDb', Asking) /\ found = <<>>
         /\ Occurs(toDb', Asking) => found = <<>>
         /\ Len(found) <= 1
    BY <2>4 DEF Ordered, Queries
  <2>15. Queries'
    BY <1>1, <1>4, <1>5, <1>6, <2>1, <2>12, <2>13, <2>14 DEF Queries, MergesOf
  <2>. QED
    BY <2>10, <2>15 DEF Ordered
<1>. QED
  BY <1>8, <1>9

(* The timers fire when db8 has answered everything.                       *)
LEMMA TimersAreQuiet ==
  ASSUME SmsTypeOK, TimerFires, ~db_late'
  PROVE  /\ found = <<>> /\ ~Occurs(toDb, Asking)
         /\ \A k : ~Occurs(toDb, MergesOf(k))
         /\ \A k, s : ~Occurs(toDb, MergeTo(k, s))
<1>1. found = <<>> /\ \A i \in DOMAIN toDb : toDb[i].op # "merge" /\ toDb[i] # Find
  BY DEF TimerFires
<1>2. DOMAIN toDb = 1..Len(toDb)
  BY DEF SmsTypeOK
<1>. QED
  BY <1>1, <1>2 DEF Occurs, Asking, MergesOf, MergeTo

(* The timer sends the first of the queue.                                 *)
LEMMA SendStep ==
  ASSUME ~BusFaults, SmsTypeOK, Busy, Ordered, tx_send, ~db_late'
  PROVE  Ordered'
<1>1. PICK m \in Message :
        /\ tx_queue # <<>> /\ m = Head(tx_queue) /\ tx_queue' = Tail(tx_queue)
        /\ sending = {}
        /\ UNCHANGED <<db, spec, found, armed, delivered, crashes>>
        /\ TimerFires
        /\ \/ /\ spec[m].inhibit /\ sending' = {} /\ sends' = sends
              /\ toDb' = toDb \o <<Merge(m, "successful")>>
           \/ /\ sending' = {SendMessage(m, spec[m].to - 1)}
              /\ sends' = [sends EXCEPT ![m] = @ + 1]
              /\ toDb' = toDb
           \/ /\ sending' = {} /\ sends' = sends
              /\ toDb' = toDb \o <<Merge(m, "failed")>>
  BY Started
<1>2. /\ \A k : ~Occurs(toDb, MergesOf(k))
      /\ \A k, s : ~Occurs(toDb, MergeTo(k, s))
  BY <1>1, TimersAreQuiet
<1>3. /\ \A K : Occurs(tx_queue, K) <=> m \in K \/ Occurs(tx_queue', K)
      /\ \A K, L : NotFollowed(tx_queue, K, L) => /\ m \in K => ~Occurs(tx_queue', L)
                                                  /\ NotFollowed(tx_queue', K, L)
  <2>1. tx_queue \in Seq(Message)
    BY DEF SmsTypeOK
  <2>. QED
    BY <1>1, <2>1, Tails
<1>4. \A k \in Message : Placed(k) /\ Truthful(k)
  BY DEF Ordered
<1>5. m \in {m} /\ Occurs(tx_queue, {m})
  BY <1>3
<1>6. Fresh(m) /\ db[m] = "sending" /\ ~Occurs(tx_queue', {m}) /\ NotFollowed(tx_queue', {m}, {m})
  <2>1. Fresh(m) /\ db[m] \in {"pending", "sending"}
    BY <1>4, <1>5 DEF Placed
  <2>2. db[m] # "pending"
    BY <1>2, <1>4, <1>5 DEF Placed, Unclaimed
  <2>3. NotFollowed(tx_queue, {m}, {m})
    BY <1>4 DEF Placed
  <2>. QED
    BY <1>3, <1>5, <2>1, <2>2, <2>3
<1>7. /\ sends[m] = 0 /\ delivered[m] = 0 /\ spec[m].to \in Nat \ {0}
  <2>1. spec[m].to \in 1..MaxTo
    BY DEF SmsTypeOK, Outgoing
  <2>. QED
    BY <1>6, <2>1, Bounds DEF Fresh
<1>8. ASSUME NEW k \in Message, k # m
      PROVE  /\ NotFollowed(tx_queue', {k}, {k})
             /\ Occurs(tx_queue', {k}) => Occurs(tx_queue, {k})
  BY <1>3, <1>4, <1>8 DEF Placed
<1>9. /\ UNCHANGED <<db, spec, delivered>>
      /\ ~Occurs(toDb, MergesOf(m)) /\ \A s : ~Occurs(toDb, MergeTo(m, s))
  BY <1>1, <1>2
<1>10. CASE /\ sending' = {SendMessage(m, spec[m].to - 1)}
           /\ sends' = [sends EXCEPT ![m] = @ + 1]
           /\ toDb' = toDb
  <2>1. Queries'
    BY <1>1, <1>10, QueriesStay DEF Ordered
  <2>2. PICK d : d = SendMessage(m, spec[m].to - 1)
    OBVIOUS
  <2>3. sending' = {d} /\ d.id = m /\ d.left = spec[m].to - 1
    BY <1>10, <2>2 DEF SendMessage
  <2>4. ASSUME NEW k \in Message, k # m
        PROVE  Placed(k)' /\ Truthful(k)'
    <3>1. sends'[k] = sends[k]
      BY <1>10, <2>4 DEF SmsTypeOK
    <3>2. Same(k)
      BY <1>1, <1>8, <1>10, <2>3, <2>4, <3>1 DEF Same
    <3>. QED
      BY <1>4, <3>2, SameStays
  <2>5. sends'[m] = 1
    BY <1>7, <1>10 DEF SmsTypeOK
  <2>6. /\ sends'[m] + (spec[m].to - 1) = spec[m].to /\ delivered[m] + 1 = sends'[m]
        /\ sends'[m] <= spec[m].to
    BY <1>7, <2>5
  <2>7. Placed(m)'
    BY <1>6, <1>9, <1>10, <2>3, <2>6 DEF Placed, Unclaimed, MergeTo, MergesOf
  <2>8. Truthful(m)'
    BY <1>6, <1>9, <1>10 DEF Truthful, MergeTo, MergesOf
  <2>. QED
    BY <2>1, <2>4, <2>7, <2>8 DEF Ordered
<1>11. ASSUME NEW status \in {"successful", "failed"},
              sending' = {}, sends' = sends, toDb' = toDb \o <<Merge(m, status)>>,
              status = "successful" => spec[m].inhibit
       PROVE  Ordered'
  <2>1. /\ Queries'
        /\ \A k : Occurs(toDb', MergesOf(k)) <=> Occurs(toDb, MergesOf(k)) \/ k = m
        /\ \A k, s : Occurs(toDb', MergeTo(k, s))
                       <=> Occurs(toDb, MergeTo(k, s)) \/ (k = m /\ s = status)
    <3>1. status \in Status /\ Queries /\ db[m] # "pending"
      BY <1>6, <1>11 DEF Ordered, Status
    <3>2. UNCHANGED <<db, found, armed, crashes>> /\ toDb' = toDb \o <<Merge(m, status)>>
      BY <1>1, <1>11
    <3>. QED
      BY <3>1, <3>2, ToldStep
  <2>2. ASSUME NEW k \in Message, k # m
        PROVE  Placed(k)' /\ Truthful(k)'
    <3>1. Same(k)
      BY <1>1, <1>8, <1>11, <2>1, <2>2 DEF Same
    <3>. QED
      BY <1>4, <3>1, SameStays
  <2>3. delivered[m] < spec[m].to /\ sends[m] <= spec[m].to
    BY <1>7
  <2>4. Placed(m)'
    BY <1>6, <1>9, <1>11, <2>1, <2>3 DEF Placed, Unclaimed, MergeTo, MergesOf
  <2>5. Truthful(m)'
    <3>1. Occurs(toDb', MergeTo(m, "successful")) => status = "successful"
      BY <1>2, <2>1
    <3>. QED
      BY <1>1, <1>6, <1>11, <2>3, <3>1 DEF Truthful, MergeTo, MergesOf
  <2>. QED
    BY <2>1, <2>2, <2>4, <2>5 DEF Ordered
<1>. QED
  BY <1>1, <1>10, <1>11

(* The timer finds nothing to send, or nobody who can.                     *)
LEMMA TimerStep ==
  ASSUME SmsTypeOK, Ordered, ~db_late',
         tx_wait \/ tx_empty \/ tx_not_ready \/ restart_tx_queue_cb
  PROVE  Ordered'
<1>1. /\ UNCHANGED <<tx_queue, sending, db, spec, toDb, found, sends, delivered, crashes>>
      /\ TimerFires
  BY DEF tx_wait, tx_empty, tx_not_ready, restart_tx_queue_cb, Polls, outboxVars
<1>2. found = <<>> /\ ~Occurs(toDb, Asking)
  BY <1>1, TimersAreQuiet
<1>3. Queries'
  BY <1>1, <1>2 DEF Ordered, Queries, Asking, Find, MergesOf
<1>4. ASSUME NEW k \in Message
      PROVE  Placed(k)' /\ Truthful(k)'
  <2>1. Placed(k) /\ Truthful(k)
    BY DEF Ordered
  <2>2. Same(k)
    BY <1>1, <2>1 DEF Same, Placed
  <2>. QED
    BY <2>1, <2>2, SameStays
<1>. QED
  BY <1>3, <1>4 DEF Ordered

(* The daemon dies and starts again: what it had told db8 is still told.   *)
LEMMA CrashStep ==
  ASSUME SmsTypeOK, Ordered, Crash
  PROVE  Ordered'
<1>1. /\ tx_queue' = <<>> /\ sending' = {} /\ found' = <<>> /\ crashes' = crashes + 1
      /\ UNCHANGED <<toDb, db, spec, sends, delivered>>
  BY DEF Crash
<1>2. crashes \in Nat
  BY Bounds DEF SmsTypeOK
<1>3. \A d \in DbCall : d.op = "find" => ~Occurs(toDb, {d}) \/ ~(d.id > crashes)
  BY DEF Ordered, Queries, Occurs
<1>4. toDb \in Seq(DbCall)
  BY DEF SmsTypeOK
<1>5. ~Occurs(toDb, Asking')
  <2>1. Asking' = {[op |-> "find", id |-> crashes + 1, status |-> ""]}
    BY <1>1 DEF Asking, Find
  <2>2. ASSUME NEW i \in 1..Len(toDb), toDb[i] \in Asking'
        PROVE  FALSE
    <3>1. PICK d \in DbCall : d = toDb[i]
      BY <1>4
    <3>2. d.op = "find" /\ d.id = crashes + 1
      <4>1. d = [op |-> "find", id |-> crashes + 1, status |-> ""]
        BY <2>1, <2>2, <3>1
      <4>. QED
        BY <4>1
    <3>3. d.id > crashes
      BY <1>2, <3>2
    <3>. QED
      BY <3>1, <3>2, <3>3 DEF Ordered, Queries, Occurs
  <2>. QED
    BY <2>2 DEF Occurs
<1>6. ~Occurs(toDb, {d \in DbCall : d.op = "find" /\ d.id > crashes + 1})
  <2>1. \A d \in DbCall : d.id \in Nat
    BY DEF DbCall
  <2>2. \A d \in DbCall : d.id > crashes + 1 => d.id > crashes
    BY <1>2, <2>1
  <2>. QED
    BY <2>2 DEF Ordered, Queries, Occurs
<1>7. Queries'
  <2>1. Len(found') <= 1
    BY <1>1
  <2>2. \A L : NotFollowed(toDb, Asking', L)
    BY <1>5, Absent
  <2>. QED
    BY <1>1, <1>5, <1>6, <2>1, <2>2 DEF Queries, MergesOf
<1>8. ASSUME NEW k \in Message
      PROVE  Placed(k)' /\ Truthful(k)'
  <2>1. Placed(k) /\ Truthful(k)
    BY DEF Ordered
  <2>2. Same(k)
    BY <1>1, Nones DEF Same
  <2>. QED
    BY <2>1, <2>2, SameStays
<1>. QED
  BY <1>7, <1>8 DEF Ordered

(* A message is written.                                                   *)
LEMMA WriteStep ==
  ASSUME SmsTypeOK, Ordered, Write
  PROVE  Ordered'
<1>1. PICK m \in Message, o \in Outgoing :
        db[m] = "" /\ db' = [db EXCEPT ![m] = "pending"] /\ spec' = [spec EXCEPT ![m] = o]
  BY DEF Write
<1>2. UNCHANGED <<tx_queue, sending, toDb, found, armed, sends, delivered, crashes>>
  BY DEF Write, outboxVars
<1>3. \A k \in Message : Placed(k) /\ Truthful(k)
  BY DEF Ordered
<1>4. ~Occurs(toDb, MergesOf(m))
  BY <1>1, <1>3 DEF Placed
<1>5. Fresh(m) /\ ~Occurs(tx_queue, {m})
  BY <1>1, <1>3, <1>4 DEF Placed, Unclaimed
<1>6. db'[m] = "pending" /\ spec'[m] = o
  BY <1>1 DEF SmsTypeOK
<1>7. \A k \in Message : k # m => db'[k] = db[k] /\ spec'[k] = spec[k]
  BY <1>1 DEF SmsTypeOK
<1>8. \A k, s : Occurs(toDb, MergeTo(k, s)) => Occurs(toDb, MergesOf(k))
  BY DEF Occurs, MergeTo
<1>9. ASSUME NEW k \in Message
      PROVE  Placed(k)' /\ Truthful(k)'
  <2>1. CASE k # m
    <3>1. Same(k)
      BY <1>2, <1>3, <1>7, <2>1 DEF Same, Placed
    <3>. QED
      BY <1>3, <3>1, SameStays
  <2>2. CASE k = m
    <3>1. sends[m] <= o.to
      <4>1. sends[m] = 0 /\ o.to \in 1..MaxTo
        BY <1>5 DEF Fresh, Outgoing
      <4>. QED
        BY <4>1, Bounds
    <3>2. Fresh(m)'
      BY <1>2, <1>5 DEF Fresh
    <3>3. NotFollowed(tx_queue, {m}, {m}) /\ \A c \in sending : c.id # m
      BY <1>3, <1>5 DEF Placed, Fresh
    <3>4. \A s : ~Occurs(toDb, MergeTo(m, s))
      BY <1>4, <1>8
    <3>5. Placed(m)'
      BY <1>2, <1>4, <1>5, <1>6, <3>1, <3>2, <3>3, <3>4 DEF Placed, Unclaimed, MergeTo, MergesOf
    <3>6. Truthful(m)'
      BY <1>2, <1>6, <3>4 DEF Truthful, MergeTo, MergesOf
    <3>. QED
      BY <2>2, <3>5, <3>6
  <2>. QED
    BY <2>1, <2>2
<1>10. Queries'
  <2>1. NotFollowed(toDb, Asking, MergesOf(m))
    BY <1>4, Absent
  <2>2. \A k \in Message : db'[k] = "pending" => NotFollowed(toDb, Asking, MergesOf(k))
    BY <1>7, <2>1 DEF Ordered, Queries
  <2>3. ASSUME found # <<>>, NEW k \in Head(found)
        PROVE  db'[k] = "pending" /\ ~Occurs(toDb, MergesOf(k))
    <3>1. Head(found) \subseteq Message
      BY <2>3 DEF SmsTypeOK
    <3>2. k \in Message /\ db[k] = "pending" /\ ~Occurs(toDb, MergesOf(k))
      BY <2>3, <3>1 DEF Ordered, Queries
    <3>. QED
      BY <1>6, <1>7, <3>2
  <2>4. Asking' = Asking
    BY <1>2 DEF Asking, Find
  <2>. QED
    BY <1>2, <2>2, <2>3, <2>4 DEF Ordered, Queries, MergesOf
<1>. QED
  BY <1>9, <1>10 DEF Ordered

(* A slot comes or goes.                                                   *)
LEMMA SlotStep ==
  ASSUME Ordered, \/ SlotComesUp \/ SlotGoesDown \/ UNCHANGED smsVars
  PROVE  Ordered'
<1>1. UNCHANGED <<tx_queue, sending, db, spec, toDb, found, armed, sends, delivered, crashes>>
  BY DEF SlotComesUp, SlotGoesDown, smsVars, outboxVars
<1>2. Queries'
  BY <1>1, QueriesStay DEF Ordered
<1>3. ASSUME NEW k \in Message
      PROVE  Placed(k)' /\ Truthful(k)'
  <2>1. Placed(k) /\ Truthful(k)
    BY DEF Ordered
  <2>2. Same(k)
    BY <1>1, <2>1 DEF Same, Placed
  <2>. QED
    BY <2>1, <2>2, SameStays
<1>. QED
  BY <1>2, <1>3 DEF Ordered

(* Every step keeps the order, unless db8 is late.                         *)
LEMMA OrderStep ==
  ASSUME ~BusFaults, SmsTypeOK, Busy, Orderly, [SmsNext]_smsVars
  PROVE  Orderly'
<1>. SUFFICES ASSUME ~db_late' PROVE Ordered'
  BY DEF Orderly
<1>1. Ordered
  BY NeverLate DEF Orderly
<1>. QED
  BY <1>1, AskStep, FoundStep, WatchStep, DbStep, SendStep, TimerStep, CrashStep, WriteStep,
     SlotStep DEF SmsNext, Daemon

(* The inductive invariant of the outgoing messages.                       *)
LEMMA OutboxIsOrderly ==
  ASSUME ~BusFaults
  PROVE  SmsSpec => [](SmsTypeOK /\ Busy /\ Orderly)
<1>1. SmsInit => SmsTypeOK /\ Busy /\ Orderly
  BY InitIsTyped, InitIsOrderly DEF SmsInit, Busy
<1>2. SmsTypeOK /\ Busy /\ Orderly /\ [SmsNext]_smsVars => (SmsTypeOK /\ Busy /\ Orderly)'
  BY TypeStep, BusyStep, OrderStep
<1>. QED
  BY <1>1, <1>2, PTL DEF SmsSpec

(* No recipient is sent a message twice: not when the activity fires while *)
(* the queue is worked on, not when the daemon restarts between a merge    *)
(* and the query behind it; on a bus on which calls go out, with a db8     *)
(* that answers before the next timer.                                     *)
THEOREM NobodyIsSentTwice == SmsSpec /\ ~BusFaults => []AtMostOnce
<1>. SUFFICES ASSUME ~BusFaults
     PROVE  SmsSpec => []AtMostOnce
  OBVIOUS
<1>1. SmsTypeOK /\ Busy /\ Orderly => AtMostOnce
  BY DEF Orderly, Ordered, Placed, AtMostOnce
<1>. QED
  BY <1>1, OutboxIsOrderly, PTL

(* What the outbox says of a message is what happened to it: successful    *)
(* when every recipient was sent it, failed only when one was not.         *)
THEOREM OutboxTellsTheTruth == SmsSpec /\ ~BusFaults => []StatusIsTrue
<1>. SUFFICES ASSUME ~BusFaults
     PROVE  SmsSpec => []StatusIsTrue
  OBVIOUS
<1>1. SmsTypeOK /\ Busy /\ Orderly => StatusIsTrue
  BY DEF Orderly, Ordered, Truthful, StatusIsTrue
<1>. QED
  BY <1>1, OutboxIsOrderly, PTL
=============================================================================
