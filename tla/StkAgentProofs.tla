--------------------------- MODULE StkAgentProofs ---------------------------
(***************************************************************************)
(* Proofs about StkAgent, for any number of attempts, refusals, calls and  *)
(* objects.                                                                *)
(***************************************************************************)
EXTENDS StkAgent, FiniteSetTheorems, TLAPS

-----------------------------------------------------------------------------
(***************************************************************************)
(* What is in a channel, and in which order: a message of K; one of L      *)
(* behind every one of K; none of L behind any of K.                       *)
(***************************************************************************)
Occurs(q, K)         == \E i \in 1..Len(q) : q[i] \in K
Followed(q, K, L)    == \A i \in 1..Len(q) : q[i] \in K => \E j \in (i + 1)..Len(q) : q[j] \in L
NotFollowed(q, K, L) == \A i, j \in 1..Len(q) : q[i] \in K /\ i < j => q[j] \notin L

(* The first message is taken.                                             *)
LEMMA Tails ==
  ASSUME NEW q \in Seq(BusItem), q # <<>>
  PROVE  /\ Head(q) \in BusItem /\ Tail(q) \in Seq(BusItem)
         /\ \A K : Occurs(q, K) <=> Head(q) \in K \/ Occurs(Tail(q), K)
         /\ \A K, L : Followed(q, K, L) <=> /\ Head(q) \in K => Occurs(Tail(q), L)
                                            /\ Followed(Tail(q), K, L)
         /\ \A K, L : NotFollowed(q, K, L) <=> /\ Head(q) \in K => ~Occurs(Tail(q), L)
                                               /\ NotFollowed(Tail(q), K, L)
<1>. DEFINE p == Tail(q)
<1>1. /\ Head(q) \in BusItem /\ p \in Seq(BusItem) /\ Len(q) \in Nat \ {0} /\ Len(p) = Len(q) - 1
      /\ Head(q) = q[1] /\ \A i \in 1..Len(p) : p[i] = q[i + 1]
  OBVIOUS
<1>2. \A i \in 1..Len(q) : i = 1 \/ (i - 1 \in 1..Len(p) /\ p[i - 1] = q[i])
  BY <1>1
<1>3. \A i \in 1..Len(p) : i + 1 \in 1..Len(q)
  BY <1>1
<1>4. 1 \in 1..Len(q)
  BY <1>1
<1>. HIDE DEF p
<1>5. ASSUME NEW K
      PROVE  Occurs(q, K) <=> Head(q) \in K \/ Occurs(p, K)
  BY <1>1, <1>2, <1>3, <1>4 DEF Occurs
<1>6. ASSUME NEW K, NEW L
      PROVE  Followed(q, K, L) <=> (Head(q) \in K => Occurs(p, L)) /\ Followed(p, K, L)
  <2>1. ASSUME Followed(q, K, L)
        PROVE  (Head(q) \in K => Occurs(p, L)) /\ Followed(p, K, L)
    <3>1. ASSUME Head(q) \in K
          PROVE  Occurs(p, L)
      <4>1. PICK j \in 2..Len(q) : q[j] \in L
        BY <1>1, <1>4, <2>1, <3>1 DEF Followed
      <4>2. j - 1 \in 1..Len(p) /\ p[j - 1] = q[j]
        BY <1>1, <1>2, <4>1
      <4>. QED
        BY <4>1, <4>2 DEF Occurs
    <3>2. ASSUME NEW i \in 1..Len(p), p[i] \in K
          PROVE  \E j \in (i + 1)..Len(p) : p[j] \in L
      <4>1. PICK j \in (i + 2)..Len(q) : q[j] \in L
        BY <1>1, <1>3, <2>1, <3>2 DEF Followed
      <4>2. j - 1 \in (i + 1)..Len(p) /\ p[j - 1] = q[j]
        BY <1>1, <1>2, <3>2, <4>1
      <4>. QED
        BY <4>1, <4>2
    <3>. QED
      BY <3>1, <3>2 DEF Followed
  <2>2. ASSUME Head(q) \in K => Occurs(p, L), Followed(p, K, L),
               NEW i \in 1..Len(q), q[i] \in K
        PROVE  \E j \in (i + 1)..Len(q) : q[j] \in L
    <3>1. CASE i = 1
      <4>1. PICK j \in 1..Len(p) : p[j] \in L
        BY <1>1, <2>2, <3>1 DEF Occurs
      <4>. QED
        BY <1>1, <3>1, <4>1
    <3>2. CASE i # 1
      <4>1. PICK j \in i..Len(p) : p[j] \in L
        BY <1>1, <1>2, <2>2, <3>2 DEF Followed
      <4>2. j + 1 \in (i + 1)..Len(q) /\ q[j + 1] = p[j]
        BY <1>1, <2>2, <4>1
      <4>. QED
        BY <4>1, <4>2
    <3>. QED
      BY <3>1, <3>2
  <2>. QED
    BY <2>1, <2>2 DEF Followed
<1>7. ASSUME NEW K, NEW L
      PROVE  NotFollowed(q, K, L) <=> (Head(q) \in K => ~Occurs(p, L)) /\ NotFollowed(p, K, L)
  <2>1. ASSUME NotFollowed(q, K, L)
        PROVE  (Head(q) \in K => ~Occurs(p, L)) /\ NotFollowed(p, K, L)
    <3>1. ASSUME Head(q) \in K, NEW j \in 1..Len(p)
          PROVE  p[j] \notin L
      BY <1>1, <1>3, <1>4, <2>1, <3>1 DEF NotFollowed
    <3>2. ASSUME NEW i \in 1..Len(p), NEW j \in 1..Len(p), p[i] \in K, i < j
          PROVE  p[j] \notin L
      <4>1. i + 1 \in 1..Len(q) /\ j + 1 \in 1..Len(q) /\ i + 1 < j + 1
        BY <1>1, <3>2
      <4>2. p[i] = q[i + 1] /\ p[j] = q[j + 1]
        BY <1>1, <3>2
      <4>. QED
        BY <2>1, <3>2, <4>1, <4>2 DEF NotFollowed
    <3>. QED
      BY <3>1, <3>2 DEF NotFollowed, Occurs
  <2>2. ASSUME Head(q) \in K => ~Occurs(p, L), NotFollowed(p, K, L),
               NEW i \in 1..Len(q), NEW j \in 1..Len(q), q[i] \in K, i < j
        PROVE  q[j] \notin L
    <3>1. j - 1 \in 1..Len(p) /\ p[j - 1] = q[j]
      BY <1>1, <1>2, <2>2
    <3>2. CASE i = 1
      BY <1>1, <2>2, <3>1, <3>2 DEF Occurs
    <3>3. CASE i # 1
      <4>1. i - 1 \in 1..Len(p) /\ p[i - 1] = q[i] /\ i - 1 < j - 1
        BY <1>1, <1>2, <2>2, <3>3
      <4>. QED
        BY <2>2, <3>1, <4>1 DEF NotFollowed
    <3>. QED
      BY <3>2, <3>3
  <2>. QED
    BY <2>1, <2>2 DEF NotFollowed
<1>. QED
  BY <1>1, <1>5, <1>6, <1>7 DEF p

(* Messages are added.                                                     *)
LEMMA Cats ==
  ASSUME NEW q \in Seq(BusItem), NEW m \in Seq(BusItem)
  PROVE  /\ q \o m \in Seq(BusItem)
         /\ \A K : Occurs(q \o m, K) <=> Occurs(q, K) \/ Occurs(m, K)
         /\ \A K, L : (Followed(q, K, L) \/ Occurs(m, L)) /\ Followed(m, K, L)
                        => Followed(q \o m, K, L)
         /\ \A K, L : NotFollowed(q, K, L) /\ NotFollowed(m, K, L)
                        /\ ~(Occurs(q, K) /\ Occurs(m, L)) => NotFollowed(q \o m, K, L)
<1>. DEFINE p == q \o m
<1>1. /\ p \in Seq(BusItem) /\ Len(q) \in Nat /\ Len(m) \in Nat /\ Len(p) = Len(q) + Len(m)
      /\ \A i \in 1..Len(q) : p[i] = q[i]
      /\ \A i \in 1..Len(m) : p[Len(q) + i] = m[i]
  OBVIOUS
<1>2. \A i \in 1..Len(q) : i \in 1..Len(p)
  BY <1>1
<1>3. \A i \in 1..Len(m) : Len(q) + i \in 1..Len(p)
  BY <1>1
<1>4. \A i \in 1..Len(p) : i \in 1..Len(q) \/ (i - Len(q) \in 1..Len(m) /\ p[i] = m[i - Len(q)])
  <2>1. ASSUME NEW i \in 1..Len(p), i \notin 1..Len(q)
        PROVE  i - Len(q) \in 1..Len(m) /\ p[i] = m[i - Len(q)]
    <3>1. i - Len(q) \in 1..Len(m) /\ Len(q) + (i - Len(q)) = i
      BY <1>1, <2>1
    <3>2. p[Len(q) + (i - Len(q))] = m[i - Len(q)]
      BY <1>1, <3>1
    <3>. QED
      BY <3>1, <3>2
  <2>. QED
    BY <2>1
<1>. HIDE DEF p
<1>5. ASSUME NEW K
      PROVE  Occurs(p, K) <=> Occurs(q, K) \/ Occurs(m, K)
  <2>1. ASSUME Occurs(p, K)
        PROVE  Occurs(q, K) \/ Occurs(m, K)
    BY <1>1, <1>4, <2>1 DEF Occurs
  <2>2. ASSUME Occurs(q, K)
        PROVE  Occurs(p, K)
    BY <1>1, <1>2, <2>2 DEF Occurs
  <2>3. ASSUME Occurs(m, K)
        PROVE  Occurs(p, K)
    BY <1>1, <1>3, <2>3 DEF Occurs
  <2>. QED
    BY <2>1, <2>2, <2>3
<1>6. ASSUME NEW K, NEW L, Followed(q, K, L) \/ Occurs(m, L), Followed(m, K, L),
             NEW i \in 1..Len(p), p[i] \in K
      PROVE  \E j \in (i + 1)..Len(p) : p[j] \in L
  <2>1. CASE i \in 1..Len(q)
    <3>1. CASE Followed(q, K, L)
      <4>1. PICK j \in (i + 1)..Len(q) : q[j] \in L
        BY <1>1, <1>6, <2>1, <3>1 DEF Followed
      <4>2. j \in (i + 1)..Len(p) /\ p[j] = q[j]
        BY <1>1, <2>1, <4>1
      <4>. QED
        BY <4>1, <4>2
    <3>2. CASE Occurs(m, L)
      <4>1. PICK j \in 1..Len(m) : m[j] \in L
        BY <3>2 DEF Occurs
      <4>2. Len(q) + j \in (i + 1)..Len(p) /\ p[Len(q) + j] = m[j]
        BY <1>1, <2>1, <4>1
      <4>. QED
        BY <4>1, <4>2
    <3>. QED
      BY <1>6, <3>1, <3>2
  <2>2. CASE i \notin 1..Len(q)
    <3>. DEFINE k == i - Len(q)
    <3>1. k \in 1..Len(m) /\ p[i] = m[k]
      BY <1>4, <2>2
    <3>2. PICK j \in (k + 1)..Len(m) : m[j] \in L
      BY <1>6, <3>1 DEF Followed
    <3>3. Len(q) + j \in (i + 1)..Len(p) /\ p[Len(q) + j] = m[j]
      BY <1>1, <1>6, <3>1, <3>2
    <3>. QED
      BY <3>2, <3>3
  <2>. QED
    BY <2>1, <2>2
<1>7. ASSUME NEW K, NEW L, NotFollowed(q, K, L), NotFollowed(m, K, L),
             ~(Occurs(q, K) /\ Occurs(m, L)),
             NEW i \in 1..Len(p), NEW j \in 1..Len(p), p[i] \in K, i < j
      PROVE  p[j] \notin L
  <2>1. CASE i \in 1..Len(q) /\ j \in 1..Len(q)
    BY <1>1, <1>7, <2>1 DEF NotFollowed
  <2>2. CASE i \in 1..Len(q) /\ j \notin 1..Len(q)
    BY <1>1, <1>4, <1>7, <2>2 DEF Occurs
  <2>3. CASE i \notin 1..Len(q)
    <3>. DEFINE k == i - Len(q)
                n == j - Len(q)
    <3>1. k \in 1..Len(m) /\ p[i] = m[k]
      BY <1>4, <2>3
    <3>2. j \notin 1..Len(q)
      BY <1>1, <1>7, <2>3
    <3>3. n \in 1..Len(m) /\ p[j] = m[n]
      BY <1>4, <3>2
    <3>4. k < n
      BY <1>1, <1>7
    <3>. QED
      BY <1>7, <3>1, <3>3, <3>4 DEF NotFollowed
  <2>. QED
    BY <2>1, <2>2, <2>3
<1>. QED
  BY <1>1, <1>5, <1>6, <1>7 DEF p, Followed, NotFollowed

(* No message.                                                             *)
LEMMA Nones ==
  /\ <<>> \in Seq(BusItem)
  /\ \A K : ~Occurs(<<>>, K)
  /\ \A K, L : Followed(<<>>, K, L) /\ NotFollowed(<<>>, K, L)
BY DEF Occurs, Followed, NotFollowed

(* One message.                                                            *)
LEMMA Ones ==
  ASSUME NEW x \in BusItem
  PROVE  /\ <<x>> \in Seq(BusItem)
         /\ \A K : Occurs(<<x>>, K) <=> x \in K
         /\ \A K, L : NotFollowed(<<x>>, K, L)
<1>1. <<x>> \in Seq(BusItem) /\ Len(<<x>>) = 1 /\ <<x>>[1] = x
  OBVIOUS
<1>2. \A i \in 1..Len(<<x>>) : i = 1
  BY <1>1
<1>. QED
  BY <1>1, <1>2 DEF Occurs, NotFollowed

(* Nothing follows what is not there.                                      *)
LEMMA Absent ==
  ASSUME NEW q
  PROVE  \A K, L : (~Occurs(q, K) => Followed(q, K, L) /\ NotFollowed(q, K, L))
                   /\ (~Occurs(q, L) => NotFollowed(q, K, L))
BY DEF Occurs, Followed, NotFollowed

-----------------------------------------------------------------------------
(***************************************************************************)
(* The messages the properties are about.                                  *)
(***************************************************************************)
Losing == {m \in BusItem : m.kind \in {"release", "interfaces"} /\ ~m.flag}
Killing(s) == {m \in BusItem : \/ m.kind \in {"cancel", "release"} /\ m.flag = s
                               \/ m.kind = "interfaces" /\ ~m.flag}
Registering(n) == {m \in BusItem : m.kind = "register" /\ m.n = n}
Registered(n)  == {m \in BusItem : m.kind = "registered" /\ m.n = n}
Granted(n)     == {m \in Registered(n) : m.flag}
Unregistering  == {m \in BusItem : m.kind = "unregister"}
Calling(n)     == {m \in BusItem : m.kind = "call" /\ m.n = n}
CallOf(n, s)   == {m \in Calling(n) : m.flag = s}
Replying(n)    == {m \in BusItem : m.kind = "reply" /\ m.n = n}

(* An object that is gone waits for nothing; what it waits for while it    *)
(* lives; what only ofono with the interface has.                          *)
Waits ==
  /\ stk = 0 => /\ ~agent_registered /\ ~register_pending /\ ~retry_source
                /\ pending = {}
  /\ ~(register_pending /\ retry_source) /\ ~(agent_registered /\ retry_source)
  /\ ~(agent_registered /\ register_pending)
  /\ stk # 0 => agent_registered \/ register_pending \/ retry_source \/ retry_attempts = RetryMax
  /\ ~iface => ~holds /\ ~session /\ call = NoCall

(* Numbers are given out once.                                             *)
Numbers ==
  /\ call.n \in 0..calls /\ (call.n = 0 => call = NoCall)
  /\ \A r \in pending : r.n \in 1..calls
  /\ \A r, s \in pending : r = s
  /\ \A n \in Nat \ (1..instances) : /\ ~Occurs(toOfono, Registering(n))
                                     /\ ~Occurs(toDaemon, Registered(n))
  /\ \A n \in Nat \ (1..calls) : /\ ~Occurs(toDaemon, Calling(n))
                                 /\ ~Occurs(toOfono, Replying(n))

(* The one RegisterAgent an object waits for.                              *)
Registration ==
  /\ stk # 0 => (register_pending <=> \/ Occurs(toOfono, Registering(stk))
                                      \/ Occurs(toDaemon, Registered(stk)))
  /\ ~(Occurs(toOfono, Registering(stk)) /\ Occurs(toDaemon, Registered(stk)))
  /\ NotFollowed(toOfono, Registering(stk), Registering(stk))
  /\ NotFollowed(toDaemon, Registered(stk), Registered(stk))

(* What is known of the default agent: it is held, or the news of the loss *)
(* follows that of the grant.  UnregisterAgent comes from an earlier       *)
(* object and reaches ofono before the RegisterAgent of the present one.   *)
Belief ==
  /\ agent_registered => holds \/ Occurs(toDaemon, Losing)
  /\ holds \/ Followed(toDaemon, Granted(stk), Losing)
  /\ Occurs(toOfono, Unregistering) => /\ ~agent_registered
                                       /\ ~Occurs(toDaemon, Registered(stk))
  /\ NotFollowed(toOfono, Registering(stk), Unregistering)

(* ofono waits for the answer to a call, or the end of the call follows    *)
(* it; a reply is to a call that was taken, and not to one that is         *)
(* pending.                                                                *)
Calls ==
  /\ \A r \in pending : r # call => Occurs(toDaemon, Killing(r.session))
  /\ \A n \in Nat, s \in BOOLEAN :
       [n |-> n, session |-> s] # call => Followed(toDaemon, CallOf(n, s), Killing(s))
  /\ \A n \in Nat : NotFollowed(toDaemon, Calling(n), Calling(n))
  /\ \A r \in pending : ~Occurs(toDaemon, Calling(r.n)) /\ ~Occurs(toOfono, Replying(r.n))
  /\ \A n \in Nat : Occurs(toOfono, Replying(n)) => ~Occurs(toDaemon, Calling(n))

IInv == AgentTypeOK /\ Waits /\ Numbers /\ Registration /\ Belief /\ Calls

-----------------------------------------------------------------------------
(***************************************************************************)
(* What goes out.                                                          *)
(***************************************************************************)
Reply(n) == [kind |-> "reply", n |-> n, flag |-> FALSE]

(* A reply is of no other kind.                                            *)
LEMMA OfReply ==
  ASSUME NEW n \in Nat, NEW x, x = Reply(n)
  PROVE  /\ x \in BusItem /\ x \notin Losing /\ x \notin Unregistering
         /\ \A s : x \notin Killing(s)
         /\ \A k : /\ x \notin Registering(k) /\ x \notin Registered(k) /\ x \notin Granted(k)
                   /\ x \notin Calling(k)
                   /\ x \in Replying(k) <=> k = n
BY DEF Reply, BusItem, Losing, Unregistering, Killing, Registering, Registered, Granted, Calling,
       Replying

(* A set with one element at most is a sequence.                           *)
LEMMA OneInSequence ==
  ASSUME NEW M, \A x, y \in M : x = y
  PROVE  Cardinality(M) \in Nat /\ SetToSeq(M) \in [1..Cardinality(M) -> M]
<1>1. CASE M = {}
  <2>1. Cardinality(M) = 0
    BY <1>1, FS_EmptySet
  <2>. DEFINE f == [i \in 1..0 |-> i]
  <2>2. 1..0 = {}
    OBVIOUS
  <2>3. f \in [1..Cardinality(M) -> M]
    BY <2>1, <2>2
  <2>4. IsInjective(f)
    BY <2>2 DEF IsInjective
  <2>. HIDE DEF f
  <2>5. SetToSeq(M) \in [1..Cardinality(M) -> M]
    BY <2>3, <2>4, Zenon DEF SetToSeq
  <2>. QED
    BY <2>1, <2>5
<1>2. CASE M # {}
  <2>1. PICK x \in M : TRUE
    BY <1>2
  <2>2. M = {x}
    BY <2>1
  <2>3. Cardinality(M) = 1
    BY <2>2, FS_Singleton
  <2>. DEFINE f == [i \in 1..1 |-> x]
  <2>4. f \in [1..Cardinality(M) -> M]
    BY <2>1, <2>3
  <2>5. IsInjective(f)
    BY DEF IsInjective
  <2>. HIDE DEF f
  <2>6. SetToSeq(M) \in [1..Cardinality(M) -> M]
    BY <2>4, <2>5, Zenon DEF SetToSeq
  <2>. QED
    BY <2>3, <2>6
<1>. QED
  BY <1>1, <1>2

(* What the end of requests sends: their replies and nothing else.         *)
LEMMA RepliesAre ==
  ASSUME AgentTypeOK, Numbers, NEW T, T \subseteq pending
  PROVE  /\ Replies(T) \in Seq(BusItem)
         /\ \A K : Occurs(Replies(T), K) => \E r \in T : Reply(r.n) \in K
<1>. DEFINE M == {Reply(r.n) : r \in T}
            s == SetToSeq(M)
<1>1. \A r \in T : r.n \in Nat
  BY DEF AgentTypeOK, AgentCall
<1>2. \A r \in T : Reply(r.n) \in BusItem
  BY <1>1, OfReply
<1>3. M \subseteq BusItem
  BY <1>2
<1>4. \A x, y \in M : x = y
  BY DEF Numbers
<1>5. Replies(T) = s
  BY DEF Replies, Msg, Reply
<1>6. \A x \in M : \E r \in T : x = Reply(r.n)
  OBVIOUS
<1>. HIDE DEF M
<1>7. Cardinality(M) \in Nat /\ s \in [1..Cardinality(M) -> M]
  BY <1>4, OneInSequence
<1>. HIDE DEF s
<1>8. s \in Seq(BusItem) /\ \A i \in 1..Len(s) : s[i] \in M
  BY <1>3, <1>7
<1>. QED
  BY <1>5, <1>6, <1>8 DEF Occurs

(* Replies say nothing of the agent.                                       *)
LEMMA RepliesOnly ==
  ASSUME AgentTypeOK, Numbers, NEW T, T \subseteq pending
  PROVE  /\ ~Occurs(Replies(T), Unregistering)
         /\ \A k : ~Occurs(Replies(T), Registering(k))
         /\ \A k : Occurs(Replies(T), Replying(k)) => \E r \in T : k = r.n
<1>. DEFINE out == Replies(T)
<1>1. \A r \in T : r.n \in Nat
  BY DEF AgentTypeOK, AgentCall
<1>5. \A K : Occurs(out, K) => \E r \in T : Reply(r.n) \in K
  BY RepliesAre
<1>6. \A r \in T : /\ Reply(r.n) \notin Unregistering
                   /\ \A k : /\ Reply(r.n) \notin Registering(k)
                             /\ Reply(r.n) \in Replying(k) <=> k = r.n
  BY <1>1, OfReply
<1>. HIDE DEF out
<1>2. ~Occurs(out, Unregistering)
  BY <1>5, <1>6
<1>3. ASSUME NEW k
      PROVE  ~Occurs(out, Registering(k))
  <2>1. Occurs(out, Registering(k)) => \E r \in T : Reply(r.n) \in Registering(k)
    BY <1>5, Zenon
  <2>. QED
    BY <1>6, <2>1, Zenon
<1>4. ASSUME NEW k, Occurs(out, Replying(k))
      PROVE  \E r \in T : k = r.n
  <2>1. \E r \in T : Reply(r.n) \in Replying(k)
    BY <1>4, <1>5, Zenon
  <2>. QED
    BY <1>6, <2>1, Zenon
<1>. QED
  BY <1>2, <1>3, <1>4 DEF out

-----------------------------------------------------------------------------
(***************************************************************************)
(* The daemon's steps.                                                     *)
(***************************************************************************)
(* The interface has come: a new object asks ofono to take its agent.      *)
LEMMA CreateStep ==
  ASSUME IInv, Arrives("interfaces"), Consume, stk = 0, instances < MaxInstances,
         ofono_stk_create, moved' \in BOOLEAN,
         UNCHANGED <<iface, holds, session, call, refusals, changes, calls>>
  PROVE  IInv'
<1>. DEFINE x == Msg("register", instances + 1, FALSE)
<1>1. /\ x \in BusItem /\ x \notin Unregistering
      /\ \A k : (x \in Registering(k) <=> k = instances + 1) /\ x \notin Replying(k)
  BY DEF IInv, AgentTypeOK, Msg, BusItem, Unregistering, Registering, Replying
<1>2. /\ <<x>> \in Seq(BusItem)
      /\ \A K : Occurs(<<x>>, K) <=> x \in K
      /\ \A K, L : NotFollowed(<<x>>, K, L)
  BY <1>1, Ones
<1>3. /\ toOfono' = toOfono \o <<x>> /\ toOfono' \in Seq(BusItem)
      /\ \A K : Occurs(toOfono', K) <=> Occurs(toOfono, K) \/ x \in K
      /\ \A K, L : NotFollowed(toOfono, K, L) /\ ~(Occurs(toOfono, K) /\ x \in L)
                     => NotFollowed(toOfono', K, L)
  BY <1>2, Cats DEF IInv, AgentTypeOK, ofono_stk_create, Send
<1>4. /\ toDaemon' \in Seq(BusItem)
      /\ \A K : Occurs(toDaemon', K) => Occurs(toDaemon, K)
      /\ \A K, L : Followed(toDaemon, K, L) => Followed(toDaemon', K, L)
      /\ \A K, L : NotFollowed(toDaemon, K, L) => NotFollowed(toDaemon', K, L)
  BY Tails DEF IInv, AgentTypeOK, Arrives, Consume
<1>. HIDE DEF x
<1>5. /\ stk' = instances + 1 /\ instances' = instances + 1 /\ instances \in Nat
      /\ agent_registered' = FALSE /\ register_pending' = TRUE /\ retry_source' = FALSE
      /\ retry_attempts' = 0
      /\ pending' = {}
      /\ UNCHANGED <<iface, holds, session, call, refusals, changes, calls>>
  BY DEF IInv, Waits, AgentTypeOK, ofono_stk_create, ofonoVars
<1>6. AgentTypeOK'
  <2>1. stk' \in 0..MaxInstances /\ instances' \in stk'..MaxInstances /\ retry_attempts' \in 0..RetryMax
    BY <1>5, StkAgentAssumption DEF IInv, AgentTypeOK
  <2>2. pending' \subseteq AgentCall
    BY <1>5
  <2>3. call' \in AgentCall /\ refusals' \in 0..MaxRefusals /\ changes' \in 0..MaxChanges /\ calls' \in 0..MaxCalls
    BY <1>5 DEF IInv, AgentTypeOK
  <2>. QED
    BY <1>3, <1>4, <1>5, <2>1, <2>2, <2>3 DEF IInv, AgentTypeOK
<1>7. Waits'
  BY <1>5 DEF IInv, Waits
<1>8. Numbers'
  BY <1>1, <1>3, <1>4, <1>5 DEF IInv, Numbers
<1>9. /\ ~Occurs(toOfono, Registering(instances + 1)) /\ ~Occurs(toDaemon, Registered(instances + 1))
  BY <1>5 DEF IInv, Numbers
<1>10. Registration'
  BY <1>1, <1>3, <1>4, <1>5, <1>9, Absent DEF Registration
<1>11. ~Occurs(toDaemon', Granted(stk'))
  BY <1>4, <1>5, <1>9 DEF Occurs, Granted
<1>12. Belief'
  BY <1>1, <1>3, <1>4, <1>5, <1>9, <1>11, Absent DEF IInv, Belief
<1>13. Calls'
  BY <1>1, <1>3, <1>4, <1>5 DEF IInv, Calls
<1>. QED
  BY <1>6, <1>7, <1>8, <1>10, <1>12, <1>13 DEF IInv

(* A message is taken off the daemon's channel.                            *)
LEMMA Consumes ==
  ASSUME AgentTypeOK, toDaemon # <<>>, Consume
  PROVE  /\ Head(toDaemon) \in BusItem /\ toDaemon' \in Seq(BusItem)
         /\ \A K : Occurs(toDaemon, K) <=> Head(toDaemon) \in K \/ Occurs(toDaemon', K)
         /\ \A K, L : Followed(toDaemon, K, L) => /\ Head(toDaemon) \in K => Occurs(toDaemon', L)
                                                  /\ Followed(toDaemon', K, L)
         /\ \A K, L : NotFollowed(toDaemon, K, L)
                        => /\ Head(toDaemon) \in K => ~Occurs(toDaemon', L)
                           /\ NotFollowed(toDaemon', K, L)
BY Tails DEF AgentTypeOK, Consume

(* Messages that are no RegisterAgent and no UnregisterAgent go out.       *)
LEMMA SendsOthers ==
  ASSUME AgentTypeOK, NEW m \in Seq(BusItem), Send(m),
         \A k : ~Occurs(m, Registering(k)), ~Occurs(m, Unregistering)
  PROVE  /\ toOfono' \in Seq(BusItem)
         /\ \A K : Occurs(toOfono', K) <=> Occurs(toOfono, K) \/ Occurs(m, K)
         /\ \A k : Occurs(toOfono', Registering(k)) <=> Occurs(toOfono, Registering(k))
         /\ Occurs(toOfono', Unregistering) <=> Occurs(toOfono, Unregistering)
         /\ \A k : /\ NotFollowed(toOfono, Registering(k), Registering(k))
                        => NotFollowed(toOfono', Registering(k), Registering(k))
                   /\ NotFollowed(toOfono, Registering(k), Unregistering)
                        => NotFollowed(toOfono', Registering(k), Unregistering)
<1>1. toOfono \in Seq(BusItem) /\ toOfono' = toOfono \o m
  BY DEF AgentTypeOK, Send
<1>2. /\ toOfono' \in Seq(BusItem)
      /\ \A K : Occurs(toOfono', K) <=> Occurs(toOfono, K) \/ Occurs(m, K)
  BY <1>1, Cats
<1>3. \A K, L : NotFollowed(toOfono, K, L) /\ NotFollowed(m, K, L) /\ ~Occurs(m, L)
                  => NotFollowed(toOfono', K, L)
  BY <1>1, Cats
<1>4. \A k : NotFollowed(m, Registering(k), Registering(k))
             /\ NotFollowed(m, Registering(k), Unregistering)
  BY Absent, Zenon
<1>5. \A k : Occurs(toOfono', Registering(k)) <=> Occurs(toOfono, Registering(k))
  BY <1>2, Zenon
<1>6. Occurs(toOfono', Unregistering) <=> Occurs(toOfono, Unregistering)
  BY <1>2, Zenon
<1>7. ASSUME NEW k
      PROVE  /\ NotFollowed(toOfono, Registering(k), Registering(k))
                  => NotFollowed(toOfono', Registering(k), Registering(k))
             /\ NotFollowed(toOfono, Registering(k), Unregistering)
                  => NotFollowed(toOfono', Registering(k), Unregistering)
  BY <1>3, <1>4, Zenon
<1>. QED
  BY <1>2, <1>5, <1>6, <1>7

(* A message that is nothing to anybody is taken, and nothing else.        *)
LEMMA TakeStep ==
  ASSUME IInv, toDaemon # <<>>, Consume, UNCHANGED <<daemonVars, toOfono>>, moved' \in BOOLEAN,
         UNCHANGED <<iface, holds, session, call, refusals, changes, calls>>,
         Head(toDaemon) \in Losing => stk = 0,
         \A s : Head(toDaemon) \in Killing(s) => stk = 0,
         Head(toDaemon) \notin Registered(stk)
  PROVE  IInv'
<1>1. /\ Head(toDaemon) \in BusItem /\ toDaemon' \in Seq(BusItem)
      /\ \A K : Occurs(toDaemon, K) <=> Head(toDaemon) \in K \/ Occurs(toDaemon', K)
      /\ \A K, L : Followed(toDaemon, K, L) => Followed(toDaemon', K, L)
      /\ \A K, L : NotFollowed(toDaemon, K, L) => NotFollowed(toDaemon', K, L)
  BY Consumes DEF IInv
<1>2. UNCHANGED <<stk, agent_registered, register_pending, retry_source, retry_attempts,
                  pending, instances, iface, holds, session, call, refusals, changes, calls,
                  toOfono>>
  BY DEF daemonVars, ofonoVars
<1>3. AgentTypeOK'
  BY <1>1, <1>2 DEF IInv, AgentTypeOK
<1>4. Waits'
  BY <1>2 DEF IInv, Waits
<1>5. Numbers'
  BY <1>1, <1>2 DEF IInv, Numbers
<1>6. Registration'
  BY <1>1, <1>2 DEF IInv, Registration
<1>7. Belief'
  <2>1. agent_registered => Head(toDaemon) \notin Losing
    BY DEF IInv, Waits
  <2>. QED
    BY <1>1, <1>2, <2>1 DEF IInv, Belief
<1>8. Calls'
  <2>1. \A r \in pending : Head(toDaemon) \notin Killing(r.session)
    BY DEF IInv, Waits
  <2>. QED
    BY <1>1, <1>2, <2>1 DEF IInv, Calls
<1>. QED
  BY <1>3, <1>4, <1>5, <1>6, <1>7, <1>8 DEF IInv

(* The object goes, on the news that the interface has or with the slot.   *)
LEMMA FreeStep ==
  ASSUME IInv, stk # 0, ofono_stk_free, changes' \in 0..MaxChanges, moved' \in BOOLEAN,
         UNCHANGED <<iface, holds, session, call, refusals, calls>>,
         \/ toDaemon # <<>> /\ Consume
         \/ UNCHANGED toDaemon
  PROVE  IInv'
<1>. DEFINE u == IF agent_registered THEN <<Msg("unregister", stk, FALSE)>> ELSE <<>>
            m == u \o Replies(pending)
<1>1. /\ stk' = 0 /\ pending' = {} /\ agent_registered' = FALSE /\ register_pending' = FALSE
      /\ retry_source' = FALSE /\ retry_attempts' = 0 /\ instances' = instances
      /\ toOfono' = toOfono \o m
  BY DEF ofono_stk_free, Send
<1>2. /\ u \in Seq(BusItem)
      /\ \A k : ~Occurs(u, Registering(k)) /\ ~Occurs(u, Replying(k))
  <2>1. CASE agent_registered
    <3>. DEFINE x == Msg("unregister", stk, FALSE)
    <3>1. x \in BusItem /\ \A k : x \notin Registering(k) /\ x \notin Replying(k)
      BY DEF IInv, AgentTypeOK, Msg, BusItem, Registering, Replying
    <3>2. u = <<x>>
      BY <2>1
    <3>. HIDE DEF x, u
    <3>3. <<x>> \in Seq(BusItem) /\ \A K : Occurs(<<x>>, K) <=> x \in K
      BY <3>1, Ones
    <3>. QED
      BY <3>1, <3>2, <3>3, Zenon
  <2>2. CASE ~agent_registered
    <3>1. u = <<>>
      BY <2>2
    <3>. HIDE DEF u
    <3>. QED
      BY <3>1, Nones, Zenon
  <2>. QED
    BY <2>1, <2>2
<1>3. /\ Replies(pending) \in Seq(BusItem)
      /\ \A k : ~Occurs(Replies(pending), Registering(k))
      /\ \A k : Occurs(Replies(pending), Replying(k)) => \E r \in pending : k = r.n
  BY RepliesAre, RepliesOnly DEF IInv
<1>. HIDE DEF u
<1>4. /\ m \in Seq(BusItem)
      /\ \A K : Occurs(m, K) <=> Occurs(u, K) \/ Occurs(Replies(pending), K)
  BY <1>2, <1>3, Cats, Zenon
<1>. HIDE DEF m
<1>5. /\ toOfono' \in Seq(BusItem)
      /\ \A K : Occurs(toOfono', K) <=> Occurs(toOfono, K) \/ Occurs(m, K)
  BY <1>1, <1>4, Cats DEF IInv, AgentTypeOK
<1>6. /\ \A k : Occurs(toOfono', Registering(k)) => Occurs(toOfono, Registering(k))
      /\ \A k : Occurs(toOfono', Replying(k))
                  => Occurs(toOfono, Replying(k)) \/ \E r \in pending : k = r.n
  BY <1>2, <1>3, <1>4, <1>5, Zenon
<1>7. /\ toDaemon' \in Seq(BusItem)
      /\ \A K : Occurs(toDaemon', K) => Occurs(toDaemon, K)
      /\ \A K, L : Followed(toDaemon, K, L) => Followed(toDaemon', K, L)
      /\ \A K, L : NotFollowed(toDaemon, K, L) => NotFollowed(toDaemon', K, L)
  BY Consumes DEF IInv, AgentTypeOK
<1>8. /\ ~Occurs(toOfono', Registering(0)) /\ ~Occurs(toDaemon', Registered(0))
      /\ ~Occurs(toDaemon', Granted(0))
  <2>1. ~Occurs(toOfono, Registering(0)) /\ ~Occurs(toDaemon, Registered(0))
    BY DEF IInv, Numbers
  <2>2. ~Occurs(toOfono', Registering(0)) /\ ~Occurs(toDaemon', Registered(0))
    BY <1>6, <1>7, <2>1, Zenon
  <2>. QED
    BY <2>2 DEF Occurs, Granted
<1>9. AgentTypeOK'
  <2>1. instances' \in stk'..MaxInstances /\ stk' \in 0..MaxInstances /\ retry_attempts' \in 0..RetryMax
    BY <1>1, StkAgentAssumption DEF IInv, AgentTypeOK
  <2>2. pending' \subseteq AgentCall
    BY <1>1
  <2>. QED
    BY <1>1, <1>5, <1>7, <2>1, <2>2 DEF IInv, AgentTypeOK
<1>10. Waits'
  BY <1>1 DEF IInv, Waits
<1>11. Numbers'
  <2>1. ASSUME NEW n \in Nat \ (1..calls)
        PROVE  ~Occurs(toDaemon', Calling(n)) /\ ~Occurs(toOfono', Replying(n))
    <3>1. ~Occurs(toDaemon, Calling(n)) /\ ~Occurs(toOfono, Replying(n)) /\ \A r \in pending : n # r.n
      BY DEF IInv, Numbers
    <3>. QED
      BY <1>6, <1>7, <3>1, Zenon
  <2>2. ASSUME NEW n \in Nat \ (1..instances)
        PROVE  ~Occurs(toDaemon', Registered(n)) /\ ~Occurs(toOfono', Registering(n))
    <3>1. ~Occurs(toDaemon, Registered(n)) /\ ~Occurs(toOfono, Registering(n))
      BY DEF IInv, Numbers
    <3>. QED
      BY <1>6, <1>7, <3>1, Zenon
  <2>. QED
    BY <1>1, <2>1, <2>2 DEF IInv, Numbers
<1>12. Registration'
  BY <1>1, <1>8, Absent DEF Registration
<1>13. Belief'
  BY <1>1, <1>8, Absent DEF Belief
<1>14. Calls'
  <2>1. ASSUME NEW n \in Nat, Occurs(toOfono', Replying(n))
        PROVE  ~Occurs(toDaemon', Calling(n))
    <3>1. CASE Occurs(toOfono, Replying(n))
      <4>1. ~Occurs(toDaemon, Calling(n))
        BY <3>1 DEF IInv, Calls
      <4>. QED
        BY <1>7, <4>1, Zenon
    <3>2. CASE \E r \in pending : n = r.n
      <4>1. ~Occurs(toDaemon, Calling(n))
        BY <3>2 DEF IInv, Calls
      <4>. QED
        BY <1>7, <4>1, Zenon
    <3>. QED
      BY <1>6, <2>1, <3>1, <3>2
  <2>2. ASSUME NEW n \in Nat, NEW s \in BOOLEAN, [n |-> n, session |-> s] # call
        PROVE  Followed(toDaemon', CallOf(n, s), Killing(s))
    BY <1>7, <2>2 DEF IInv, Calls
  <2>3. ASSUME NEW n \in Nat
        PROVE  NotFollowed(toDaemon', Calling(n), Calling(n))
    BY <1>7 DEF IInv, Calls
  <2>. QED
    BY <1>1, <2>1, <2>2, <2>3 DEF Calls
<1>. QED
  BY <1>9, <1>10, <1>11, <1>12, <1>13, <1>14 DEF IInv

(* What a step leaves of the registration when it concerns something else. *)
LEMMA AgentKept ==
  ASSUME IInv, UNCHANGED <<stk, agent_registered, register_pending, retry_source, retry_attempts>>,
         holds' = holds,
         \A k : Occurs(toOfono', Registering(k)) <=> Occurs(toOfono, Registering(k)),
         Occurs(toOfono', Unregistering) <=> Occurs(toOfono, Unregistering),
         \A k : /\ NotFollowed(toOfono, Registering(k), Registering(k))
                     => NotFollowed(toOfono', Registering(k), Registering(k))
                /\ NotFollowed(toOfono, Registering(k), Unregistering)
                     => NotFollowed(toOfono', Registering(k), Unregistering),
         \/ UNCHANGED toDaemon
         \/ /\ toDaemon # <<>> /\ Consume
            /\ Head(toDaemon) \notin Losing /\ Head(toDaemon) \notin Registered(stk)
  PROVE  Registration' /\ Belief'
<1>1. /\ \A K : Head(toDaemon) \notin K \/ UNCHANGED toDaemon
                  => (Occurs(toDaemon', K) <=> Occurs(toDaemon, K))
      /\ \A K, L : Followed(toDaemon, K, L) => Followed(toDaemon', K, L)
      /\ \A K, L : NotFollowed(toDaemon, K, L) => NotFollowed(toDaemon', K, L)
  BY Consumes DEF IInv
<1>2. /\ Occurs(toDaemon', Losing) <=> Occurs(toDaemon, Losing)
      /\ Occurs(toDaemon', Registered(stk)) <=> Occurs(toDaemon, Registered(stk))
  BY <1>1, Zenon
<1>3. Registration'
  BY <1>1, <1>2 DEF IInv, Registration
<1>4. Belief'
  BY <1>1, <1>2 DEF IInv, Belief
<1>. QED
  BY <1>3, <1>4

(* Requests end and are replied to, on a message that ends them or on the  *)
(* user's answer.                                                          *)
LEMMA EndStep ==
  ASSUME IInv, NEW T, T \subseteq pending, pending' = pending \ T, Send(Replies(T)),
         UNCHANGED <<stk, instances, ofonoVars>>,
         \/ UNCHANGED toDaemon
         \/ /\ toDaemon # <<>> /\ Consume
            /\ \A r \in pending \ T : Head(toDaemon) \notin Killing(r.session)
  PROVE  /\ toOfono' \in Seq(BusItem) /\ toDaemon' \in Seq(BusItem) /\ pending' \subseteq AgentCall
         /\ Numbers' /\ Calls'
         /\ \A k : Occurs(toOfono', Registering(k)) <=> Occurs(toOfono, Registering(k))
         /\ Occurs(toOfono', Unregistering) <=> Occurs(toOfono, Unregistering)
         /\ \A k : /\ NotFollowed(toOfono, Registering(k), Registering(k))
                        => NotFollowed(toOfono', Registering(k), Registering(k))
                   /\ NotFollowed(toOfono, Registering(k), Unregistering)
                        => NotFollowed(toOfono', Registering(k), Unregistering)
<1>. DEFINE m == Replies(T)
<1>1. /\ m \in Seq(BusItem) /\ ~Occurs(m, Unregistering)
      /\ \A k : ~Occurs(m, Registering(k))
      /\ \A k : Occurs(m, Replying(k)) => \E r \in T : k = r.n
  BY RepliesAre, RepliesOnly DEF IInv
<1>2. Send(m)
  OBVIOUS
<1>. HIDE DEF m
<1>3. /\ toOfono' \in Seq(BusItem)
      /\ \A K : Occurs(toOfono', K) <=> Occurs(toOfono, K) \/ Occurs(m, K)
      /\ \A k : Occurs(toOfono', Registering(k)) <=> Occurs(toOfono, Registering(k))
      /\ Occurs(toOfono', Unregistering) <=> Occurs(toOfono, Unregistering)
      /\ \A k : /\ NotFollowed(toOfono, Registering(k), Registering(k))
                     => NotFollowed(toOfono', Registering(k), Registering(k))
                /\ NotFollowed(toOfono, Registering(k), Unregistering)
                     => NotFollowed(toOfono', Registering(k), Unregistering)
  BY <1>1, <1>2, SendsOthers DEF IInv
<1>4. \A k : Occurs(toOfono', Replying(k)) => Occurs(toOfono, Replying(k)) \/ \E r \in T : k = r.n
  BY <1>1, <1>3, Zenon
<1>5. /\ toDaemon' \in Seq(BusItem)
      /\ \A K : Occurs(toDaemon', K) => Occurs(toDaemon, K)
      /\ \A K : Head(toDaemon) \notin K \/ UNCHANGED toDaemon
                  => (Occurs(toDaemon', K) <=> Occurs(toDaemon, K))
      /\ \A K, L : Followed(toDaemon, K, L) => Followed(toDaemon', K, L)
      /\ \A K, L : NotFollowed(toDaemon, K, L) => NotFollowed(toDaemon', K, L)
  BY Consumes DEF IInv, AgentTypeOK
<1>6. UNCHANGED <<iface, moved, holds, session, call, refusals, changes, calls>>
  BY DEF ofonoVars
<1>7. pending' \subseteq AgentCall
  BY DEF IInv, AgentTypeOK
<1>8. Numbers'
  <2>1. ASSUME NEW n \in Nat \ (1..calls)
        PROVE  ~Occurs(toDaemon', Calling(n)) /\ ~Occurs(toOfono', Replying(n))
    <3>1. ~Occurs(toDaemon, Calling(n)) /\ ~Occurs(toOfono, Replying(n)) /\ \A r \in T : n # r.n
      BY DEF IInv, Numbers
    <3>. QED
      BY <1>4, <1>5, <3>1, Zenon
  <2>2. ASSUME NEW n \in Nat \ (1..instances)
        PROVE  ~Occurs(toDaemon', Registered(n)) /\ ~Occurs(toOfono', Registering(n))
    <3>1. ~Occurs(toDaemon, Registered(n)) /\ ~Occurs(toOfono, Registering(n))
      BY DEF IInv, Numbers
    <3>. QED
      BY <1>3, <1>5, <3>1, Zenon
  <2>. QED
    BY <1>6, <2>1, <2>2 DEF IInv, Numbers
<1>9. Calls'
  <2>1. ASSUME NEW n \in Nat, Occurs(toOfono', Replying(n))
        PROVE  ~Occurs(toDaemon', Calling(n))
    <3>1. CASE Occurs(toOfono, Replying(n))
      <4>1. ~Occurs(toDaemon, Calling(n))
        BY <3>1 DEF IInv, Calls
      <4>. QED
        BY <1>5, <4>1, Zenon
    <3>2. CASE \E r \in T : n = r.n
      <4>1. ~Occurs(toDaemon, Calling(n))
        BY <3>2 DEF IInv, Calls
      <4>. QED
        BY <1>5, <4>1, Zenon
    <3>. QED
      BY <1>4, <2>1, <3>1, <3>2
  <2>2. ASSUME NEW r \in pending'
        PROVE  /\ r # call => Occurs(toDaemon', Killing(r.session))
               /\ ~Occurs(toDaemon', Calling(r.n)) /\ ~Occurs(toOfono', Replying(r.n))
    <3>1. /\ r \in pending /\ r \notin T /\ T = {}
      BY <2>2 DEF IInv, Numbers
    <3>2. /\ r # call => Occurs(toDaemon, Killing(r.session))
          /\ ~Occurs(toDaemon, Calling(r.n)) /\ ~Occurs(toOfono, Replying(r.n))
      BY <3>1 DEF IInv, Calls
    <3>3. Head(toDaemon) \notin Killing(r.session) \/ UNCHANGED toDaemon
      BY <3>1
    <3>4. r # call => Occurs(toDaemon', Killing(r.session))
      BY <1>5, <3>2, <3>3, Zenon
    <3>5. ~Occurs(toDaemon', Calling(r.n))
      BY <1>5, <3>2, Zenon
    <3>6. ~Occurs(toOfono', Replying(r.n))
      BY <1>4, <3>1, <3>2, Zenon
    <3>. QED
      BY <3>4, <3>5, <3>6
  <2>3. ASSUME NEW n \in Nat, NEW s \in BOOLEAN, [n |-> n, session |-> s] # call
        PROVE  Followed(toDaemon', CallOf(n, s), Killing(s))
    BY <1>5, <2>3 DEF IInv, Calls
  <2>4. ASSUME NEW n \in Nat
        PROVE  NotFollowed(toDaemon', Calling(n), Calling(n))
    BY <1>5 DEF IInv, Calls
  <2>. QED
    BY <1>6, <2>1, <2>2, <2>3, <2>4 DEF Calls
<1>. QED
  BY <1>3, <1>5, <1>7, <1>8, <1>9

(* The user answers.                                                       *)
LEMMA AnswerStep ==
  ASSUME IInv, Answer
  PROVE  IInv'
<1>1. PICK r \in pending : pending' = pending \ {r} /\ Send(Replies({r}))
  BY DEF Answer
<1>2. UNCHANGED <<stk, agent_registered, register_pending, retry_source, retry_attempts,
                  instances, ofonoVars, toDaemon>>
  BY DEF Answer
<1>3. {r} \subseteq pending
  BY <1>1
<1>4. /\ toOfono' \in Seq(BusItem) /\ toDaemon' \in Seq(BusItem) /\ pending' \subseteq AgentCall
      /\ Numbers' /\ Calls'
      /\ \A k : Occurs(toOfono', Registering(k)) <=> Occurs(toOfono, Registering(k))
      /\ Occurs(toOfono', Unregistering) <=> Occurs(toOfono, Unregistering)
      /\ \A k : /\ NotFollowed(toOfono, Registering(k), Registering(k))
                     => NotFollowed(toOfono', Registering(k), Registering(k))
                /\ NotFollowed(toOfono, Registering(k), Unregistering)
                     => NotFollowed(toOfono', Registering(k), Unregistering)
  BY <1>1, <1>2, <1>3, EndStep
<1>5. UNCHANGED <<iface, moved, holds, session, call, refusals, changes, calls>>
  BY <1>2 DEF ofonoVars
<1>6. Registration' /\ Belief'
  BY <1>2, <1>4, <1>5, AgentKept
<1>7. AgentTypeOK'
  BY <1>2, <1>4, <1>5 DEF IInv, AgentTypeOK
<1>8. Waits'
  BY <1>1, <1>2, <1>5 DEF IInv, Waits
<1>. QED
  BY <1>4, <1>6, <1>7, <1>8 DEF IInv

(* ofono cancels the call.                                                 *)
LEMMA CancelStep ==
  ASSUME IInv, handle_cancel
  PROVE  IInv'
<1>. DEFINE x == Head(toDaemon)
<1>1. toDaemon # <<>> /\ x.kind = "cancel" /\ Consume /\ UNCHANGED ofonoVars
  BY DEF handle_cancel, Arrives
<1>2. x \in BusItem
  BY <1>1 DEF IInv, AgentTypeOK
<1>3. /\ x \notin Losing /\ \A k : x \notin Registered(k)
      /\ \A s : x \in Killing(s) => x.flag = s
  BY <1>1 DEF Losing, Registered, Killing
<1>4. UNCHANGED <<stk, agent_registered, register_pending, retry_source, retry_attempts, instances>>
  BY DEF handle_cancel
<1>5. CASE stk = 0
  <2>1. /\ UNCHANGED <<daemonVars, toOfono>> /\ moved' \in BOOLEAN
        /\ UNCHANGED <<iface, holds, session, call, refusals, changes, calls>>
    BY <1>1, <1>5 DEF handle_cancel, daemonVars, ofonoVars, IInv, AgentTypeOK
  <2>. QED
    BY <1>1, <1>3, <1>5, <2>1, TakeStep
<1>6. CASE stk # 0
  <2>. DEFINE T == Of({x.flag})
  <2>1. T \subseteq pending /\ pending' = pending \ T /\ Send(Replies(T))
    BY <1>6 DEF handle_cancel, Of
  <2>2. \A r \in pending \ T : x \notin Killing(r.session)
    BY <1>3 DEF Of
  <2>. HIDE DEF T
  <2>3. /\ toOfono' \in Seq(BusItem) /\ toDaemon' \in Seq(BusItem) /\ pending' \subseteq AgentCall
        /\ Numbers' /\ Calls'
        /\ \A k : Occurs(toOfono', Registering(k)) <=> Occurs(toOfono, Registering(k))
        /\ Occurs(toOfono', Unregistering) <=> Occurs(toOfono, Unregistering)
        /\ \A k : /\ NotFollowed(toOfono, Registering(k), Registering(k))
                       => NotFollowed(toOfono', Registering(k), Registering(k))
                  /\ NotFollowed(toOfono, Registering(k), Unregistering)
                       => NotFollowed(toOfono', Registering(k), Unregistering)
    BY <1>1, <1>4, <2>1, <2>2, EndStep
  <2>4. UNCHANGED <<iface, moved, holds, session, call, refusals, changes, calls>>
    BY <1>1 DEF ofonoVars
  <2>5. Registration' /\ Belief'
    BY <1>1, <1>3, <1>4, <2>3, <2>4, AgentKept
  <2>6. AgentTypeOK'
    BY <1>4, <2>3, <2>4 DEF IInv, AgentTypeOK
  <2>7. Waits'
    BY <1>4, <1>6, <2>4 DEF IInv, Waits
  <2>. QED
    BY <2>3, <2>5, <2>6, <2>7 DEF IInv
<1>. QED
  BY <1>5, <1>6

(* ofono releases an agent, or ends the session.                           *)
LEMMA ReleaseStep ==
  ASSUME IInv, handle_release
  PROVE  IInv'
<1>. DEFINE x == Head(toDaemon)
<1>1. toDaemon # <<>> /\ x.kind = "release" /\ Consume /\ UNCHANGED ofonoVars
  BY DEF handle_release, Arrives
<1>2. x \in BusItem
  BY <1>1 DEF IInv, AgentTypeOK
<1>3. /\ x \in Losing => ~x.flag
      /\ \A s : x \in Killing(s) => x.flag = s
      /\ \A k : x \notin Registered(k)
  BY <1>1 DEF Losing, Registered, Killing
<1>4. UNCHANGED <<stk, register_pending, instances>>
  BY DEF handle_release
<1>5. CASE stk = 0
  <2>1. /\ UNCHANGED <<daemonVars, toOfono>> /\ moved' \in BOOLEAN
        /\ UNCHANGED <<iface, holds, session, call, refusals, changes, calls>>
    BY <1>1, <1>5 DEF handle_release, daemonVars, ofonoVars, IInv, AgentTypeOK
  <2>. QED
    BY <1>1, <1>3, <1>5, <2>1, TakeStep
<1>6. CASE stk # 0
  <2>. DEFINE T == Of({x.flag})
  <2>1. T \subseteq pending /\ pending' = pending \ T /\ Send(Replies(T))
    BY <1>6 DEF handle_release, Of
  <2>2. \A r \in pending \ T : x \notin Killing(r.session)
    BY <1>3 DEF Of
  <2>. HIDE DEF T
  <2>3. /\ toOfono' \in Seq(BusItem) /\ toDaemon' \in Seq(BusItem) /\ pending' \subseteq AgentCall
        /\ Numbers' /\ Calls'
        /\ \A k : Occurs(toOfono', Registering(k)) <=> Occurs(toOfono, Registering(k))
        /\ Occurs(toOfono', Unregistering) <=> Occurs(toOfono, Unregistering)
        /\ \A k : /\ NotFollowed(toOfono, Registering(k), Registering(k))
                       => NotFollowed(toOfono', Registering(k), Registering(k))
                  /\ NotFollowed(toOfono, Registering(k), Unregistering)
                       => NotFollowed(toOfono', Registering(k), Unregistering)
    BY <1>1, <1>4, <2>1, <2>2, EndStep
  <2>4. UNCHANGED <<iface, moved, holds, session, call, refusals, changes, calls>>
    BY <1>1 DEF ofonoVars
  <2>5. CASE x.flag
    <3>1. UNCHANGED <<agent_registered, retry_source, retry_attempts>>
      BY <1>6, <2>5 DEF handle_release
    <3>2. Registration' /\ Belief'
      BY <1>1, <1>3, <1>4, <2>3, <2>4, <2>5, <3>1, AgentKept
    <3>3. AgentTypeOK'
      BY <1>4, <2>3, <2>4, <3>1 DEF IInv, AgentTypeOK
    <3>4. Waits'
      BY <1>4, <1>6, <2>4, <3>1 DEF IInv, Waits
    <3>. QED
      BY <2>3, <3>2, <3>3, <3>4 DEF IInv
  <2>6. CASE ~x.flag
    <3>1. agent_registered' = FALSE /\ schedule_register(FALSE, register_pending, 0)
      BY <1>6, <2>6 DEF handle_release
    <3>2. /\ retry_source' \in BOOLEAN /\ retry_attempts' \in 0..RetryMax
          /\ register_pending \/ retry_source'
          /\ ~(register_pending /\ retry_source')
      <4>1. /\ retry_source \in BOOLEAN /\ register_pending \in BOOLEAN
            /\ ~(register_pending /\ retry_source) /\ RetryMax \in Nat /\ RetryMax > 0
        BY StkAgentAssumption DEF IInv, AgentTypeOK, Waits
      <4>2. CASE retry_source \/ register_pending
        <5>1. retry_attempts' = 0 /\ retry_source' = retry_source
          BY <3>1, <4>2 DEF schedule_register
        <5>. QED
          BY <4>1, <4>2, <5>1
      <4>3. CASE ~(retry_source \/ register_pending)
        <5>1. retry_attempts' = 1 /\ retry_source' = TRUE
          BY <3>1, <4>1, <4>3 DEF schedule_register
        <5>. QED
          BY <4>1, <4>3, <5>1
      <4>. QED
        BY <4>2, <4>3
    <3>3. /\ \A K : Head(toDaemon) \notin K => (Occurs(toDaemon', K) <=> Occurs(toDaemon, K))
          /\ \A K, L : Followed(toDaemon, K, L) => Followed(toDaemon', K, L)
          /\ \A K, L : NotFollowed(toDaemon, K, L) => NotFollowed(toDaemon', K, L)
      BY <1>1, Consumes DEF IInv
    <3>4. Occurs(toDaemon', Registered(stk)) <=> Occurs(toDaemon, Registered(stk))
      BY <1>3, <3>3, Zenon
    <3>5. Registration'
      BY <1>4, <2>3, <3>3, <3>4 DEF IInv, Registration
    <3>6. Belief'
      BY <1>4, <2>3, <2>4, <3>1, <3>3, <3>4 DEF IInv, Belief
    <3>7. AgentTypeOK'
      BY <1>4, <2>3, <2>4, <3>1, <3>2 DEF IInv, AgentTypeOK
    <3>8. Waits'
      BY <1>4, <1>6, <2>4, <3>1, <3>2 DEF IInv, Waits
    <3>. QED
      BY <2>3, <3>5, <3>6, <3>7, <3>8 DEF IInv
  <2>. QED
    BY <2>5, <2>6
<1>. QED
  BY <1>5, <1>6

(* ofono calls an agent: what is pending for the slot ends, and the call   *)
(* takes its place.                                                        *)
LEMMA DispatchStep ==
  ASSUME IInv, dispatch
  PROVE  IInv'
<1>. DEFINE x == Head(toDaemon)
            c == [n |-> x.n, session |-> x.flag]
<1>1. toDaemon # <<>> /\ x.kind = "call" /\ Consume /\ UNCHANGED ofonoVars
  BY DEF dispatch, Arrives
<1>2. x \in BusItem /\ x.n \in Nat /\ x.flag \in BOOLEAN
  <2>1. x \in BusItem
    BY <1>1 DEF IInv, AgentTypeOK
  <2>. QED
    BY <2>1 DEF BusItem
<1>3. /\ x \notin Losing /\ \A k : x \notin Registered(k)
      /\ \A s : x \notin Killing(s)
      /\ x \in Calling(x.n) /\ x \in CallOf(x.n, x.flag)
  BY <1>1, <1>2 DEF Losing, Registered, Killing, Calling, CallOf
<1>4. /\ toDaemon' \in Seq(BusItem)
      /\ \A K : Occurs(toDaemon, K) <=> x \in K \/ Occurs(toDaemon', K)
      /\ \A K, L : Followed(toDaemon, K, L) => /\ x \in K => Occurs(toDaemon', L)
                                               /\ Followed(toDaemon', K, L)
      /\ \A K, L : NotFollowed(toDaemon, K, L) => /\ x \in K => ~Occurs(toDaemon', L)
                                                  /\ NotFollowed(toDaemon', K, L)
  BY <1>1, Consumes DEF IInv
<1>5. UNCHANGED <<stk, agent_registered, register_pending, retry_source, retry_attempts, instances,
                  iface, moved, holds, session, call, refusals, changes, calls>>
  BY DEF dispatch, ofonoVars
<1>6. /\ x.n \in 1..calls /\ ~Occurs(toDaemon', Calling(x.n)) /\ ~Occurs(toOfono, Replying(x.n))
      /\ c # call => Occurs(toDaemon', Killing(x.flag))
      /\ \A r \in pending : r.n # x.n
  <2>1. Occurs(toDaemon, Calling(x.n))
    BY <1>3, <1>4, Zenon
  <2>2. x.n \in 1..calls
    BY <1>2, <2>1 DEF IInv, Numbers
  <2>3. NotFollowed(toDaemon, Calling(x.n), Calling(x.n))
    BY <1>2 DEF IInv, Calls
  <2>4. ~Occurs(toDaemon', Calling(x.n))
    BY <1>3, <1>4, <2>3, Zenon
  <2>5. ~Occurs(toOfono, Replying(x.n))
    BY <1>2, <2>1 DEF IInv, Calls
  <2>6. ASSUME c # call
        PROVE  Occurs(toDaemon', Killing(x.flag))
    <3>1. Followed(toDaemon, CallOf(x.n, x.flag), Killing(x.flag))
      BY <1>2, <2>6 DEF IInv, Calls
    <3>. QED
      BY <1>3, <1>4, <3>1, Zenon
  <2>7. \A r \in pending : r.n # x.n
    BY <2>1 DEF IInv, Calls
  <2>. QED
    BY <2>2, <2>4, <2>5, <2>6, <2>7
<1>7. PICK m \in Seq(BusItem) :
        /\ Send(m) /\ ~Occurs(m, Unregistering)
        /\ \A k : ~Occurs(m, Registering(k))
        /\ \A k : Occurs(m, Replying(k)) => \/ stk = 0 /\ k = x.n
                                            \/ stk # 0 /\ \E r \in pending : k = r.n
  <2>1. CASE stk = 0
    <3>1. Send(<<Reply(x.n)>>)
      BY <2>1 DEF dispatch, Reply, Msg
    <3>2. /\ Reply(x.n) \in BusItem /\ Reply(x.n) \notin Unregistering
          /\ \A k : Reply(x.n) \notin Registering(k)
          /\ \A k : Reply(x.n) \in Replying(k) <=> k = x.n
      BY <1>2, OfReply
    <3>3. PICK y : y = Reply(x.n)
      OBVIOUS
    <3>4. <<y>> \in Seq(BusItem) /\ \A K : Occurs(<<y>>, K) <=> y \in K
      BY <3>2, <3>3, Ones
    <3>5. Send(<<y>>)
      BY <3>1, <3>3
    <3>6. ~Occurs(<<y>>, Unregistering) /\ \A k : ~Occurs(<<y>>, Registering(k))
      BY <3>2, <3>3, <3>4, Zenon
    <3>7. \A k : Occurs(<<y>>, Replying(k)) => k = x.n
      BY <3>2, <3>3, <3>4, Zenon
    <3>. QED
      BY <2>1, <3>4, <3>5, <3>6, <3>7, Zenon
  <2>2. CASE stk # 0
    <3>1. Send(Replies(pending))
      BY <2>2 DEF dispatch
    <3>2. /\ Replies(pending) \in Seq(BusItem) /\ ~Occurs(Replies(pending), Unregistering)
          /\ \A k : ~Occurs(Replies(pending), Registering(k))
          /\ \A k : Occurs(Replies(pending), Replying(k)) => \E r \in pending : k = r.n
      BY RepliesAre, RepliesOnly DEF IInv
    <3>. QED
      BY <2>2, <3>1, <3>2, Zenon
  <2>. QED
    BY <2>1, <2>2
<1>8. /\ toOfono' \in Seq(BusItem)
      /\ \A K : Occurs(toOfono', K) <=> Occurs(toOfono, K) \/ Occurs(m, K)
      /\ \A k : Occurs(toOfono', Registering(k)) <=> Occurs(toOfono, Registering(k))
      /\ Occurs(toOfono', Unregistering) <=> Occurs(toOfono, Unregistering)
      /\ \A k : /\ NotFollowed(toOfono, Registering(k), Registering(k))
                     => NotFollowed(toOfono', Registering(k), Registering(k))
                /\ NotFollowed(toOfono, Registering(k), Unregistering)
                     => NotFollowed(toOfono', Registering(k), Unregistering)
  BY <1>7, SendsOthers DEF IInv
<1>9. Registration' /\ Belief'
  BY <1>1, <1>3, <1>5, <1>8, AgentKept
<1>10. pending' = IF stk = 0 THEN {} ELSE {c}
  <2>1. CASE stk = 0
    BY <2>1 DEF dispatch, IInv, Waits
  <2>2. CASE stk # 0
    BY <2>2 DEF dispatch
  <2>. QED
    BY <2>1, <2>2
<1>11. c \in AgentCall
  BY <1>2 DEF AgentCall
<1>12. AgentTypeOK'
  <2>1. pending' \subseteq AgentCall
    BY <1>10, <1>11
  <2>. QED
    BY <1>4, <1>5, <1>8, <2>1 DEF IInv, AgentTypeOK
<1>13. Waits'
  BY <1>5, <1>10 DEF IInv, Waits
<1>14. \A k : Occurs(toOfono', Replying(k)) =>
         \/ Occurs(toOfono, Replying(k))
         \/ stk = 0 /\ k = x.n
         \/ stk # 0 /\ \E r \in pending : k = r.n
  BY <1>7, <1>8, Zenon
<1>15. \A k : Occurs(toDaemon', Calling(k)) => Occurs(toDaemon, Calling(k))
  BY <1>4, Zenon
<1>16. Numbers'
  <2>1. ASSUME NEW n \in Nat \ (1..calls)
        PROVE  ~Occurs(toDaemon', Calling(n)) /\ ~Occurs(toOfono', Replying(n))
    <3>1. /\ ~Occurs(toDaemon, Calling(n)) /\ ~Occurs(toOfono, Replying(n))
          /\ \A r \in pending : n # r.n
      BY DEF IInv, Numbers
    <3>. QED
      BY <1>6, <1>14, <1>15, <3>1
  <2>2. ASSUME NEW n \in Nat \ (1..instances)
        PROVE  ~Occurs(toDaemon', Registered(n)) /\ ~Occurs(toOfono', Registering(n))
    <3>1. ~Occurs(toDaemon, Registered(n)) /\ ~Occurs(toOfono, Registering(n))
      BY DEF IInv, Numbers
    <3>. QED
      BY <1>4, <1>8, <3>1, Zenon
  <2>3. /\ \A r \in pending' : r.n \in 1..calls
        /\ \A r, s \in pending' : r = s
    BY <1>6, <1>10
  <2>. QED
    BY <1>5, <2>1, <2>2, <2>3 DEF IInv, Numbers
<1>17. Calls'
  <2>1. ASSUME NEW n \in Nat, Occurs(toOfono', Replying(n))
        PROVE  ~Occurs(toDaemon', Calling(n))
    <3>1. CASE Occurs(toOfono, Replying(n))
      BY <1>15, <3>1 DEF IInv, Calls
    <3>2. CASE n = x.n
      BY <1>6, <3>2
    <3>3. CASE \E r \in pending : n = r.n
      BY <1>15, <3>3 DEF IInv, Calls
    <3>. QED
      BY <1>14, <2>1, <3>1, <3>2, <3>3
  <2>2. ASSUME NEW r \in pending'
        PROVE  /\ r # call => Occurs(toDaemon', Killing(r.session))
               /\ ~Occurs(toDaemon', Calling(r.n)) /\ ~Occurs(toOfono', Replying(r.n))
    <3>1. stk # 0 /\ r = c
      BY <1>10, <2>2
    <3>2. r.n = x.n /\ r.session = x.flag
      BY <3>1
    <3>. QED
      BY <1>6, <1>14, <3>1, <3>2
  <2>3. ASSUME NEW n \in Nat, NEW s \in BOOLEAN, [n |-> n, session |-> s] # call
        PROVE  Followed(toDaemon', CallOf(n, s), Killing(s))
    BY <1>4, <2>3 DEF IInv, Calls
  <2>4. ASSUME NEW n \in Nat
        PROVE  NotFollowed(toDaemon', Calling(n), Calling(n))
    BY <1>4 DEF IInv, Calls
  <2>. QED
    BY <1>5, <2>1, <2>2, <2>3, <2>4 DEF Calls
<1>. QED
  BY <1>9, <1>12, <1>13, <1>16, <1>17 DEF IInv

(* ofono's answer to RegisterAgent.                                        *)
LEMMA RegisteredStep ==
  ASSUME IInv, register_agent_cb
  PROVE  IInv'
<1>. DEFINE x == Head(toDaemon)
<1>1. toDaemon # <<>> /\ x.kind = "registered" /\ Consume /\ UNCHANGED <<ofonoVars, toOfono>>
  BY DEF register_agent_cb, Arrives
<1>2. x \in BusItem /\ x.n \in Nat /\ x.flag \in BOOLEAN
  <2>1. x \in BusItem
    BY <1>1 DEF IInv, AgentTypeOK
  <2>. QED
    BY <2>1 DEF BusItem
<1>3. /\ x \notin Losing /\ \A s : x \notin Killing(s)
      /\ x \in Registered(x.n)
      /\ \A k : x \in Registered(k) => k = x.n
      /\ x.flag => x \in Granted(x.n)
      /\ \A k : x \notin Calling(k)
  BY <1>1, <1>2 DEF Losing, Registered, Granted, Killing, Calling
<1>4. CASE x.n # stk
  <2>1. /\ UNCHANGED <<daemonVars, toOfono>> /\ moved' \in BOOLEAN
        /\ UNCHANGED <<iface, holds, session, call, refusals, changes, calls>>
    BY <1>1, <1>4 DEF register_agent_cb, daemonVars, ofonoVars, IInv, AgentTypeOK
  <2>. QED
    BY <1>1, <1>3, <1>4, <2>1, TakeStep
<1>5. CASE x.n = stk
  <2>1. /\ toDaemon' \in Seq(BusItem)
        /\ \A K : Occurs(toDaemon, K) <=> x \in K \/ Occurs(toDaemon', K)
        /\ \A K, L : Followed(toDaemon, K, L) => /\ x \in K => Occurs(toDaemon', L)
                                                 /\ Followed(toDaemon', K, L)
        /\ \A K, L : NotFollowed(toDaemon, K, L) => /\ x \in K => ~Occurs(toDaemon', L)
                                                    /\ NotFollowed(toDaemon', K, L)
    BY <1>1, Consumes DEF IInv
  <2>2. Occurs(toDaemon, Registered(stk))
    BY <1>3, <1>5, <2>1, Zenon
  <2>3. stk # 0
    BY <2>2 DEF IInv, Numbers
  <2>4. /\ register_pending /\ ~retry_source /\ ~agent_registered
        /\ ~Occurs(toOfono, Registering(stk)) /\ ~Occurs(toOfono, Unregistering)
        /\ ~Occurs(toDaemon', Registered(stk))
    <3>1. NotFollowed(toDaemon, Registered(stk), Registered(stk))
      BY DEF IInv, Registration
    <3>2. ~Occurs(toDaemon', Registered(stk))
      BY <1>3, <1>5, <2>1, <3>1, Zenon
    <3>. QED
      BY <2>2, <2>3, <3>2 DEF IInv, Registration, Belief, Waits
  <2>5. x.flag => holds \/ Occurs(toDaemon', Losing)
    <3>1. CASE holds
      BY <3>1
    <3>2. CASE x.flag /\ ~holds
      <4>1. Followed(toDaemon, Granted(stk), Losing)
        BY <3>2 DEF IInv, Belief
      <4>2. x \in Granted(stk)
        BY <1>3, <1>5, <3>2
      <4>. QED
        BY <2>1, <4>1, <4>2, Zenon
    <3>. QED
      BY <3>1, <3>2
  <2>6. UNCHANGED <<stk, pending, instances, iface, moved, holds, session, call, refusals, changes, calls,
                    toOfono>>
    BY DEF register_agent_cb, ofonoVars
  <2>7. /\ register_pending' = FALSE /\ agent_registered' = x.flag
        /\ retry_source' \in BOOLEAN /\ retry_attempts' \in 0..RetryMax
        /\ x.flag => ~retry_source'
        /\ ~x.flag => retry_source' \/ retry_attempts' = RetryMax
    <3>1. /\ register_pending' = FALSE /\ agent_registered' = x.flag
          /\ IF x.flag THEN retry_attempts' = 0 /\ UNCHANGED retry_source
                       ELSE schedule_register(FALSE, FALSE, retry_attempts)
      BY <1>5 DEF register_agent_cb
    <3>2. /\ retry_source \in BOOLEAN /\ retry_attempts \in 0..RetryMax /\ RetryMax \in Nat
      BY StkAgentAssumption DEF IInv, AgentTypeOK
    <3>3. CASE x.flag
      BY <2>4, <3>1, <3>2, <3>3
    <3>4. CASE ~x.flag /\ retry_attempts >= RetryMax
      <4>1. retry_attempts' = retry_attempts /\ UNCHANGED retry_source
        BY <3>1, <3>4 DEF schedule_register
      <4>. QED
        BY <3>1, <3>2, <3>4, <4>1
    <3>5. CASE ~x.flag /\ ~(retry_attempts >= RetryMax)
      <4>1. retry_attempts' = retry_attempts + 1 /\ retry_source' = TRUE
        BY <2>4, <3>1, <3>5 DEF schedule_register
      <4>. QED
        BY <3>1, <3>2, <3>5, <4>1
    <3>. QED
      BY <3>3, <3>4, <3>5
  <2>8. AgentTypeOK'
    BY <1>2, <2>1, <2>6, <2>7 DEF IInv, AgentTypeOK
  <2>9. Waits'
    BY <2>3, <2>6, <2>7 DEF IInv, Waits
  <2>10. Numbers'
    BY <2>1, <2>6 DEF IInv, Numbers
  <2>11. Registration'
    BY <2>1, <2>3, <2>4, <2>6, <2>7, Absent DEF IInv, Registration
  <2>12. Belief'
    BY <2>1, <2>4, <2>5, <2>6, <2>7, Absent DEF IInv, Belief
  <2>13. Calls'
    BY <1>3, <2>1, <2>6 DEF IInv, Calls
  <2>. QED
    BY <2>8, <2>9, <2>10, <2>11, <2>12, <2>13 DEF IInv
<1>. QED
  BY <1>4, <1>5

(* The daemon reads the modem's interfaces.                                *)
LEMMA InterfacesStep ==
  ASSUME IInv, InterfacesChanged
  PROVE  IInv'
<1>. DEFINE x == Head(toDaemon)
<1>1. toDaemon # <<>> /\ x.kind = "interfaces" /\ Arrives("interfaces") /\ Consume
      /\ moved' \in BOOLEAN /\ UNCHANGED <<iface, holds, session, call, refusals, changes, calls>>
  BY DEF InterfacesChanged, Arrives
<1>3. CASE stk = 0 /\ instances < MaxInstances /\ ofono_stk_create
  BY <1>1, <1>3, CreateStep
<1>4. CASE ~x.flag /\ stk # 0 /\ ofono_stk_free
  <2>1. changes' \in 0..MaxChanges
    BY <1>1 DEF IInv, AgentTypeOK
  <2>. QED
    BY <1>1, <1>4, <2>1, FreeStep
<1>5. CASE x.flag = (stk # 0) /\ UNCHANGED <<daemonVars, toOfono>>
  <2>1. x \notin Registered(stk)
    BY <1>1 DEF Registered
  <2>2. x \in Losing => stk = 0
    BY <1>5 DEF Losing
  <2>3. \A s : x \in Killing(s) => stk = 0
    BY <1>1, <1>5 DEF Killing
  <2>. QED
    BY <1>1, <1>5, <2>1, <2>2, <2>3, TakeStep
<1>. QED
  BY <1>3, <1>4, <1>5 DEF InterfacesChanged

(* The modem moves to another slot.                                        *)
LEMMA DetachStep ==
  ASSUME IInv, Detach
  PROVE  IInv'
<1>1. /\ stk # 0 /\ ofono_stk_free /\ changes' \in 0..MaxChanges /\ moved' \in BOOLEAN
      /\ UNCHANGED <<iface, holds, session, call, refusals, calls, toDaemon>>
  BY StkAgentAssumption DEF Detach, IInv, AgentTypeOK
<1>. QED
  BY <1>1, FreeStep

(* The retry timer fires.                                                  *)
LEMMA RetryStep ==
  ASSUME IInv, retry_register_cb
  PROVE  IInv'
<1>1. retry_source /\ stk # 0 /\ ~agent_registered /\ ~register_pending
  BY DEF retry_register_cb, IInv, Waits
<1>2. PICK x : x = Msg("register", stk, FALSE)
  OBVIOUS
<1>3. /\ retry_source' = FALSE /\ register_pending' = TRUE /\ toOfono' = toOfono \o <<x>>
      /\ UNCHANGED <<stk, agent_registered, retry_attempts, pending, instances, toDaemon>>
      /\ UNCHANGED <<iface, moved, holds, session, call, refusals, changes, calls>>
  BY <1>1, <1>2 DEF retry_register_cb, Send, ofonoVars
<1>4. /\ x \in BusItem /\ x \notin Unregistering
      /\ \A k : (x \in Registering(k) <=> k = stk) /\ x \notin Replying(k)
  BY <1>2 DEF IInv, AgentTypeOK, Msg, BusItem, Unregistering, Registering, Replying
<1>5. /\ <<x>> \in Seq(BusItem)
      /\ \A K : Occurs(<<x>>, K) <=> x \in K
      /\ \A K, L : NotFollowed(<<x>>, K, L)
  BY <1>4, Ones
<1>6. /\ toOfono' \in Seq(BusItem)
      /\ \A K : Occurs(toOfono', K) <=> Occurs(toOfono, K) \/ x \in K
      /\ \A K, L : NotFollowed(toOfono, K, L) /\ ~(Occurs(toOfono, K) /\ x \in L)
                     => NotFollowed(toOfono', K, L)
  BY <1>3, <1>5, Cats DEF IInv, AgentTypeOK
<1>7. ~Occurs(toOfono, Registering(stk)) /\ ~Occurs(toDaemon, Registered(stk))
  BY <1>1 DEF IInv, Registration
<1>8. AgentTypeOK'
  BY <1>3, <1>6 DEF IInv, AgentTypeOK
<1>9. Waits'
  BY <1>1, <1>3 DEF IInv, Waits
<1>10. stk \in 1..instances
  BY <1>1 DEF IInv, AgentTypeOK
<1>11. Numbers'
  BY <1>3, <1>4, <1>6, <1>10 DEF IInv, Numbers
<1>12. Registration'
  BY <1>1, <1>3, <1>4, <1>6, <1>7 DEF IInv, Registration
<1>13. Belief'
  BY <1>1, <1>3, <1>4, <1>6, <1>7 DEF IInv, Belief
<1>14. Calls'
  BY <1>3, <1>4, <1>6 DEF IInv, Calls
<1>. QED
  BY <1>8, <1>9, <1>11, <1>12, <1>13, <1>14 DEF IInv

(* An item of the SIM's menu is selected.                                  *)
LEMMA SelectStep ==
  ASSUME IInv, ofono_stk_select_item
  PROVE  IInv'
<1>1. PICK x : x = Msg("select", stk, FALSE)
  OBVIOUS
<1>2. /\ calls' = calls + 1 /\ calls' \in 0..MaxCalls /\ calls \in Nat /\ Send(<<x>>)
      /\ UNCHANGED <<stk, agent_registered, register_pending, retry_source, retry_attempts, pending,
                     instances, iface, moved, holds, session, call, refusals, changes, toDaemon>>
  BY <1>1, StkAgentAssumption DEF ofono_stk_select_item, daemonVars, IInv, AgentTypeOK
<1>3. /\ x \in BusItem /\ x \notin Unregistering
      /\ \A k : x \notin Registering(k) /\ x \notin Replying(k)
  BY <1>1 DEF IInv, AgentTypeOK, Msg, BusItem, Unregistering, Registering, Replying
<1>4. <<x>> \in Seq(BusItem) /\ \A K : Occurs(<<x>>, K) <=> x \in K
  BY <1>3, Ones
<1>5. /\ \A k : ~Occurs(<<x>>, Registering(k)) /\ ~Occurs(<<x>>, Replying(k))
      /\ ~Occurs(<<x>>, Unregistering)
  BY <1>3, <1>4, Zenon
<1>6. /\ toOfono' \in Seq(BusItem)
      /\ \A K : Occurs(toOfono', K) <=> Occurs(toOfono, K) \/ Occurs(<<x>>, K)
      /\ \A k : Occurs(toOfono', Registering(k)) <=> Occurs(toOfono, Registering(k))
      /\ Occurs(toOfono', Unregistering) <=> Occurs(toOfono, Unregistering)
      /\ \A k : /\ NotFollowed(toOfono, Registering(k), Registering(k))
                     => NotFollowed(toOfono', Registering(k), Registering(k))
                /\ NotFollowed(toOfono, Registering(k), Unregistering)
                     => NotFollowed(toOfono', Registering(k), Unregistering)
  BY <1>2, <1>4, <1>5, SendsOthers DEF IInv
<1>7. \A k : Occurs(toOfono', Replying(k)) <=> Occurs(toOfono, Replying(k))
  BY <1>5, <1>6, Zenon
<1>8. AgentTypeOK'
  BY <1>2, <1>6 DEF IInv, AgentTypeOK
<1>9. Waits'
  BY <1>2 DEF IInv, Waits
<1>10. Numbers'
  BY <1>2, <1>6, <1>7 DEF IInv, Numbers
<1>11. Registration' /\ Belief'
  BY <1>2, <1>6, AgentKept
<1>12. Calls'
  BY <1>2, <1>7 DEF IInv, Calls
<1>. QED
  BY <1>8, <1>9, <1>10, <1>11, <1>12 DEF IInv

-----------------------------------------------------------------------------
(***************************************************************************)
(* ofono's steps.                                                          *)
(***************************************************************************)
(* Messages that neither answer RegisterAgent nor call an agent.           *)
News(m) == /\ m \in Seq(BusItem)
           /\ \A k : ~Occurs(m, Registered(k)) /\ ~Occurs(m, Calling(k))

(* A message of another kind.                                              *)
LEMMA NewsOfOne ==
  ASSUME NEW kind \in {"cancel", "release", "interfaces"}, NEW flag \in BOOLEAN,
         NEW x, x = Msg(kind, 0, flag)
  PROVE  /\ x \in BusItem /\ News(<<x>>)
         /\ \A K : Occurs(<<x>>, K) <=> x \in K
<1>1. x \in BusItem /\ \A k : x \notin Registered(k) /\ x \notin Calling(k)
  BY DEF Msg, BusItem, Registered, Calling
<1>2. <<x>> \in Seq(BusItem) /\ \A K : Occurs(<<x>>, K) <=> x \in K
  BY <1>1, Ones
<1>3. \A k : ~Occurs(<<x>>, Registered(k)) /\ ~Occurs(<<x>>, Calling(k))
  BY <1>1, <1>2, Zenon
<1>. QED
  BY <1>1, <1>2, <1>3 DEF News

(* Two lots of news.                                                       *)
LEMMA NewsOfTwo ==
  ASSUME NEW a, NEW b, News(a), News(b)
  PROVE  /\ News(a \o b)
         /\ \A K : Occurs(a \o b, K) <=> Occurs(a, K) \/ Occurs(b, K)
<1>1. /\ a \o b \in Seq(BusItem)
      /\ \A K : Occurs(a \o b, K) <=> Occurs(a, K) \/ Occurs(b, K)
  BY Cats DEF News
<1>2. \A k : ~Occurs(a \o b, Registered(k)) /\ ~Occurs(a \o b, Calling(k))
  BY <1>1, Zenon DEF News
<1>. QED
  BY <1>1, <1>2 DEF News

(* No message.                                                             *)
LEMMA NoNews == News(<<>>)
BY Nones, Zenon DEF News

(* A grant is an answer, a call of an agent a call.                        *)
LEMMA Narrower ==
  ASSUME NEW q
  PROVE  /\ \A k : ~Occurs(q, Registered(k)) => ~Occurs(q, Granted(k))
         /\ \A k, s : ~Occurs(q, Calling(k)) => ~Occurs(q, CallOf(k, s))
BY DEF Occurs, Granted, CallOf

(* News leave the order of what answers and calls alone.                   *)
LEMMA Tells ==
  ASSUME AgentTypeOK, NEW m, News(m), Tell(m)
  PROVE  /\ toDaemon' \in Seq(BusItem)
         /\ \A K : Occurs(toDaemon', K) <=> Occurs(toDaemon, K) \/ Occurs(m, K)
         /\ \A k : /\ Occurs(toDaemon', Registered(k)) <=> Occurs(toDaemon, Registered(k))
                   /\ Occurs(toDaemon', Calling(k)) <=> Occurs(toDaemon, Calling(k))
                   /\ NotFollowed(toDaemon, Registered(k), Registered(k))
                        => NotFollowed(toDaemon', Registered(k), Registered(k))
                   /\ NotFollowed(toDaemon, Calling(k), Calling(k))
                        => NotFollowed(toDaemon', Calling(k), Calling(k))
         /\ \A k, L : Followed(toDaemon, Granted(k), L) \/ Occurs(m, L)
                        => Followed(toDaemon', Granted(k), L)
         /\ \A k, s, L : Followed(toDaemon, CallOf(k, s), L) \/ Occurs(m, L)
                           => Followed(toDaemon', CallOf(k, s), L)
<1>1. m \in Seq(BusItem) /\ toDaemon \in Seq(BusItem) /\ toDaemon' = toDaemon \o m
  BY DEF News, AgentTypeOK, Tell
<1>2. /\ toDaemon' \in Seq(BusItem)
      /\ \A K : Occurs(toDaemon', K) <=> Occurs(toDaemon, K) \/ Occurs(m, K)
      /\ \A K, L : (Followed(toDaemon, K, L) \/ Occurs(m, L)) /\ Followed(m, K, L)
                     => Followed(toDaemon', K, L)
      /\ \A K, L : NotFollowed(toDaemon, K, L) /\ NotFollowed(m, K, L)
                     /\ ~(Occurs(toDaemon, K) /\ Occurs(m, L)) => NotFollowed(toDaemon', K, L)
  BY <1>1, Cats
<1>3. \A k : ~Occurs(m, Registered(k)) /\ ~Occurs(m, Calling(k))
  BY DEF News
<1>4. /\ \A k, L : Followed(m, Granted(k), L)
      /\ \A k, s, L : Followed(m, CallOf(k, s), L)
      /\ \A k : NotFollowed(m, Registered(k), Registered(k)) /\ NotFollowed(m, Calling(k), Calling(k))
  BY <1>3, Absent, Narrower, Zenon
<1>5. ASSUME NEW k
      PROVE  /\ Occurs(toDaemon', Registered(k)) <=> Occurs(toDaemon, Registered(k))
             /\ Occurs(toDaemon', Calling(k)) <=> Occurs(toDaemon, Calling(k))
             /\ NotFollowed(toDaemon, Registered(k), Registered(k))
                  => NotFollowed(toDaemon', Registered(k), Registered(k))
             /\ NotFollowed(toDaemon, Calling(k), Calling(k))
                  => NotFollowed(toDaemon', Calling(k), Calling(k))
  <2>1. /\ Occurs(toDaemon', Registered(k)) <=> Occurs(toDaemon, Registered(k))
        /\ Occurs(toDaemon', Calling(k)) <=> Occurs(toDaemon, Calling(k))
    BY <1>2, <1>3, Zenon
  <2>2. /\ NotFollowed(toDaemon, Registered(k), Registered(k))
             => NotFollowed(toDaemon', Registered(k), Registered(k))
        /\ NotFollowed(toDaemon, Calling(k), Calling(k))
             => NotFollowed(toDaemon', Calling(k), Calling(k))
    BY <1>2, <1>3, <1>4, Zenon
  <2>. QED
    BY <2>1, <2>2
<1>6. ASSUME NEW k, NEW s, NEW L
      PROVE  /\ Followed(toDaemon, Granted(k), L) \/ Occurs(m, L) => Followed(toDaemon', Granted(k), L)
             /\ Followed(toDaemon, CallOf(k, s), L) \/ Occurs(m, L)
                  => Followed(toDaemon', CallOf(k, s), L)
  BY <1>2, <1>4, Zenon
<1>. QED
  BY <1>2, <1>5, <1>6

(* ofono takes a message.                                                  *)
LEMMA Takes ==
  ASSUME AgentTypeOK, toOfono # <<>>, toOfono' = Tail(toOfono)
  PROVE  /\ Head(toOfono) \in BusItem /\ toOfono' \in Seq(BusItem)
         /\ \A K : Occurs(toOfono, K) <=> Head(toOfono) \in K \/ Occurs(toOfono', K)
         /\ \A K, L : NotFollowed(toOfono, K, L)
                        => /\ Head(toOfono) \in K => ~Occurs(toOfono', L)
                           /\ NotFollowed(toOfono', K, L)
BY Tails DEF AgentTypeOK

(* ofono tells news, on a message it takes or by itself: it gives up our   *)
(* default agent only with news of the loss or on UnregisterAgent, and the *)
(* call it waits for only with news of its end or on a reply.              *)
LEMMA NewsStep ==
  ASSUME IInv, NEW m, News(m), Tell(m), UNCHANGED daemonVars,
         \/ UNCHANGED toOfono
         \/ /\ toOfono # <<>> /\ toOfono' = Tail(toOfono)
            /\ \A k : Head(toOfono) \notin Registering(k),
         holds' \in BOOLEAN, session' \in BOOLEAN, iface' \in BOOLEAN,
         refusals' \in 0..MaxRefusals, changes' \in 0..MaxChanges, calls' \in 0..MaxCalls,
         calls <= calls', moved' \in BOOLEAN,
         ~iface' => ~holds' /\ ~session' /\ call' = NoCall,
         holds => \/ holds'
                  \/ Occurs(m, Losing)
                  \/ toOfono # <<>> /\ Head(toOfono) \in Unregistering,
         \/ call' = call
         \/ /\ call' = NoCall
            /\ \/ call = NoCall
               \/ Occurs(m, Killing(call.session))
               \/ toOfono # <<>> /\ Head(toOfono) \in Replying(call.n)
  PROVE  IInv'
<1>1. /\ toDaemon' \in Seq(BusItem)
      /\ \A K : Occurs(toDaemon', K) <=> Occurs(toDaemon, K) \/ Occurs(m, K)
      /\ \A k : /\ Occurs(toDaemon', Registered(k)) <=> Occurs(toDaemon, Registered(k))
                /\ Occurs(toDaemon', Calling(k)) <=> Occurs(toDaemon, Calling(k))
                /\ NotFollowed(toDaemon, Registered(k), Registered(k))
                     => NotFollowed(toDaemon', Registered(k), Registered(k))
                /\ NotFollowed(toDaemon, Calling(k), Calling(k))
                     => NotFollowed(toDaemon', Calling(k), Calling(k))
      /\ \A k, L : Followed(toDaemon, Granted(k), L) \/ Occurs(m, L)
                     => Followed(toDaemon', Granted(k), L)
      /\ \A k, s, L : Followed(toDaemon, CallOf(k, s), L) \/ Occurs(m, L)
                        => Followed(toDaemon', CallOf(k, s), L)
  BY Tells DEF IInv
<1>2. /\ toOfono' \in Seq(BusItem)
      /\ \A K : Occurs(toOfono', K) => Occurs(toOfono, K)
      /\ \A K : UNCHANGED toOfono \/ Head(toOfono) \notin K
                  => (Occurs(toOfono', K) <=> Occurs(toOfono, K))
      /\ \A K, L : NotFollowed(toOfono, K, L) => NotFollowed(toOfono', K, L)
      /\ \A K : toOfono # <<>> /\ Head(toOfono) \in K => Occurs(toOfono, K)
  <2>1. CASE UNCHANGED toOfono
    <3>1. \A K : toOfono # <<>> /\ Head(toOfono) \in K => Occurs(toOfono, K)
      BY Tails DEF IInv, AgentTypeOK
    <3>. QED
      BY <2>1, <3>1 DEF IInv, AgentTypeOK
  <2>2. CASE toOfono # <<>> /\ toOfono' = Tail(toOfono)
    <3>1. /\ toOfono' \in Seq(BusItem)
          /\ \A K : Occurs(toOfono, K) <=> Head(toOfono) \in K \/ Occurs(toOfono', K)
          /\ \A K, L : NotFollowed(toOfono, K, L) => NotFollowed(toOfono', K, L)
      BY <2>2, Takes DEF IInv
    <3>2. UNCHANGED toOfono => FALSE
      BY <2>2 DEF IInv, AgentTypeOK
    <3>. QED
      BY <3>1, <3>2
  <2>. QED
    BY <2>1, <2>2
<1>3. UNCHANGED <<stk, agent_registered, register_pending, retry_source, retry_attempts, pending,
                  instances>>
  BY DEF daemonVars
<1>4. call' \in AgentCall
  <2>1. NoCall \in AgentCall
    BY DEF NoCall, AgentCall
  <2>. QED
    BY <2>1 DEF IInv, AgentTypeOK
<1>5. AgentTypeOK'
  BY <1>1, <1>2, <1>3, <1>4 DEF IInv, AgentTypeOK
<1>6. Waits'
  BY <1>3 DEF IInv, Waits
<1>7. Numbers'
  <2>1. /\ call'.n \in 0..calls' /\ (call'.n = 0 => call' = NoCall)
        /\ \A r \in pending : r.n \in 1..calls'
        /\ calls \in Nat /\ calls' \in Nat
    BY DEF IInv, AgentTypeOK, Numbers, NoCall
  <2>2. ASSUME NEW n \in Nat \ (1..calls')
        PROVE  ~Occurs(toDaemon', Calling(n)) /\ ~Occurs(toOfono', Replying(n))
    <3>1. n \in Nat \ (1..calls)
      BY <2>1, <2>2
    <3>2. ~Occurs(toDaemon, Calling(n)) /\ ~Occurs(toOfono, Replying(n))
      BY <3>1 DEF IInv, Numbers
    <3>. QED
      BY <1>1, <1>2, <3>2, Zenon
  <2>3. ASSUME NEW n \in Nat \ (1..instances)
        PROVE  ~Occurs(toDaemon', Registered(n)) /\ ~Occurs(toOfono', Registering(n))
    <3>1. ~Occurs(toDaemon, Registered(n)) /\ ~Occurs(toOfono, Registering(n))
      BY DEF IInv, Numbers
    <3>. QED
      BY <1>1, <1>2, <3>1, Zenon
  <2>. QED
    BY <1>3, <2>1, <2>2, <2>3 DEF IInv, Numbers
<1>8. Registration'
  <2>1. Occurs(toOfono', Registering(stk)) <=> Occurs(toOfono, Registering(stk))
    BY <1>2, Zenon
  <2>. QED
    BY <1>1, <1>2, <1>3, <2>1 DEF IInv, Registration
<1>9. Belief'
  <2>1. CASE holds /\ ~holds' /\ toOfono # <<>> /\ Head(toOfono) \in Unregistering
    <3>1. ~agent_registered /\ ~Occurs(toDaemon, Registered(stk))
      BY <1>2, <2>1 DEF IInv, Belief
    <3>2. ~Occurs(toDaemon', Granted(stk))
      BY <1>1, <3>1, Narrower, Zenon
    <3>3. Followed(toDaemon', Granted(stk), Losing)
      BY <3>2, Absent, Zenon
    <3>. QED
      BY <1>1, <1>2, <1>3, <3>1, <3>3 DEF IInv, Belief
  <2>2. CASE holds' \/ ~holds \/ Occurs(m, Losing)
    <3>1. /\ agent_registered => holds' \/ Occurs(toDaemon', Losing)
          /\ holds' \/ Followed(toDaemon', Granted(stk), Losing)
      BY <1>1, <2>2 DEF IInv, Belief
    <3>. QED
      BY <1>1, <1>2, <1>3, <3>1 DEF IInv, Belief
  <2>. QED
    BY <2>1, <2>2
<1>10. Calls'
  <2>1. ASSUME NEW r \in pending, r # call'
        PROVE  Occurs(toDaemon', Killing(r.session))
    <3>1. CASE r # call
      <4>1. Occurs(toDaemon, Killing(r.session))
        BY <3>1 DEF IInv, Calls
      <4>. QED
        BY <1>1, <4>1, Zenon
    <3>2. CASE r = call
      <4>1. r # NoCall
        BY DEF IInv, Numbers, NoCall
      <4>2. ~Occurs(toOfono, Replying(call.n))
        BY <3>2 DEF IInv, Calls
      <4>3. ~(toOfono # <<>> /\ Head(toOfono) \in Replying(call.n))
        BY <1>2, <4>2, Zenon
      <4>4. Occurs(m, Killing(call.session))
        BY <2>1, <3>2, <4>1, <4>3
      <4>. QED
        BY <1>1, <3>2, <4>4, Zenon
    <3>. QED
      BY <3>1, <3>2
  <2>2. ASSUME NEW n \in Nat, NEW s \in BOOLEAN, [n |-> n, session |-> s] # call'
        PROVE  Followed(toDaemon', CallOf(n, s), Killing(s))
    <3>1. CASE [n |-> n, session |-> s] # call
      <4>1. Followed(toDaemon, CallOf(n, s), Killing(s))
        BY <3>1 DEF IInv, Calls
      <4>. QED
        BY <1>1, <4>1, Zenon
    <3>2. CASE [n |-> n, session |-> s] = call /\ call # NoCall
      <4>1. call.n = n /\ call.session = s
        BY <3>2
      <4>2. CASE Occurs(m, Killing(s))
        BY <1>1, <4>2, Zenon
      <4>3. CASE toOfono # <<>> /\ Head(toOfono) \in Replying(n)
        <5>1. Occurs(toOfono, Replying(n))
          BY <1>2, <4>3, Zenon
        <5>2. ~Occurs(toDaemon, Calling(n))
          BY <5>1 DEF IInv, Calls
        <5>3. ~Occurs(toDaemon', CallOf(n, s))
          BY <1>1, <5>2, Narrower, Zenon
        <5>. QED
          BY <5>3, Absent, Zenon
      <4>. QED
        BY <2>2, <3>2, <4>1, <4>2, <4>3
    <3>3. CASE call = NoCall /\ [n |-> n, session |-> s] = call
      BY <2>2, <3>3
    <3>. QED
      BY <3>1, <3>2, <3>3
  <2>3. ASSUME NEW n \in Nat
        PROVE  /\ NotFollowed(toDaemon', Calling(n), Calling(n))
               /\ Occurs(toOfono', Replying(n)) => ~Occurs(toDaemon', Calling(n))
    <3>1. /\ NotFollowed(toDaemon, Calling(n), Calling(n))
          /\ Occurs(toOfono, Replying(n)) => ~Occurs(toDaemon, Calling(n))
      BY DEF IInv, Calls
    <3>. QED
      BY <1>1, <1>2, <3>1, Zenon
  <2>4. ASSUME NEW r \in pending
        PROVE  ~Occurs(toDaemon', Calling(r.n)) /\ ~Occurs(toOfono', Replying(r.n))
    <3>1. ~Occurs(toDaemon, Calling(r.n)) /\ ~Occurs(toOfono, Replying(r.n))
      BY DEF IInv, Calls
    <3>. QED
      BY <1>1, <1>2, <3>1, Zenon
  <2>. QED
    BY <1>3, <2>1, <2>2, <2>3, <2>4 DEF Calls
<1>. QED
  BY <1>5, <1>6, <1>7, <1>8, <1>9, <1>10 DEF IInv

(* The interface comes or goes.                                            *)
LEMMA InterfaceStep ==
  ASSUME IInv, OfonoInterface
  PROVE  IInv'
<1>1. PICK released \in BOOLEAN :
        Tell((IF released /\ holds THEN <<Msg("release", 0, FALSE)>> ELSE <<>>)
               \o (IF released /\ session THEN <<Msg("release", 0, TRUE)>> ELSE <<>>)
               \o <<Msg("interfaces", 0, ~iface)>>)
  BY DEF OfonoInterface
<1>2. PICK a : a = IF released /\ holds THEN <<Msg("release", 0, FALSE)>> ELSE <<>>
  OBVIOUS
<1>3. PICK b : b = IF released /\ session THEN <<Msg("release", 0, TRUE)>> ELSE <<>>
  OBVIOUS
<1>4. PICK x : x = Msg("interfaces", 0, ~iface)
  OBVIOUS
<1>5. Tell(a \o b \o <<x>>)
  BY <1>1, <1>2, <1>3, <1>4
<1>6. News(a)
  BY <1>2, NoNews, NewsOfOne
<1>7. News(b)
  BY <1>3, NoNews, NewsOfOne
<1>8. x \in BusItem /\ News(<<x>>) /\ \A K : Occurs(<<x>>, K) <=> x \in K
  BY <1>4, NewsOfOne DEF IInv, AgentTypeOK
<1>9. iface => x \in Losing /\ \A s : x \in Killing(s)
  BY <1>4, <1>8 DEF Msg, Losing, Killing
<1>10. PICK m : m = a \o b \o <<x>>
  OBVIOUS
<1>11. News(m) /\ \A K : Occurs(<<x>>, K) => Occurs(m, K)
  <2>1. News(a \o b)
    BY <1>6, <1>7, NewsOfTwo
  <2>. QED
    BY <1>8, <1>10, <2>1, NewsOfTwo
<1>12. iface => Occurs(m, Losing) /\ Occurs(m, Killing(call.session))
  BY <1>8, <1>9, <1>11, Zenon
<1>13. /\ holds' = FALSE /\ session' = FALSE /\ call' = NoCall /\ iface' \in BOOLEAN
       /\ changes' \in 0..MaxChanges /\ calls \in Nat
       /\ UNCHANGED daemonVars /\ UNCHANGED <<moved, refusals, calls, toOfono>>
  BY StkAgentAssumption DEF OfonoInterface, IInv, AgentTypeOK
<1>14. /\ holds => Occurs(m, Losing)
       /\ call = NoCall \/ Occurs(m, Killing(call.session))
  BY <1>12 DEF IInv, Waits
<1>15. moved' \in BOOLEAN /\ refusals' \in 0..MaxRefusals /\ calls' \in 0..MaxCalls /\ calls <= calls' /\ Tell(m)
  BY <1>5, <1>10, <1>13 DEF IInv, AgentTypeOK
<1>. QED
  BY <1>11, <1>13, <1>14, <1>15, NewsStep

(* Another interface of the modem comes or goes.                           *)
LEMMA OtherInterfaceStep ==
  ASSUME IInv, OfonoOtherInterface
  PROVE  IInv'
<1>1. PICK x : x = Msg("interfaces", 0, iface)
  OBVIOUS
<1>2. News(<<x>>)
  BY <1>1, NewsOfOne DEF IInv, AgentTypeOK
<1>3. /\ Tell(<<x>>) /\ changes' \in 0..MaxChanges
      /\ UNCHANGED daemonVars
      /\ UNCHANGED <<iface, moved, holds, session, call, refusals, calls, toOfono>>
  BY <1>1, StkAgentAssumption DEF OfonoOtherInterface, IInv, AgentTypeOK
<1>4. /\ holds' \in BOOLEAN /\ session' \in BOOLEAN /\ iface' \in BOOLEAN /\ moved' \in BOOLEAN
      /\ refusals' \in 0..MaxRefusals /\ calls' \in 0..MaxCalls /\ calls <= calls'
      /\ ~iface' => ~holds' /\ ~session' /\ call' = NoCall
  BY <1>3 DEF IInv, AgentTypeOK, Waits
<1>. QED
  BY <1>2, <1>3, <1>4, NewsStep

(* ofono cancels the call.                                                 *)
LEMMA OfonoCancelsStep ==
  ASSUME IInv, OfonoCancels
  PROVE  IInv'
<1>1. PICK x : x = Msg("cancel", 0, call.session)
  OBVIOUS
<1>2. call.session \in BOOLEAN
  BY DEF IInv, AgentTypeOK, AgentCall
<1>3. x \in BusItem /\ News(<<x>>) /\ \A K : Occurs(<<x>>, K) <=> x \in K
  BY <1>1, <1>2, NewsOfOne
<1>4. x \in Killing(call.session)
  BY <1>1, <1>3 DEF Msg, Killing
<1>5. Occurs(<<x>>, Killing(call.session))
  BY <1>3, <1>4, Zenon
<1>6. /\ call' = NoCall /\ Tell(<<x>>)
      /\ UNCHANGED daemonVars /\ UNCHANGED <<iface, moved, holds, session, refusals, changes, calls, toOfono>>
  BY <1>1 DEF OfonoCancels
<1>7. /\ holds' \in BOOLEAN /\ session' \in BOOLEAN /\ iface' \in BOOLEAN /\ moved' \in BOOLEAN
      /\ refusals' \in 0..MaxRefusals /\ changes' \in 0..MaxChanges /\ calls' \in 0..MaxCalls
      /\ calls <= calls'
      /\ ~iface' => ~holds' /\ ~session' /\ call' = NoCall
      /\ holds => holds'
  BY <1>6 DEF IInv, AgentTypeOK, Waits
<1>. QED
  BY <1>3, <1>5, <1>6, <1>7, NewsStep

(* ofono releases an agent.                                                *)
LEMMA OfonoReleasesStep ==
  ASSUME IInv, OfonoReleases
  PROVE  IInv'
<1>1. PICK s \in (IF session THEN {TRUE} ELSE {}) \cup (IF holds THEN {FALSE} ELSE {}) :
        /\ session' = (session /\ ~s)
        /\ holds' = (holds /\ s)
        /\ call' = IF call.session = s THEN NoCall ELSE call
        /\ Tell(<<Msg("release", 0, s)>>)
  BY DEF OfonoReleases
<1>2. s \in BOOLEAN
  BY <1>1
<1>3. PICK x : x = Msg("release", 0, s)
  OBVIOUS
<1>4. x \in BusItem /\ News(<<x>>) /\ \A K : Occurs(<<x>>, K) <=> x \in K
  BY <1>2, <1>3, NewsOfOne
<1>5. x \in Killing(s) /\ (~s => x \in Losing)
  BY <1>3, <1>4 DEF Msg, Killing, Losing
<1>6. Occurs(<<x>>, Killing(s)) /\ (~s => Occurs(<<x>>, Losing))
  BY <1>4, <1>5, Zenon
<1>7. /\ Tell(<<x>>) /\ calls' = calls + 1 /\ calls < MaxCalls
      /\ UNCHANGED daemonVars /\ UNCHANGED <<iface, moved, refusals, changes, toOfono>>
  BY <1>1, <1>3 DEF OfonoReleases
<1>8. /\ holds' \in BOOLEAN /\ session' \in BOOLEAN /\ iface' \in BOOLEAN /\ moved' \in BOOLEAN
      /\ refusals' \in 0..MaxRefusals /\ changes' \in 0..MaxChanges /\ calls' \in 0..MaxCalls
      /\ calls <= calls'
  BY <1>1, <1>2, <1>7, StkAgentAssumption DEF IInv, AgentTypeOK
<1>9. /\ ~iface' => ~holds' /\ ~session' /\ call' = NoCall
      /\ holds => holds' \/ Occurs(<<x>>, Losing)
  BY <1>1, <1>2, <1>6, <1>7 DEF IInv, Waits
<1>10. \/ call' = call
       \/ call' = NoCall /\ Occurs(<<x>>, Killing(call.session))
  BY <1>1, <1>6
<1>. QED
  BY <1>4, <1>7, <1>8, <1>9, <1>10, NewsStep

(* What ofono takes that does not register an agent.                       *)
LEMMA OfonoReceivesStep ==
  ASSUME IInv, OfonoReceives
  PROVE  IInv'
<1>. DEFINE y == Head(toOfono)
<1>1. /\ toOfono # <<>> /\ toOfono' = Tail(toOfono)
      /\ y.kind \in {"unregister", "select", "reply"}
      /\ Reaches("unregister") <=> y.kind = "unregister"
      /\ Reaches("select") <=> y.kind = "select"
      /\ Reaches("reply") <=> y.kind = "reply"
  BY DEF OfonoReceives, Reaches
<1>2. y \in BusItem
  BY <1>1 DEF IInv, AgentTypeOK
<1>3. /\ \A k : y \notin Registering(k)
      /\ y.kind = "unregister" => y \in Unregistering
      /\ y.kind = "reply" => y \in Replying(y.n)
  BY <1>1, <1>2 DEF Registering, Unregistering, Replying
<1>4. /\ holds' = (holds /\ ~Reaches("unregister"))
      /\ session' = (session \/ (Reaches("select") /\ iface))
      /\ call' = IF \/ Reaches("reply") /\ call.n = y.n
                    \/ Reaches("unregister") /\ ~call.session
                 THEN NoCall ELSE call
      /\ UNCHANGED daemonVars /\ UNCHANGED <<iface, moved, refusals, changes, calls>>
  BY DEF OfonoReceives
<1>5. /\ moved \in BOOLEAN /\ holds \in BOOLEAN /\ session \in BOOLEAN /\ iface \in BOOLEAN /\ call.session \in BOOLEAN
      /\ refusals \in 0..MaxRefusals /\ changes \in 0..MaxChanges /\ calls \in 0..MaxCalls
      /\ ~iface => ~holds /\ ~session /\ call = NoCall
      /\ call.n = 0 => call = NoCall
  BY DEF IInv, AgentTypeOK, Waits, Numbers, AgentCall
<1>6. /\ holds' \in BOOLEAN /\ session' \in BOOLEAN /\ iface' \in BOOLEAN /\ moved' \in BOOLEAN
      /\ refusals' \in 0..MaxRefusals /\ changes' \in 0..MaxChanges /\ calls' \in 0..MaxCalls
      /\ calls <= calls'
  BY <1>4, <1>5
<1>7. /\ ~iface' => ~holds' /\ ~session' /\ call' = NoCall
      /\ holds => holds' \/ y \in Unregistering
  BY <1>1, <1>3, <1>4, <1>5
<1>8. PICK m : /\ News(m) /\ Tell(m)
               /\ Reaches("unregister") /\ call.n # 0 /\ ~call.session
                    => Occurs(m, Killing(call.session))
  <2>2. CASE Reaches("unregister") /\ call.n # 0 /\ ~call.session
    <3>1. PICK x : x = Msg("cancel", 0, FALSE)
      OBVIOUS
    <3>2. x \in BusItem /\ News(<<x>>) /\ \A K : Occurs(<<x>>, K) <=> x \in K
      BY <3>1, NewsOfOne
    <3>3. Tell(<<x>>)
      BY <1>1, <2>2, <3>1 DEF OfonoReceives
    <3>4. x \in Killing(FALSE) /\ call.session = FALSE
      BY <1>5, <2>2, <3>1, <3>2 DEF Msg, Killing
    <3>5. Occurs(<<x>>, Killing(call.session))
      BY <3>2, <3>4, Zenon
    <3>. QED
      BY <3>2, <3>3, <3>5
  <2>3. CASE ~(Reaches("unregister") /\ call.n # 0 /\ ~call.session)
    <3>1. UNCHANGED toDaemon
      BY <2>3 DEF OfonoReceives
    <3>2. Tell(<<>>)
      BY <3>1 DEF Tell, IInv, AgentTypeOK
    <3>. QED
      BY <2>3, <3>2, NoNews
  <2>. QED
    BY <2>2, <2>3
<1>9. \/ call' = call
      \/ /\ call' = NoCall
         /\ \/ call = NoCall
            \/ Occurs(m, Killing(call.session))
            \/ y \in Replying(call.n)
  <2>1. CASE Reaches("reply") /\ call.n = y.n
    <3>1. y \in Replying(call.n)
      BY <1>1, <1>3, <2>1
    <3>. QED
      BY <1>4, <2>1, <3>1
  <2>2. CASE Reaches("unregister") /\ ~call.session
    BY <1>4, <1>5, <1>8, <2>2
  <2>3. CASE ~(Reaches("reply") /\ call.n = y.n) /\ ~(Reaches("unregister") /\ ~call.session)
    BY <1>4, <2>3
  <2>. QED
    BY <2>1, <2>2, <2>3
<1>. QED
  BY <1>1, <1>3, <1>4, <1>6, <1>7, <1>8, <1>9, NewsStep

(* ofono calls an agent it has.                                            *)
LEMMA OfonoCallsStep ==
  ASSUME IInv, OfonoCalls
  PROVE  IInv'
<1>1. PICK s \in (IF session THEN {TRUE} ELSE {}) \cup (IF holds THEN {FALSE} ELSE {}) :
        /\ call' = [n |-> calls + 1, session |-> s]
        /\ Tell(<<Msg("call", calls + 1, s)>>)
  BY DEF OfonoCalls
<1>2. s \in BOOLEAN /\ iface
  BY <1>1 DEF IInv, Waits
<1>3. PICK x : x = Msg("call", calls + 1, s)
  OBVIOUS
<1>4. /\ call = NoCall /\ calls \in Nat /\ calls' = calls + 1 /\ calls' \in 0..MaxCalls
      /\ UNCHANGED <<stk, agent_registered, register_pending, retry_source, retry_attempts, pending,
                     instances, iface, moved, holds, session, refusals, changes, toOfono>>
      /\ toDaemon' = toDaemon \o <<x>>
  BY <1>1, <1>3, StkAgentAssumption, SMTT(30) DEF OfonoCalls, daemonVars, Tell, IInv, AgentTypeOK
<1>5. /\ x \in BusItem /\ x \notin Losing
      /\ \A k : x \notin Killing(k) /\ x \notin Registered(k) /\ x \notin Granted(k)
      /\ \A k : x \in Calling(k) => k = calls + 1
      /\ \A k, t : x \in CallOf(k, t) => k = calls + 1 /\ t = s
  BY <1>2, <1>3, <1>4 DEF Msg, BusItem, Losing, Killing, Registered, Granted, Calling, CallOf
<1>6. /\ <<x>> \in Seq(BusItem)
      /\ \A K : Occurs(<<x>>, K) <=> x \in K
      /\ \A K, L : NotFollowed(<<x>>, K, L)
  BY <1>5, Ones
<1>7. /\ toDaemon' \in Seq(BusItem)
      /\ \A K : Occurs(toDaemon', K) <=> Occurs(toDaemon, K) \/ x \in K
      /\ \A K, L : Followed(toDaemon, K, L) /\ x \notin K => Followed(toDaemon', K, L)
      /\ \A K, L : NotFollowed(toDaemon, K, L) /\ ~(Occurs(toDaemon, K) /\ x \in L)
                     => NotFollowed(toDaemon', K, L)
  BY <1>4, <1>6, Cats, Absent DEF IInv, AgentTypeOK
<1>8. ~Occurs(toDaemon, Calling(calls + 1)) /\ ~Occurs(toOfono, Replying(calls + 1))
  BY <1>4 DEF IInv, Numbers
<1>9. \A k : x \notin Calling(k) \/ k = calls + 1
  BY <1>5
<1>10. AgentTypeOK'
  <2>1. call' \in AgentCall
    BY <1>1, <1>2, <1>4 DEF AgentCall
  <2>. QED
    BY <1>4, <1>7, <2>1 DEF IInv, AgentTypeOK
<1>11. Waits'
  BY <1>2, <1>4 DEF IInv, Waits
<1>12. Numbers'
  <2>1. call'.n = calls + 1
    BY <1>1
  <2>2. ASSUME NEW n \in Nat \ (1..calls')
        PROVE  ~Occurs(toDaemon', Calling(n)) /\ ~Occurs(toOfono', Replying(n))
    <3>1. n \in Nat \ (1..calls) /\ n # calls + 1
      BY <1>4, <2>2
    <3>2. ~Occurs(toDaemon, Calling(n)) /\ ~Occurs(toOfono, Replying(n))
      BY <3>1 DEF IInv, Numbers
    <3>. QED
      BY <1>4, <1>5, <1>7, <3>1, <3>2
  <2>3. ASSUME NEW n \in Nat \ (1..instances)
        PROVE  ~Occurs(toDaemon', Registered(n)) /\ ~Occurs(toOfono', Registering(n))
    <3>1. ~Occurs(toDaemon, Registered(n)) /\ ~Occurs(toOfono, Registering(n))
      BY DEF IInv, Numbers
    <3>. QED
      BY <1>4, <1>5, <1>7, <3>1
  <2>4. \A r \in pending : r.n \in 1..calls'
    BY <1>4 DEF IInv, Numbers
  <2>. QED
    BY <1>4, <2>1, <2>2, <2>3, <2>4 DEF IInv, Numbers
<1>13. Registration'
  <2>1. Occurs(toDaemon', Registered(stk)) <=> Occurs(toDaemon, Registered(stk))
    BY <1>5, <1>7
  <2>2. NotFollowed(toDaemon', Registered(stk), Registered(stk))
    BY <1>5, <1>7 DEF IInv, Registration
  <2>. QED
    BY <1>4, <2>1, <2>2 DEF IInv, Registration
<1>14. Belief'
  <2>1. Occurs(toDaemon', Registered(stk)) <=> Occurs(toDaemon, Registered(stk))
    BY <1>5, <1>7
  <2>2. holds \/ Followed(toDaemon', Granted(stk), Losing)
    BY <1>5, <1>7 DEF IInv, Belief
  <2>. QED
    BY <1>4, <1>7, <2>1, <2>2 DEF IInv, Belief
<1>15. Calls'
  <2>1. ASSUME NEW r \in pending
        PROVE  /\ r # call' => Occurs(toDaemon', Killing(r.session))
               /\ ~Occurs(toDaemon', Calling(r.n)) /\ ~Occurs(toOfono', Replying(r.n))
    <3>1. r # call /\ r.n # calls + 1
      BY <1>4 DEF IInv, Numbers, NoCall
    <3>2. /\ Occurs(toDaemon, Killing(r.session))
          /\ ~Occurs(toDaemon, Calling(r.n)) /\ ~Occurs(toOfono, Replying(r.n))
      BY <3>1 DEF IInv, Calls
    <3>. QED
      BY <1>4, <1>7, <1>9, <3>1, <3>2
  <2>2. ASSUME NEW n \in Nat, NEW t \in BOOLEAN, [n |-> n, session |-> t] # call'
        PROVE  Followed(toDaemon', CallOf(n, t), Killing(t))
    <3>1. x \notin CallOf(n, t)
      BY <1>1, <1>5, <2>2
    <3>2. Followed(toDaemon, CallOf(n, t), Killing(t))
      <4>1. CASE [n |-> n, session |-> t] # call
        BY <4>1 DEF IInv, Calls
      <4>2. CASE [n |-> n, session |-> t] = call
        <5>1. n \in Nat \ (1..calls)
          BY <1>4, <4>2 DEF NoCall
        <5>2. ~Occurs(toDaemon, Calling(n))
          BY <5>1 DEF IInv, Numbers
        <5>. QED
          BY <5>2, Narrower, Absent, Zenon
      <4>. QED
        BY <4>1, <4>2
    <3>. QED
      BY <1>7, <3>1, <3>2
  <2>3. ASSUME NEW n \in Nat
        PROVE  NotFollowed(toDaemon', Calling(n), Calling(n))
    <3>1. NotFollowed(toDaemon, Calling(n), Calling(n))
      BY DEF IInv, Calls
    <3>2. ~(Occurs(toDaemon, Calling(n)) /\ x \in Calling(n))
      BY <1>8, <1>9
    <3>. QED
      BY <1>7, <3>1, <3>2
  <2>4. ASSUME NEW n \in Nat, Occurs(toOfono', Replying(n))
        PROVE  ~Occurs(toDaemon', Calling(n))
    <3>1. Occurs(toOfono, Replying(n)) /\ n # calls + 1
      BY <1>4, <1>8, <2>4
    <3>2. ~Occurs(toDaemon, Calling(n))
      BY <3>1 DEF IInv, Calls
    <3>. QED
      BY <1>7, <1>9, <3>1, <3>2
  <2>. QED
    BY <1>4, <2>1, <2>2, <2>3, <2>4 DEF Calls
<1>. QED
  BY <1>10, <1>11, <1>12, <1>13, <1>14, <1>15 DEF IInv

(* ofono answers RegisterAgent.                                            *)
LEMMA OfonoRegisterStep ==
  ASSUME IInv, OfonoRegister
  PROVE  IInv'
<1>. DEFINE y == Head(toOfono)
<1>1. toOfono # <<>> /\ y.kind = "register" /\ toOfono' = Tail(toOfono)
  BY DEF OfonoRegister, Reaches
<1>2. y \in BusItem
  BY <1>1 DEF IInv, AgentTypeOK
<1>3. y.n \in Nat
  BY <1>2 DEF BusItem
<1>4. /\ y \in Registering(y.n) /\ \A k : y \in Registering(k) => k = y.n
      /\ y \notin Unregistering /\ \A k : y \notin Replying(k)
  BY <1>1, <1>2 DEF Registering, Unregistering, Replying
<1>5. PICK ok \in BOOLEAN :
        /\ ok => iface /\ ~holds
        /\ ~ok => \/ ~iface \/ holds
                  \/ refusals < MaxRefusals
        /\ refusals' = IF ~ok /\ iface /\ ~holds THEN refusals + 1 ELSE refusals
        /\ holds' = (holds \/ ok)
        /\ Tell(<<Msg("registered", y.n, ok)>>)
  BY DEF OfonoRegister
<1>6. PICK x : x = Msg("registered", y.n, ok)
  OBVIOUS
<1>7. /\ UNCHANGED <<stk, agent_registered, register_pending, retry_source, retry_attempts, pending,
                     instances, iface, moved, session, call, changes, calls>>
      /\ toDaemon' = toDaemon \o <<x>>
      /\ holds' \in BOOLEAN /\ refusals' \in 0..MaxRefusals
      /\ holds => holds'
      /\ ~iface => ~holds'
      /\ ok => holds'
  BY <1>5, <1>6, StkAgentAssumption, SMTT(30) DEF OfonoRegister, daemonVars, Tell, IInv, AgentTypeOK, Waits
<1>8. /\ x \in BusItem /\ x \notin Losing
      /\ \A k : x \notin Killing(k) /\ x \notin Calling(k)
      /\ \A k : x \in Registered(k) <=> k = y.n
      /\ \A k : x \in Granted(k) => ok
      /\ \A k, t : x \notin CallOf(k, t)
  BY <1>3, <1>6 DEF Msg, BusItem, Losing, Killing, Registered, Granted, Calling, CallOf
<1>9. /\ <<x>> \in Seq(BusItem)
      /\ \A K : Occurs(<<x>>, K) <=> x \in K
      /\ \A K, L : NotFollowed(<<x>>, K, L)
  BY <1>8, Ones
<1>10. /\ toDaemon' \in Seq(BusItem)
       /\ \A K : Occurs(toDaemon', K) <=> Occurs(toDaemon, K) \/ x \in K
       /\ \A K, L : Followed(toDaemon, K, L) /\ x \notin K => Followed(toDaemon', K, L)
       /\ \A K, L : NotFollowed(toDaemon, K, L) /\ ~(Occurs(toDaemon, K) /\ x \in L)
                      => NotFollowed(toDaemon', K, L)
  BY <1>7, <1>9, Cats, Absent DEF IInv, AgentTypeOK
<1>11. /\ toOfono' \in Seq(BusItem)
       /\ \A K : Occurs(toOfono, K) <=> y \in K \/ Occurs(toOfono', K)
       /\ \A K, L : NotFollowed(toOfono, K, L) => /\ y \in K => ~Occurs(toOfono', L)
                                                  /\ NotFollowed(toOfono', K, L)
  BY <1>1, Takes DEF IInv
<1>12. Occurs(toOfono, Registering(y.n))
  BY <1>4, <1>11, Zenon
<1>13. y.n \in 1..instances
  BY <1>3, <1>12 DEF IInv, Numbers
<1>14. AgentTypeOK'
  BY <1>7, <1>10, <1>11 DEF IInv, AgentTypeOK
<1>15. Waits'
  BY <1>7 DEF IInv, Waits
<1>16. Numbers'
  <2>1. ASSUME NEW n \in Nat \ (1..calls)
        PROVE  ~Occurs(toDaemon', Calling(n)) /\ ~Occurs(toOfono', Replying(n))
    <3>1. ~Occurs(toDaemon, Calling(n)) /\ ~Occurs(toOfono, Replying(n))
      BY DEF IInv, Numbers
    <3>. QED
      BY <1>8, <1>10, <1>11, <3>1, Zenon
  <2>2. ASSUME NEW n \in Nat \ (1..instances)
        PROVE  ~Occurs(toDaemon', Registered(n)) /\ ~Occurs(toOfono', Registering(n))
    <3>1. ~Occurs(toDaemon, Registered(n)) /\ ~Occurs(toOfono, Registering(n)) /\ n # y.n
      BY <1>13 DEF IInv, Numbers
    <3>. QED
      BY <1>8, <1>10, <1>11, <3>1, Zenon
  <2>. QED
    BY <1>7, <2>1, <2>2 DEF IInv, Numbers
<1>17. ASSUME y.n = stk
       PROVE  Registration' /\ Belief'
  <2>1. /\ stk # 0 /\ register_pending
        /\ ~Occurs(toDaemon, Registered(stk))
        /\ ~Occurs(toOfono', Registering(stk)) /\ ~Occurs(toOfono', Unregistering)
        /\ ~agent_registered
    <3>1. stk # 0
      BY <1>13, <1>17
    <3>2. register_pending /\ ~Occurs(toDaemon, Registered(stk)) /\ ~agent_registered
      BY <1>12, <1>17, <3>1 DEF IInv, Registration, Waits
    <3>3. /\ NotFollowed(toOfono, Registering(stk), Registering(stk))
          /\ NotFollowed(toOfono, Registering(stk), Unregistering)
      BY DEF IInv, Registration, Belief
    <3>4. ~Occurs(toOfono', Registering(stk)) /\ ~Occurs(toOfono', Unregistering)
      BY <1>4, <1>11, <1>17, <3>3, Zenon
    <3>. QED
      BY <3>1, <3>2, <3>4
  <2>2. /\ Occurs(toDaemon', Registered(stk))
        /\ NotFollowed(toDaemon', Registered(stk), Registered(stk))
    BY <1>8, <1>10, <1>17, <2>1, Absent
  <2>3. Registration'
    BY <1>7, <2>1, <2>2, Absent DEF Registration
  <2>4. holds' \/ Followed(toDaemon', Granted(stk), Losing)
    BY <1>7, <1>8, <1>10 DEF IInv, Belief
  <2>5. Belief'
    BY <1>7, <2>1, <2>4, Absent DEF Belief
  <2>. QED
    BY <2>3, <2>5
<1>18. ASSUME y.n # stk
       PROVE  Registration' /\ Belief'
  <2>1. /\ Occurs(toDaemon', Registered(stk)) <=> Occurs(toDaemon, Registered(stk))
        /\ Occurs(toOfono', Registering(stk)) <=> Occurs(toOfono, Registering(stk))
        /\ NotFollowed(toDaemon, Registered(stk), Registered(stk))
             => NotFollowed(toDaemon', Registered(stk), Registered(stk))
    <3>1. x \notin Registered(stk) /\ y \notin Registering(stk)
      BY <1>4, <1>8, <1>18
    <3>. QED
      BY <1>10, <1>11, <3>1, Zenon
  <2>2. Registration'
    BY <1>7, <1>11, <2>1 DEF IInv, Registration
  <2>3. holds' \/ Followed(toDaemon', Granted(stk), Losing)
    BY <1>7, <1>8, <1>10 DEF IInv, Belief
  <2>4. Occurs(toDaemon, Losing) => Occurs(toDaemon', Losing)
    BY <1>10, Zenon
  <2>5. Occurs(toOfono', Unregistering) => Occurs(toOfono, Unregistering)
    BY <1>11, Zenon
  <2>6. Belief'
    BY <1>7, <1>11, <2>1, <2>3, <2>4, <2>5 DEF IInv, Belief
  <2>. QED
    BY <2>2, <2>6
<1>19. Registration' /\ Belief'
  BY <1>17, <1>18
<1>20. Calls'
  <2>1. ASSUME NEW n \in Nat
        PROVE  /\ NotFollowed(toDaemon', Calling(n), Calling(n))
               /\ Occurs(toOfono', Replying(n)) => ~Occurs(toDaemon', Calling(n))
    <3>1. /\ NotFollowed(toDaemon, Calling(n), Calling(n))
          /\ Occurs(toOfono, Replying(n)) => ~Occurs(toDaemon, Calling(n))
      BY DEF IInv, Calls
    <3>. QED
      BY <1>8, <1>10, <1>11, <3>1, Zenon
  <2>2. ASSUME NEW r \in pending
        PROVE  /\ r # call => Occurs(toDaemon', Killing(r.session))
               /\ ~Occurs(toDaemon', Calling(r.n)) /\ ~Occurs(toOfono', Replying(r.n))
    <3>1. /\ r # call => Occurs(toDaemon, Killing(r.session))
          /\ ~Occurs(toDaemon, Calling(r.n)) /\ ~Occurs(toOfono, Replying(r.n))
      BY DEF IInv, Calls
    <3>. QED
      BY <1>8, <1>10, <1>11, <3>1, Zenon
  <2>3. ASSUME NEW n \in Nat, NEW s \in BOOLEAN, [n |-> n, session |-> s] # call
        PROVE  Followed(toDaemon', CallOf(n, s), Killing(s))
    <3>1. Followed(toDaemon, CallOf(n, s), Killing(s))
      BY <2>3 DEF IInv, Calls
    <3>. QED
      BY <1>8, <1>10, <3>1, Zenon
  <2>. QED
    BY <1>7, <2>1, <2>2, <2>3 DEF Calls
<1>. QED
  BY <1>14, <1>15, <1>16, <1>19, <1>20 DEF IInv

-----------------------------------------------------------------------------
(* The initial state.                                                      *)
LEMMA InitHolds == AgentInit => IInv
<1>. SUFFICES ASSUME AgentInit PROVE IInv
  OBVIOUS
<1>1. /\ toDaemon = <<>> /\ toOfono = <<>> /\ <<>> \in Seq(BusItem)
      /\ \A K : ~Occurs(toDaemon, K) /\ ~Occurs(toOfono, K)
      /\ \A K, L : /\ Followed(toDaemon, K, L) /\ NotFollowed(toDaemon, K, L)
                   /\ NotFollowed(toOfono, K, L)
  BY Nones DEF AgentInit
<1>2. call \in AgentCall /\ call.n = 0 /\ calls = 0 /\ pending = {}
  BY DEF AgentInit, NoCall, AgentCall
<1>3. AgentTypeOK
  <2>1. {RetryMax, MaxRefusals, MaxChanges, MaxCalls, MaxInstances} \subseteq Nat
    BY StkAgentAssumption
  <2>2. /\ stk \in 0..MaxInstances /\ instances \in stk..MaxInstances /\ retry_attempts \in 0..RetryMax
        /\ refusals \in 0..MaxRefusals /\ changes \in 0..MaxChanges /\ calls \in 0..MaxCalls
    BY <2>1 DEF AgentInit
  <2>. QED
    BY <1>1, <1>2, <2>2 DEF AgentInit, AgentTypeOK
<1>4. Waits
  BY DEF AgentInit, Waits
<1>5. Numbers
  BY <1>1, <1>2 DEF AgentInit, Numbers
<1>6. Registration /\ Belief /\ Calls
  BY <1>1, <1>2 DEF AgentInit, Registration, Belief, Calls
<1>. QED
  BY <1>3, <1>4, <1>5, <1>6 DEF IInv

(* Every step of either process.                                           *)
LEMMA AgentStep == IInv /\ [AgentNext]_agentVars => IInv'
<1>. SUFFICES ASSUME IInv, [AgentNext]_agentVars
              PROVE  IInv'
  OBVIOUS
<1>1. CASE AgentNext
  BY <1>1, InterfacesStep, RegisteredStep, DispatchStep, CancelStep, ReleaseStep, DetachStep,
     RetryStep, AnswerStep, SelectStep, OfonoRegisterStep, OfonoReceivesStep, InterfaceStep,
     OtherInterfaceStep, OfonoCallsStep, OfonoCancelsStep, OfonoReleasesStep
     DEF AgentNext, DaemonReceives, OfonoHandles
<1>2. CASE UNCHANGED agentVars
  BY <1>2 DEF IInv, AgentTypeOK, Waits, Numbers, Registration, Belief, Calls, agentVars, daemonVars,
              ofonoVars
<1>. QED
  BY <1>1, <1>2

(* Both processes keep the invariant.                                      *)
THEOREM AgentKeepsIInv == AgentSpec => []IInv
BY InitHolds, AgentStep, PTL DEF AgentSpec

(* Every variable of StkAgent keeps its type, however long the two talk.   *)
THEOREM AgentIsWellTyped == AgentSpec => []AgentTypeOK
<1>1. IInv => AgentTypeOK
  BY DEF IInv
<1>. QED
  BY <1>1, AgentKeepsIInv, PTL

(* The object that believes its agent registered (ofonostk.c,              *)
(* register_agent_cb) is right, or the news that it is not is in its       *)
(* socket, whatever objects came and went before it.                       *)
THEOREM BeliefIsRight == AgentSpec => []BelievedHeld
<1>1. IInv => BelievedHeld
  <2>1. ASSUME IInv, agent_registered
        PROVE  holds \/ Coming({"release"}, {FALSE}) \/ Coming({"interfaces"}, {FALSE})
    <3>1. CASE holds
      BY <3>1
    <3>2. CASE Occurs(toDaemon, Losing)
      <4>1. PICK i \in 1..Len(toDaemon) : toDaemon[i] \in Losing
        BY <3>2 DEF Occurs
      <4>2. i \in DOMAIN toDaemon
        BY <2>1 DEF IInv, AgentTypeOK
      <4>3. /\ toDaemon[i].kind \in {"release", "interfaces"}
            /\ toDaemon[i].flag = FALSE
        BY <4>1 DEF Losing, BusItem
      <4>. QED
        BY <4>2, <4>3 DEF Coming
    <3>. QED
      BY <2>1, <3>1, <3>2 DEF IInv, Belief
  <2>. QED
    BY <2>1 DEF BelievedHeld
<1>. QED
  BY <1>1, AgentKeepsIInv, PTL

(* The object is never left waiting for an answer that is not coming, nor  *)
(* without a timer to try again (ofonostk.c, schedule_register), until its *)
(* attempts are used up.                                                   *)
THEOREM AgentIsNeverStuck == AgentSpec => []NeverStuck
<1>1. ASSUME NEW q \in Seq(BusItem), NEW kind, NEW K, K = {m \in BusItem : m.kind = kind /\ m.n = stk},
             NotFollowed(q, K, K)
      PROVE  Cardinality(InFlight(q, kind)) = IF Occurs(q, K) THEN 1 ELSE 0
  <2>. DEFINE F == InFlight(q, kind)
  <2>1. F = {i \in 1..Len(q) : q[i] \in K}
    BY <1>1 DEF InFlight
  <2>. HIDE DEF F
  <2>2. CASE Occurs(q, K)
    <3>1. PICK i \in 1..Len(q) : q[i] \in K
      BY <2>2 DEF Occurs
    <3>2. \A j \in F : j = i
      <4>1. \A j \in F : j \in 1..Len(q) /\ q[j] \in K /\ ~(i < j) /\ ~(j < i)
        BY <1>1, <2>1, <3>1 DEF NotFollowed
      <4>. QED
        BY <4>1
    <3>3. F = {i}
      BY <2>1, <3>1, <3>2
    <3>. QED
      BY <2>2, <3>3, FS_Singleton DEF F
  <2>3. CASE ~Occurs(q, K)
    <3>1. F = {}
      BY <2>1, <2>3 DEF Occurs
    <3>. QED
      BY <2>3, <3>1, FS_EmptySet DEF F
  <2>. QED
    BY <2>2, <2>3
<1>2. ASSUME IInv, stk # 0
      PROVE  RegistersInFlight = IF register_pending THEN 1 ELSE 0
  <2>1. toOfono \in Seq(BusItem) /\ toDaemon \in Seq(BusItem)
    BY <1>2 DEF IInv, AgentTypeOK
  <2>2. Cardinality(InFlight(toOfono, "register"))
          = IF Occurs(toOfono, Registering(stk)) THEN 1 ELSE 0
    BY <1>1, <1>2, <2>1 DEF IInv, Registration, Registering
  <2>3. Cardinality(InFlight(toDaemon, "registered"))
          = IF Occurs(toDaemon, Registered(stk)) THEN 1 ELSE 0
    BY <1>1, <1>2, <2>1 DEF IInv, Registration, Registered
  <2>4. /\ register_pending <=> \/ Occurs(toOfono, Registering(stk))
                                \/ Occurs(toDaemon, Registered(stk))
        /\ ~(Occurs(toOfono, Registering(stk)) /\ Occurs(toDaemon, Registered(stk)))
    BY <1>2 DEF IInv, Registration
  <2>. QED
    BY <2>2, <2>3, <2>4 DEF RegistersInFlight
<1>3. IInv => NeverStuck
  BY <1>2 DEF IInv, Waits, NeverStuck
<1>. QED
  BY <1>3, AgentKeepsIInv, PTL

(* No dialog is left on the screen for a call that nobody waits for: ofono *)
(* waits for its answer, or the end of the request is in the socket        *)
(* (ofonostk.c, dispatch and the handlers of Cancel and Release).          *)
THEOREM PendingDialogsAreLive == AgentSpec => []DialogsAreLive
<1>1. ASSUME IInv, NEW r \in pending
      PROVE  /\ stk # 0
             /\ \/ call.n = r.n
                \/ Coming({"cancel", "release"}, {r.session})
                \/ Coming({"interfaces"}, {FALSE})
  <2>1. stk # 0
    BY <1>1 DEF IInv, Waits
  <2>2. CASE r = call
    BY <2>1, <2>2
  <2>3. CASE r # call
    <3>1. PICK i \in 1..Len(toDaemon) : toDaemon[i] \in Killing(r.session)
      BY <1>1, <2>3 DEF IInv, Calls, Occurs
    <3>2. i \in DOMAIN toDaemon
      BY <1>1 DEF IInv, AgentTypeOK
    <3>3. \/ toDaemon[i].kind \in {"cancel", "release"} /\ toDaemon[i].flag = r.session
          \/ toDaemon[i].kind = "interfaces" /\ toDaemon[i].flag = FALSE
      BY <3>1 DEF Killing, BusItem
    <3>. QED
      BY <2>1, <3>2, <3>3 DEF Coming
  <2>. QED
    BY <2>2, <2>3
<1>2. IInv => DialogsAreLive
  BY <1>1 DEF DialogsAreLive
<1>. QED
  BY <1>2, AgentKeepsIInv, PTL
=============================================================================
