---------------------------- MODULE SlotsProofs ----------------------------
(***************************************************************************)
(* Proofs about Slots, for up to eight modems and any number of restarts   *)
(* of ofono and of messages in transit: the slots are the modems in the    *)
(* order of their paths, the daemon learns of every modem and of its       *)
(* properties, and a slot whose modem never moved becomes available.       *)
(***************************************************************************)
EXTENDS Slots, FiniteSetTheorems, SequenceTheorems, TLAPS

-----------------------------------------------------------------------------
(* The invariant, in four parts.                                           *)

Increasing(list) == \A m, n \in DOMAIN list : m < n => list[m] < list[n]

ListedIn(list, p) == \E n \in DOMAIN list : list[n] = p
IsListed(p) == ListedIn(modems, p)

Object == [there : BOOLEAN, gen : Nat, powered : BOOLEAN, interfaces : BOOLEAN,
           handler : 0..(MaxModem + 1)]
Slot == [modem : Modem, initializing : BOOLEAN, interfaces : BOOLEAN]

(* What may be on its way.                                                 *)
Kind == {"appeared", "vanished", "ModemAdded", "ModemRemoved", "Properties", "Powered",
         "Interfaces", "Modems"}
WireMessage == [kind : Kind, modem : Modem, gen : Nat, value : BOOLEAN \cup SUBSET Modem]
Request == [kind : {"GetModems", "GetProperties"}, modem : Modem, gen : Nat]

WireTypeOK ==
  /\ gen \in Nat /\ orderly \in BOOLEAN
  /\ reqs \in Seq(Request) /\ wire \in Seq(WireMessage)
  /\ \A n \in DOMAIN wire :
       wire[n].value \in IF wire[n].kind = "Modems" THEN SUBSET Modem ELSE BOOLEAN

(* The driver's slots are the modems of the list, and so are the service's *)
(* in number; each modem on the list, and no other, has an object, which   *)
(* calls for the slot the modem is in.                                     *)
SlotsMatch ==
  /\ Increasing(modems) /\ (modems # <<>> => manager)
  /\ DOMAIN sims = DOMAIN modems /\ DOMAIN svc = DOMAIN modems
  /\ \A n \in DOMAIN modems : sims[n].modem = modems[n]
  /\ \A p \in Modem : obj[p].there <=> IsListed(p)
  /\ \A p \in Modem : obj[p].there =>
       obj[p].handler \in DOMAIN modems /\ modems[obj[p].handler] = p

SlotsInv == SlotsTypeOK /\ WireTypeOK /\ SlotsMatch

-----------------------------------------------------------------------------
(* What is on its way: messages of a sort B are, or are not; each of a     *)
(* sort A has one of a sort B after it, or before it; two of A have one of *)
(* B in between; the last of A has none of B after it.                     *)
Occurs(B) == \E n \in DOMAIN wire : wire[n] \in B
Followed(A, B) == \A n \in DOMAIN wire : wire[n] \in A => \E k \in n..Len(wire) : wire[k] \in B
Preceded(A, B) == \A n \in DOMAIN wire : wire[n] \in A => \E k \in 1..n : wire[k] \in B
Parted(A, B) ==
  \A i, n \in DOMAIN wire : wire[i] \in A /\ wire[n] \in A /\ i < n =>
    \E k \in i..n : wire[k] \in B
Lasts(A, B) ==
  \E n \in DOMAIN wire : wire[n] \in A /\ \A k \in n + 1..Len(wire) : wire[k] \notin B

(* The sorts: ofono comes or goes, a modem is added or removed, a property *)
(* of an object is told, and what it is.                                   *)
Sort(kind) == {m \in WireMessage : m.kind = kind}
Coming == Sort("appeared")
Going == Sort("vanished")
Adding(p) ==
  {m \in WireMessage : \/ m.kind = "ModemAdded" /\ m.modem = p
                       \/ m.kind = "Modems" /\ p \in m.value}
Removing(p) == {m \in Sort("ModemRemoved") : m.modem = p}
Ending(p) == Removing(p) \cup Going
Telling(p, g, kind) ==
  {m \in WireMessage :
     m.modem = p /\ (m.kind = kind \/ (m.kind = "Properties" /\ m.gen = g))}
Saying(p, g, kind, v) == {m \in Telling(p, g, kind) : m.value = v}

IsAsked(r) == \E n \in DOMAIN reqs : reqs[n] = r

(* ofono comes and goes by turns, and the manager with it.                 *)
Turns ==
  /\ Parted(Coming, Going)
  /\ manager => Preceded(Coming, Going)
  /\ ofono => Followed(Going, Coming)
  /\ ~ofono => Followed(WireMessage, Going)
  /\ ~ofono /\ manager => Occurs(Going)
  /\ ofono /\ ~Occurs(Coming) => manager

(* Nothing of an earlier ofono is to come.                                 *)
Session == ofono /\ ~Occurs(Coming)

(* A modem that is not there is not on the list, or will go from it.       *)
Leaves(p) == Followed(Adding(p), Ending(p)) /\ (obj[p].there => Occurs(Ending(p)))
NoneKept == \A p \in Modem \ Present : Leaves(p)

(* One that is there is on the list, or will be.                           *)
Noticed(p) ==
  \/ IsAsked(GetModems) \/ Lasts(Adding(p), Removing(p))
  \/ obj[p].there /\ ~Occurs(Removing(p))
NoneMissed == Session => \A p \in Present : Noticed(p)

(* The object of one that stays knows a property, has asked for it, or the *)
(* last message about it says it.                                          *)
Told(p, g, kind, known, v) ==
  \/ IsAsked(GetProperties(p, g))
  \/ Lasts(Saying(p, g, kind, v), Telling(p, g, kind))
  \/ ~Occurs(Telling(p, g, kind)) /\ known = v

Known(p) ==
  obj[p].there /\ ~Occurs(Removing(p)) =>
    /\ Told(p, obj[p].gen, "Powered", obj[p].powered, modem[p] = "on")
    /\ Told(p, obj[p].gen, "Interfaces", obj[p].interfaces, modem[p] = "on")
NothingUntold == Session => \A p \in Present : Known(p)

NewsInv == Turns /\ NoneKept /\ NoneMissed /\ NothingUntold

-----------------------------------------------------------------------------
(* When modems come and go in order, one at a time.                        *)
Listed == {p \in Modem : IsListed(p)}
Lowest(S) == \A p \in S : \A q \in 0..p : q \in S

Changing == Sort("ModemAdded") \cup Sort("ModemRemoved")
Outdated == {m \in Sort("Modems") : m.value # Present}
ListIsComing == Occurs(Sort("Modems")) \/ \E n \in DOMAIN reqs : reqs[n].kind = "GetModems"

(* A change of the modems is the first that is told, and the only one.     *)
OnlyFirstChanges ==
  wire # <<>> /\ (\A n \in 2..Len(wire) : wire[n] \notin Changing) /\ ~ListIsComing
Settled == ~Occurs(Changing) /\ (modems = <<>> \/ Listed = Present)
AddedNext ==
  /\ OnlyFirstChanges /\ wire[1].kind = "ModemAdded"
  /\ wire[1].modem \in Present /\ Listed = Present \ {wire[1].modem}
RemovedNext ==
  /\ OnlyFirstChanges /\ wire[1].kind = "ModemRemoved"
  /\ wire[1].modem \notin Present /\ Listed = Present \cup {wire[1].modem}

InOrderly ==
  orderly =>
    /\ Lowest(Present)
    /\ ofono => Followed(Outdated, Going)
    /\ ofono /\ ~Session => Followed(Changing, Going)
    /\ Session => Lowest(Listed) /\ (Settled \/ AddedNext \/ RemovedNext)

(* A slot has become available with its modem's power.                     *)
SlotIsUp(n) ==
  /\ svc[n] <=> ~sims[n].initializing
  /\ svc[n] => modems[n] \in configured
  /\ obj[modems[n]].powered => svc[n]
  /\ sims[n].interfaces <=> obj[modems[n]].interfaces
SlotsAreUp == orderly /\ Session => \A n \in DOMAIN modems : SlotIsUp(n)

OrderlyInv == InOrderly /\ SlotsAreUp

-----------------------------------------------------------------------------
(* Lists.                                                                  *)

(* A set of modems in order: each once, the lower ones first.              *)
LEMMA InOrderLists ==
  ASSUME NEW S \in SUBSET Modem
  PROVE  /\ IsFiniteSet(S) /\ Cardinality(S) \in Nat
         /\ InOrder(S) \in [1..Cardinality(S) -> S]
         /\ Increasing(InOrder(S))
         /\ \A p \in S : \E n \in 1..Cardinality(S) : InOrder(S)[n] = p
<1>. DEFINE below(p) == {q \in S : q < p}
            rank == [p \in S |-> Cardinality(below(p))]
            size == Cardinality(S)
<1>1. S \in SUBSET Nat /\ IsFiniteSet(S) /\ size \in Nat
  <2>1. MaxModem \in Nat /\ 0 \in Int /\ MaxModem \in Int
    BY SlotsAssumption
  <2>2. IsFiniteSet(0..MaxModem)
    BY <2>1, FS_Interval
  <2>3. IsFiniteSet(S)
    BY <2>2, FS_Subset DEF Modem
  <2>. QED
    BY <2>1, <2>3, FS_CardinalityType DEF Modem
<1>2. ASSUME NEW p \in S
      PROVE  IsFiniteSet(below(p)) /\ Cardinality(below(p)) \in 0..size - 1
  <2>1. below(p) \in SUBSET S /\ p \in S /\ p \notin below(p)
    BY <1>1
  <2>2. IsFiniteSet(below(p)) /\ Cardinality(below(p)) \in Nat
    BY <1>1, <2>1, FS_Subset, FS_CardinalityType
  <2>3. Cardinality(below(p)) <= size
    BY <1>1, <2>1, FS_Subset
  <2>4. Cardinality(below(p)) # size
    BY <1>1, <2>1, FS_Subset
  <2>. QED
    BY <1>1, <2>2, <2>3, <2>4
<1>3. ASSUME NEW p \in S, NEW q \in S, p < q PROVE rank[p] < rank[q]
  <2>1. below(p) \cup {p} \in SUBSET below(q) /\ p \notin below(p)
    <3>1. p \in Nat /\ q \in Nat
      BY <1>1
    <3>2. ASSUME NEW x \in S, x < p PROVE x < q
      BY <1>1, <1>3, <3>1, <3>2
    <3>3. p \in below(q) /\ p \notin below(p)
      BY <1>3, <3>1
    <3>. QED
      BY <3>2, <3>3, Zenon
  <2>2. Cardinality(below(p) \cup {p}) = Cardinality(below(p)) + 1
    BY <1>2, <2>1, FS_AddElement
  <2>3. Cardinality(below(p) \cup {p}) <= Cardinality(below(q))
    BY <1>2, <2>1, FS_Subset
  <2>4. Cardinality(below(p)) \in Nat /\ Cardinality(below(q)) \in Nat
    BY <1>1, <1>2
  <2>5. Cardinality(below(p)) < Cardinality(below(q))
    BY <2>2, <2>3, <2>4
  <2>. QED
    BY <2>5
<1>4. \A p, q \in S : rank[p] = rank[q] => p = q
  <2>. SUFFICES ASSUME NEW p \in S, NEW q \in S, p # q PROVE rank[p] # rank[q]
    OBVIOUS
  <2>1. p \in Nat /\ q \in Nat /\ rank[p] \in Nat /\ rank[q] \in Nat
    BY <1>1, <1>2
  <2>2. CASE p < q
    BY <2>1, <2>2, <1>3
  <2>3. CASE q < p
    BY <2>1, <2>3, <1>3
  <2>. QED
    BY <2>1, <2>2, <2>3
<1>5. \A n \in 0..size - 1 : \E p \in S : rank[p] = n
  <2>. DEFINE T == 0..size - 1
  <2>1. rank \in [S -> T]
    BY <1>2
  <2>2. IsFiniteSet(T) /\ Cardinality(T) = size
    <3>1. 0 \in Int /\ size - 1 \in Int
      BY <1>1
    <3>2. IsFiniteSet(T) /\ Cardinality(T) = IF 0 > size - 1 THEN 0 ELSE size - 1 - 0 + 1
      BY <3>1, FS_Interval
    <3>. QED
      BY <1>1, <3>2
  <2>3. rank \in Injection(S, T)
    BY <2>1, <1>4 DEF Injection, IsInjective
  <2>4. rank \in Surjection(S, T)
    <3>. HIDE DEF rank, T
    <3>. QED
      BY <2>2, <2>3, FS_Injection
  <2>. QED
    BY <2>4 DEF Surjection
<1>6. ASSUME NEW n \in 1..size
      PROVE  InOrder(S)[n] \in S /\ rank[InOrder(S)[n]] = n - 1
  <2>1. PICK p \in S : Cardinality(below(p)) = n - 1
    <3>1. n - 1 \in 0..size - 1
      BY <1>1
    <3>. QED
      BY <3>1, <1>5
  <2>2. InOrder(S)[n] = CHOOSE x \in S : Cardinality(below(x)) = n - 1
    BY DEF InOrder
  <2>. QED
    BY <2>1, <2>2
<1>7. InOrder(S) \in [1..size -> S]
  BY <1>6 DEF InOrder
<1>8. Increasing(InOrder(S))
  <2>. SUFFICES ASSUME NEW m \in 1..size, NEW n \in 1..size, m < n
                PROVE  InOrder(S)[m] < InOrder(S)[n]
    BY <1>7 DEF Increasing
  <2>. DEFINE p == InOrder(S)[m] q == InOrder(S)[n]
  <2>1. p \in S /\ q \in S /\ p \in Nat /\ q \in Nat /\ rank[p] = m - 1 /\ rank[q] = n - 1
    BY <1>1, <1>6
  <2>2. q < p => rank[q] < rank[p]
    BY <2>1, <1>3
  <2>3. p # q /\ ~(q < p)
    BY <1>1, <2>1, <2>2
  <2>. QED
    BY <2>1, <2>3
<1>9. ASSUME NEW p \in S PROVE \E n \in 1..size : InOrder(S)[n] = p
  <2>1. rank[p] + 1 \in 1..size /\ rank[p] \in Nat
    BY <1>1, <1>2
  <2>2. rank[InOrder(S)[rank[p] + 1]] = rank[p] /\ InOrder(S)[rank[p] + 1] \in S
    BY <2>1, <1>6
  <2>. QED
    BY <2>1, <2>2, <1>4
<1>. QED
  BY <1>1, <1>7, <1>8, <1>9

(* What is left of a list in order is in order.                            *)
LEMMA RemovedFromList ==
  ASSUME NEW list \in Seq(Modem), Increasing(list), NEW p \in Modem,
         \E n \in DOMAIN list : list[n] = p
  PROVE  LET rest == RemoveAt(list, Position(list, p))
         IN  /\ rest \in Seq(Modem) /\ Increasing(rest) /\ Len(rest) = Len(list) - 1
             /\ \A q \in Modem : (\E n \in DOMAIN rest : rest[n] = q) <=>
                                   q # p /\ \E n \in DOMAIN list : list[n] = q
<1>. DEFINE i == Position(list, p)
            before == SubSeq(list, 1, i - 1)
            after == SubSeq(list, i + 1, Len(list))
            rest == before \o after
<1>1. i \in 1..Len(list) /\ list[i] = p /\ Len(list) \in Nat /\ DOMAIN list = 1..Len(list)
  BY Zenon, LenProperties DEF Position
<1>. HIDE DEF i
<1>2. \A n \in 1..Len(list) : list[n] \in Modem /\ list[n] \in Nat
  BY ElementOfSeq, SlotsAssumption DEF Modem
<1>3. /\ before \in Seq(Modem) /\ Len(before) = i - 1
      /\ \A n \in 1..i - 1 : before[n] = list[n]
  <2>1. \A n \in 1..i - 1 : list[n] \in Modem
    BY <1>1, <1>2
  <2>2. 1 \in Int /\ i - 1 \in Int
    BY <1>1
  <2>3. /\ before \in Seq(Modem)
        /\ Len(before) = IF 1 <= i - 1 THEN i - 1 - 1 + 1 ELSE 0
        /\ \A n \in 1..i - 1 - 1 + 1 : before[n] = list[1 + n - 1]
    BY <2>1, <2>2, SubSeqProperties
  <2>. HIDE DEF before
  <2>. QED
    BY <1>1, <2>3
<1>4. /\ after \in Seq(Modem) /\ Len(after) = Len(list) - i
      /\ \A n \in 1..Len(list) - i : after[n] = list[i + n]
  <2>1. \A n \in i + 1..Len(list) : list[n] \in Modem
    BY <1>1, <1>2
  <2>2. i + 1 \in Int /\ Len(list) \in Int
    BY <1>1
  <2>3. /\ after \in Seq(Modem)
        /\ Len(after) = IF i + 1 <= Len(list) THEN Len(list) - (i + 1) + 1 ELSE 0
        /\ \A n \in 1..Len(list) - (i + 1) + 1 : after[n] = list[i + 1 + n - 1]
    BY <2>1, <2>2, SubSeqProperties
  <2>. HIDE DEF after
  <2>4. ASSUME NEW n \in 1..Len(list) - i PROVE after[n] = list[i + n]
    <3>1. n \in 1..Len(list) - (i + 1) + 1 /\ i + 1 + n - 1 = i + n
      BY <1>1
    <3>. QED
      BY <2>3, <3>1
  <2>5. Len(after) = Len(list) - i
    <3>1. i \in Int /\ Len(list) \in Int /\ i <= Len(list)
      BY <1>1
    <3>2. Len(after) = IF i + 1 <= Len(list) THEN Len(list) - (i + 1) + 1 ELSE 0
      BY <2>3
    <3>. QED
      BY <3>1, <3>2
  <2>. QED
    BY <2>3, <2>4, <2>5
<1>. HIDE DEF before, after
<1>5. /\ rest \in Seq(Modem) /\ Len(rest) = Len(list) - 1 /\ DOMAIN rest = 1..Len(list) - 1
      /\ \A n \in 1..Len(list) - 1 : rest[n] = IF n < i THEN list[n] ELSE list[n + 1]
  <2>1. /\ rest \in Seq(Modem) /\ Len(rest) = Len(before) + Len(after)
        /\ \A n \in 1..Len(before) + Len(after) :
             rest[n] = IF n <= Len(before) THEN before[n] ELSE after[n - Len(before)]
    BY <1>3, <1>4, ConcatProperties
  <2>2. DOMAIN rest = 1..Len(rest)
    BY <2>1, LenProperties
  <2>. HIDE DEF rest
  <2>3. Len(before) + Len(after) = Len(list) - 1
    BY <1>1, <1>3, <1>4
  <2>4. ASSUME NEW n \in 1..Len(list) - 1
        PROVE  rest[n] = IF n < i THEN list[n] ELSE list[n + 1]
    <3>1. CASE n < i
      BY <1>1, <1>3, <2>1, <2>3, <3>1
    <3>2. CASE n >= i
      <4>1. n - (i - 1) \in 1..Len(list) - i /\ i + (n - (i - 1)) = n + 1
        BY <1>1, <3>2
      <4>2. rest[n] = after[n - (i - 1)]
        <5>1. n \in 1..Len(before) + Len(after) /\ ~(n <= Len(before)) /\ Len(before) = i - 1
          BY <1>1, <1>3, <2>3, <3>2
        <5>. QED
          BY <2>1, <5>1
      <4>. QED
        BY <1>1, <1>4, <3>2, <4>1, <4>2
    <3>. QED
      BY <1>1, <3>1, <3>2
  <2>. QED
    BY <2>1, <2>2, <2>3, <2>4
<1>. HIDE DEF rest
<1>6. \A m, n \in 1..Len(list) : m < n => list[m] < list[n]
  BY <1>1 DEF Increasing
<1>7. Increasing(rest)
  <2>. SUFFICES ASSUME NEW m \in 1..Len(list) - 1, NEW n \in 1..Len(list) - 1, m < n
                PROVE  rest[m] < rest[n]
    BY <1>5 DEF Increasing
  <2>1. {m, n, m + 1, n + 1} \subseteq 1..Len(list)
    BY <1>1
  <2>2. CASE n < i
    BY <1>1, <1>5, <1>6, <2>1, <2>2
  <2>3. CASE m < i /\ ~(n < i)
    BY <1>1, <1>5, <1>6, <2>1, <2>3
  <2>4. CASE ~(m < i)
    BY <1>1, <1>5, <1>6, <2>1, <2>4
  <2>. QED
    BY <1>1, <2>2, <2>3, <2>4
<1>8. \A n \in 1..Len(list) : list[n] = p => n = i
  BY <1>1, <1>2, <1>6
<1>9. ASSUME NEW q \in Modem
      PROVE  (\E n \in DOMAIN rest : rest[n] = q) <=> q # p /\ \E n \in DOMAIN list : list[n] = q
  <2>1. ASSUME NEW n \in DOMAIN rest, rest[n] = q
        PROVE  q # p /\ \E k \in DOMAIN list : list[k] = q
    <3>1. CASE n < i
      BY <1>1, <1>5, <1>8, <2>1, <3>1
    <3>2. CASE ~(n < i)
      <4>1. n + 1 \in 1..Len(list) /\ list[n + 1] = q /\ n + 1 # i
        BY <1>1, <1>5, <2>1, <3>2
      <4>. QED
        BY <1>1, <1>8, <4>1
    <3>. QED
      BY <3>1, <3>2
  <2>2. ASSUME NEW k \in DOMAIN list, list[k] = q, q # p PROVE \E n \in DOMAIN rest : rest[n] = q
    <3>1. CASE k < i
      <4>1. k \in 1..Len(list) - 1 /\ rest[k] = list[k]
        BY <1>1, <1>5, <3>1
      <4>. QED
        BY <1>5, <2>2, <4>1
    <3>2. CASE k > i
      <4>1. k - 1 \in 1..Len(list) - 1 /\ ~(k - 1 < i) /\ k - 1 + 1 = k
        BY <1>1, <3>2
      <4>2. rest[k - 1] = list[k]
        BY <1>5, <4>1
      <4>. QED
        BY <1>5, <2>2, <4>1, <4>2
    <3>. QED
      BY <1>1, <2>2, <3>1, <3>2
  <2>. QED
    BY <2>1, <2>2
<1>. QED
  BY <1>5, <1>7, <1>9 DEF RemoveAt, rest, before, after, i

(* A list in order is no longer than there are modems.                     *)
LEMMA ListIsShort ==
  ASSUME NEW list \in Seq(Modem), Increasing(list)
  PROVE  /\ Len(list) \in 0..MaxModem + 1 /\ DOMAIN list = 1..Len(list)
         /\ \A m, n \in DOMAIN list : list[m] = list[n] => m = n
<1>1. /\ Len(list) \in Nat /\ DOMAIN list = 1..Len(list)
      /\ list \in [1..Len(list) -> Modem]
  BY LenProperties
<1>2. MaxModem \in Nat /\ \A n \in 1..Len(list) : list[n] \in Modem /\ list[n] \in Nat
  BY <1>1, SlotsAssumption DEF Modem
<1>3. \A m, n \in 1..Len(list) : list[m] = list[n] => m = n
  <2>. SUFFICES ASSUME NEW m \in 1..Len(list), NEW n \in 1..Len(list), list[m] = list[n], m # n
                PROVE  FALSE
    OBVIOUS
  <2>1. CASE m < n
    BY <1>1, <1>2, <2>1 DEF Increasing
  <2>2. CASE n < m
    BY <1>1, <1>2, <2>2 DEF Increasing
  <2>. QED
    BY <2>1, <2>2
<1>4. IsFiniteSet(Modem) /\ Cardinality(Modem) = MaxModem + 1
  <2>1. 0 \in Int /\ MaxModem \in Int
    BY <1>2
  <2>2. IsFiniteSet(0..MaxModem)
         /\ Cardinality(0..MaxModem) = IF 0 > MaxModem THEN 0 ELSE MaxModem - 0 + 1
    BY <2>1, FS_Interval
  <2>. QED
    BY <1>2, <2>2 DEF Modem
<1>5. Cardinality(1..Len(list)) = Len(list)
  <2>1. 1 \in Int /\ Len(list) \in Int
    BY <1>1
  <2>2. Cardinality(1..Len(list)) = IF 1 > Len(list) THEN 0 ELSE Len(list) - 1 + 1
    BY <2>1, FS_Interval
  <2>. QED
    BY <1>1, <2>2
<1>6. list \in Injection(1..Len(list), Modem)
  BY <1>1, <1>3 DEF Injection, IsInjective
<1>7. Cardinality(1..Len(list)) <= Cardinality(Modem)
  BY <1>4, <1>6, FS_Injection, Zenon
<1>. QED
  BY <1>1, <1>2, <1>3, <1>4, <1>5, <1>7

(* A list of the lowest modems has each at its place.                      *)
LEMMA LowestInOrder ==
  ASSUME NEW list \in Seq(Modem), Increasing(list),
         \A n \in DOMAIN list : \A q \in 0..list[n] : \E m \in DOMAIN list : list[m] = q
  PROVE  \A n \in DOMAIN list : list[n] = n - 1
<1>. SUFFICES ASSUME NEW n \in DOMAIN list PROVE list[n] = n - 1
  OBVIOUS
<1>1. /\ Len(list) \in Nat /\ DOMAIN list = 1..Len(list)
      /\ list \in [1..Len(list) -> Modem] /\ n \in 1..Len(list)
      /\ \A k, m \in DOMAIN list : list[k] = list[m] => k = m
  BY LenProperties, ListIsShort
<1>2. \A m \in 1..Len(list) : list[m] \in Nat
  BY <1>1, SlotsAssumption DEF Modem
<1>. DEFINE S == 1..n - 1
            T == 0..list[n] - 1
            f == [m \in S |-> list[m]]
<1>3. ASSUME NEW m \in S PROVE f[m] \in T
  <2>1. m \in 1..Len(list) /\ m < n
    BY <1>1
  <2>2. list[m] < list[n]
    BY <1>1, <2>1 DEF Increasing
  <2>. QED
    BY <1>1, <1>2, <2>1, <2>2
<1>4. ASSUME NEW t \in T PROVE \E m \in S : f[m] = t
  <2>1. t \in 0..list[n] /\ t < list[n] /\ t \in Nat
    BY <1>1, <1>2
  <2>2. PICK m \in DOMAIN list : list[m] = t
    BY <2>1
  <2>3. m < n
    <3>1. CASE m > n
      BY <1>1, <1>2, <2>1, <2>2, <3>1 DEF Increasing
    <3>. QED
      BY <1>1, <1>2, <2>1, <2>2, <3>1
  <2>. QED
    BY <1>1, <2>2, <2>3
<1>5. f \in Bijection(S, T)
  <2>1. f \in [S -> T] /\ DOMAIN f = S
    BY <1>3
  <2>2. \A k, m \in S : f[k] = f[m] => k = m
    <3>1. S \subseteq DOMAIN list
      BY <1>1
    <3>. QED
      BY <1>1, <3>1
  <2>. HIDE DEF f
  <2>. QED
    BY <1>4, <2>1, <2>2 DEF Bijection, Injection, Surjection, IsInjective
<1>6. IsFiniteSet(S) /\ Cardinality(S) = n - 1
  <2>1. 1 \in Int /\ n - 1 \in Int
    BY <1>1
  <2>2. IsFiniteSet(S) /\ Cardinality(S) = IF 1 > n - 1 THEN 0 ELSE n - 1 - 1 + 1
    BY <2>1, FS_Interval
  <2>. QED
    BY <1>1, <2>2
<1>7. Cardinality(T) = list[n]
  <2>1. 0 \in Int /\ list[n] - 1 \in Int /\ list[n] \in Nat
    BY <1>1, <1>2
  <2>2. Cardinality(T) = IF 0 > list[n] - 1 THEN 0 ELSE list[n] - 1 - 0 + 1
    BY <2>1, FS_Interval
  <2>. QED
    BY <2>1, <2>2
<1>8. Cardinality(T) = Cardinality(S)
  <2>. HIDE DEF f, S, T
  <2>. QED
    BY <1>5, <1>6, FS_Bijection DEF ExistsBijection
<1>. QED
  BY <1>6, <1>7, <1>8

-----------------------------------------------------------------------------
(* Slots, objects and the list.                                            *)

(* A list in order, and an object for each modem on it: the one that is    *)
(* there, if the modem has been on the list, or a new one.                 *)
Fits(list, objects) ==
  /\ list \in Seq(Modem) /\ Increasing(list) /\ objects \in [Modem -> Object]
  /\ \A p \in Modem : objects[p].there <=> ListedIn(list, p)
  /\ \A p \in Modem : objects[p].there /\ obj[p].there => objects[p] = obj[p]
  /\ \A p \in Modem : objects[p].there /\ ~obj[p].there =>
       ~objects[p].powered /\ ~objects[p].interfaces

(* What becomes of a slot and of an object.                                *)
SlotRemade(list, n) ==
  /\ n \in DOMAIN modems /\ modems[n] = list[n] => sims'[n] = sims[n]
  /\ ~(n \in DOMAIN modems /\ modems[n] = list[n]) =>
       sims'[n] = [modem |-> list[n], initializing |-> TRUE, interfaces |-> FALSE]
  /\ svc'[n] = IF n \in DOMAIN modems THEN svc[n] ELSE FALSE
  /\ sims'[n].modem = list[n]

ObjectKept(list, objects, p) ==
  /\ obj'[p].there = objects[p].there /\ obj'[p].gen = objects[p].gen
  /\ obj'[p].powered = objects[p].powered
  /\ obj'[p].interfaces = objects[p].interfaces
  /\ objects[p].there => obj'[p].handler \in DOMAIN list /\ list[obj'[p].handler] = p

(* The slots are made again from a list of modems, some of which have new  *)
(* objects: each slot that has kept its modem is as it was, the others are *)
(* new, and every object on the list calls for its slot.                   *)
LEMMA ListChanges ==
  ASSUME SlotsInv, NEW list, NEW objects, Fits(list, objects), modems_changed_cb(list, objects)
  PROVE  /\ modems' = list /\ obj' \in [Modem -> Object]
         /\ sims' \in Seq(Slot) /\ svc' \in Seq(BOOLEAN)
         /\ configured' = {p \in configured : objects[p].there}
         /\ DOMAIN sims' = DOMAIN list /\ DOMAIN svc' = DOMAIN list
         /\ \A n \in DOMAIN list : SlotRemade(list, n)
         /\ \A p \in Modem : ObjectKept(list, objects, p)
<1>. list \in Seq(Modem) /\ Increasing(list) /\ objects \in [Modem -> Object]
  BY DEF Fits
<1>. /\ \A p \in Modem : objects[p].there <=> ListedIn(list, p)
     /\ \A p \in Modem : objects[p].there /\ obj[p].there => objects[p] = obj[p]
  BY DEF Fits
<1>1. /\ DOMAIN sims = DOMAIN modems /\ DOMAIN svc = DOMAIN modems /\ Increasing(modems)
      /\ \A n \in DOMAIN modems : sims[n].modem = modems[n]
      /\ \A p \in Modem : obj[p].there =>
           obj[p].handler \in DOMAIN modems /\ modems[obj[p].handler] = p
      /\ modems \in Seq(Modem) /\ sims \in Seq(Slot) /\ svc \in Seq(BOOLEAN)
  BY DEF SlotsInv, SlotsMatch, SlotsTypeOK, Slot
<1>2. /\ Len(list) \in 0..MaxModem + 1 /\ DOMAIN list = 1..Len(list) /\ Len(list) \in Nat
      /\ \A m, n \in DOMAIN list : list[m] = list[n] => m = n
      /\ \A n \in DOMAIN list : list[n] \in Modem
  BY ListIsShort, ElementOfSeq
<1>3. /\ DOMAIN modems = 1..Len(modems)
      /\ \A m, n \in DOMAIN modems : modems[m] = modems[n] => m = n
  BY <1>1, ListIsShort
<1>4. /\ modems' = list /\ sims' = slots_for(list) /\ svc' = service_for(Len(list))
      /\ configured' = {p \in configured : objects[p].there}
      /\ obj' = [p \in Modem |->
                   IF \E n \in DOMAIN list : list[n] = p /\ ~KeepsModem(n, list)
                   THEN [objects[p] EXCEPT !.handler = Position(list, p)]
                   ELSE objects[p]]
  BY DEF modems_changed_cb
<1>5. \A n \in DOMAIN list : KeepsModem(n, list) <=> n \in DOMAIN modems /\ modems[n] = list[n]
  BY <1>1 DEF KeepsModem
<1>6. ASSUME NEW n \in DOMAIN list
      PROVE  /\ n \in DOMAIN modems /\ modems[n] = list[n] => sims'[n] = sims[n]
             /\ ~(n \in DOMAIN modems /\ modems[n] = list[n]) =>
                  sims'[n] = [modem |-> list[n], initializing |-> TRUE, interfaces |-> FALSE]
             /\ svc'[n] = IF n \in DOMAIN modems THEN svc[n] ELSE FALSE
             /\ sims'[n] \in Slot /\ sims'[n].modem = list[n] /\ svc'[n] \in BOOLEAN
  <2>1. sims'[n] = IF KeepsModem(n, list) THEN sims[n]
                   ELSE [modem |-> list[n], initializing |-> TRUE, interfaces |-> FALSE]
    BY <1>4 DEF slots_for
  <2>2. svc'[n] = IF n \in DOMAIN modems THEN svc[n] ELSE FALSE
    BY <1>1, <1>2, <1>4 DEF service_for
  <2>3. n \in DOMAIN modems => sims[n] \in Slot /\ svc[n] \in BOOLEAN
    BY <1>1, <1>3, LenProperties, ElementOfSeq
  <2>4. [modem |-> list[n], initializing |-> TRUE, interfaces |-> FALSE] \in Slot
    BY <1>2 DEF Slot
  <2>5. ASSUME n \in DOMAIN modems, modems[n] = list[n]
        PROVE  sims'[n] = sims[n] /\ sims'[n] \in Slot /\ sims'[n].modem = list[n]
    <3>1. sims'[n] = sims[n]
      BY <1>5, <2>1, <2>5
    <3>. QED
      BY <1>1, <2>3, <2>5, <3>1
  <2>6. ASSUME ~(n \in DOMAIN modems /\ modems[n] = list[n])
        PROVE  /\ sims'[n] = [modem |-> list[n], initializing |-> TRUE, interfaces |-> FALSE]
               /\ sims'[n] \in Slot /\ sims'[n].modem = list[n]
    <3>1. sims'[n] = [modem |-> list[n], initializing |-> TRUE, interfaces |-> FALSE]
      BY <1>5, <2>1, <2>6
    <3>2. sims'[n].modem = list[n]
      BY <3>1
    <3>. QED
      BY <2>4, <3>1, <3>2
  <2>7. svc'[n] \in BOOLEAN
    BY <2>2, <2>3
  <2>. QED
    BY <2>2, <2>5, <2>6, <2>7, Zenon
<1>7. /\ DOMAIN sims' = DOMAIN list /\ DOMAIN svc' = DOMAIN list
      /\ sims' \in Seq(Slot) /\ svc' \in Seq(BOOLEAN)
  <2>1. DOMAIN sims' = 1..Len(list) /\ DOMAIN svc' = 1..Len(list)
    BY <1>2, <1>4 DEF slots_for, service_for
  <2>2. sims' = [n \in 1..Len(list) |-> sims'[n]] /\ svc' = [n \in 1..Len(list) |-> svc'[n]]
    BY <1>2, <1>4 DEF slots_for, service_for
  <2>3. sims' \in [1..Len(list) -> Slot] /\ svc' \in [1..Len(list) -> BOOLEAN]
    BY <1>2, <1>6, <2>2
  <2>4. sims' \in Seq(Slot) /\ svc' \in Seq(BOOLEAN)
    BY <1>2, <2>3, SeqDef
  <2>5. DOMAIN list = 1..Len(list)
    BY <1>2
  <2>. QED
    BY <2>1, <2>4, <2>5, Zenon
<1>8. ASSUME NEW p \in Modem
      PROVE  /\ obj'[p] \in Object
             /\ obj'[p].there = objects[p].there /\ obj'[p].gen = objects[p].gen
             /\ obj'[p].powered = objects[p].powered
             /\ obj'[p].interfaces = objects[p].interfaces
             /\ objects[p].there => obj'[p].handler \in DOMAIN list /\ list[obj'[p].handler] = p
  <2>1. objects[p] \in Object
    OBVIOUS
  <2>2. CASE \E n \in DOMAIN list : list[n] = p /\ ~KeepsModem(n, list)
    <3>1. obj'[p] = [objects[p] EXCEPT !.handler = Position(list, p)]
      BY <1>4, <2>2
    <3>2. Position(list, p) \in DOMAIN list /\ list[Position(list, p)] = p
      BY <2>2, Zenon DEF Position
    <3>3. Position(list, p) \in 0..(MaxModem + 1)
      BY <1>2, <3>2, SlotsAssumption
    <3>. QED
      BY <2>1, <3>1, <3>2, <3>3 DEF Object
  <2>3. CASE ~ \E n \in DOMAIN list : list[n] = p /\ ~KeepsModem(n, list)
    <3>1. obj'[p] = objects[p]
      BY <1>4, <2>3
    <3>2. ASSUME objects[p].there
          PROVE  obj'[p].handler \in DOMAIN list /\ list[obj'[p].handler] = p
      <4>1. PICK n \in DOMAIN list : list[n] = p /\ KeepsModem(n, list)
        BY <2>3, <3>2 DEF ListedIn
      <4>2. n \in DOMAIN modems /\ modems[n] = p
        BY <1>5, <4>1
      <4>3. obj[p].there
        BY <4>2 DEF SlotsInv, SlotsMatch, IsListed, ListedIn
      <4>4. objects[p] = obj[p] /\ obj[p].handler = n
        BY <1>1, <1>3, <3>2, <4>2, <4>3
      <4>. QED
        BY <3>1, <4>1, <4>4
    <3>. QED
      BY <2>1, <3>1, <3>2
  <2>. QED
    BY <2>2, <2>3
<1>9. obj' \in [Modem -> Object]
  <2>1. obj' = [p \in Modem |-> obj'[p]]
    BY <1>4
  <2>. QED
    BY <1>8, <2>1
<1>10. \A n \in DOMAIN list : SlotRemade(list, n)
  BY <1>6 DEF SlotRemade
<1>11. \A p \in Modem : ObjectKept(list, objects, p)
  BY <1>8 DEF ObjectKept
<1>. QED
  BY <1>4, <1>7, <1>9, <1>10, <1>11

(* A property of a modem reaches the slot the modem is in, and no other,   *)
(* and Powered makes it available if the modem has power.                  *)
LEMMA PropertyReachesSlot ==
  ASSUME SlotsInv, NEW p \in Modem, obj[p].there,
         NEW o \in Object, o.there, o.handler = obj[p].handler,
         NEW changed, PropertiesChanged(p, o, changed)
  PROVE  /\ obj' = [obj EXCEPT ![p] = o]
         /\ sims' \in Seq(Slot) /\ DOMAIN sims' = DOMAIN modems
         /\ svc' \in Seq(BOOLEAN) /\ DOMAIN svc' = DOMAIN modems
         /\ configured' \in {configured, configured \cup {p}}
         /\ LET n == obj[p].handler
                up == "Powered" \in changed /\ sims[n].initializing /\ o.powered
                i == IF "Interfaces" \in changed THEN o.interfaces ELSE sims[n].interfaces
            IN  /\ n \in DOMAIN modems /\ modems[n] = p
                /\ sims'[n].modem = p /\ sims'[n].interfaces = i
                /\ sims'[n].initializing = (sims[n].initializing /\ ~up)
                /\ svc'[n] = (svc[n] \/ up)
                /\ up /\ ~svc[n] => configured' = configured \cup {p}
                /\ \A m \in DOMAIN modems \ {n} : sims'[m] = sims[m] /\ svc'[m] = svc[m]
<1>. DEFINE n == obj[p].handler
            up == "Powered" \in changed /\ sims[n].initializing /\ o.powered
            i == IF "Interfaces" \in changed THEN o.interfaces ELSE sims[n].interfaces
<1>1. /\ DOMAIN sims = DOMAIN modems /\ DOMAIN svc = DOMAIN modems
      /\ n \in DOMAIN modems /\ modems[n] = p /\ sims[n].modem = p
      /\ sims \in Seq(Slot) /\ svc \in Seq(BOOLEAN) /\ modems \in Seq(Modem)
  BY DEF SlotsInv, SlotsMatch, SlotsTypeOK, Slot
<1>2. DOMAIN modems = 1..Len(modems) /\ 1..Len(sims) = DOMAIN sims /\ 1..Len(svc) = DOMAIN svc
  BY <1>1, LenProperties
<1>3. sims[n] \in Slot /\ svc[n] \in BOOLEAN /\ n # 0 /\ n \in DOMAIN sims
  <2>1. n \in 1..Len(sims) /\ n \in 1..Len(svc)
    BY <1>1, <1>2
  <2>2. sims[n] \in Slot /\ svc[n] \in BOOLEAN
    BY <1>1, <2>1, ElementOfSeq
  <2>. QED
    BY <1>1, <2>1, <2>2
<1>4. /\ obj' = [obj EXCEPT ![p] = o]
      /\ sims' = [sims EXCEPT ![n].interfaces = i, ![n].initializing = @ /\ ~up]
      /\ IF up THEN availability_changed(n, TRUE) ELSE UNCHANGED <<svc, configured>>
  BY <1>3 DEF PropertiesChanged
<1>5. o.powered \in BOOLEAN /\ i \in BOOLEAN /\ sims[n].initializing \in BOOLEAN
  BY <1>3 DEF Object, Slot
<1>. DEFINE s == [sims[n] EXCEPT !.interfaces = i, !.initializing = @ /\ ~up]
<1>. HIDE DEF i
<1>6. /\ sims' = [sims EXCEPT ![n] = s] /\ s \in Slot
      /\ s.modem = p /\ s.interfaces = i
      /\ s.initializing = (sims[n].initializing /\ ~up)
  <2>1. PICK b \in BOOLEAN : b = (sims[n].initializing /\ ~up)
    BY <1>5
  <2>2. PICK t \in Slot : t = sims[n]
    BY <1>3
  <2>3. s = [t EXCEPT !.interfaces = i, !.initializing = b]
    BY <2>1, <2>2
  <2>4. /\ s \in Slot /\ s.modem = t.modem /\ s.interfaces = i
        /\ s.initializing = b
    BY <1>5, <2>3 DEF Slot
  <2>5. sims' = [sims EXCEPT ![n] = s]
    BY <1>3, <1>4
  <2>. QED
    BY <1>1, <2>1, <2>2, <2>4, <2>5
<1>. HIDE DEF s
<1>7. /\ sims' \in Seq(Slot) /\ DOMAIN sims' = DOMAIN modems /\ sims'[n] = s
      /\ \A m \in DOMAIN modems \ {n} : sims'[m] = sims[m]
  <2>1. n \in 1..Len(sims)
    BY <1>1, <1>2
  <2>2. sims' \in Seq(Slot)
    BY <1>1, <1>6, <2>1, ExceptSeq
  <2>. QED
    BY <1>1, <1>6, <2>2
<1>8. CASE up
  <2>1. /\ configured' = IF ~svc[n] THEN configured \cup {sims[n].modem} ELSE configured
        /\ svc' = [svc EXCEPT ![n] = TRUE]
    BY <1>4, <1>8 DEF availability_changed
  <2>2. n \in 1..Len(svc) /\ TRUE \in BOOLEAN
    BY <1>1, <1>2
  <2>3. svc' \in Seq(BOOLEAN)
    BY <1>1, <2>1, <2>2, ExceptSeq
  <2>4. /\ DOMAIN svc' = DOMAIN modems /\ svc'[n] = TRUE
        /\ \A m \in DOMAIN modems \ {n} : svc'[m] = svc[m]
    BY <1>1, <2>1
  <2>5. /\ configured' \in {configured, configured \cup {p}}
        /\ ~svc[n] => configured' = configured \cup {p}
    BY <1>1, <2>1
  <2>6. svc'[n] = (svc[n] \/ up)
    BY <1>8, <2>4
  <2>. QED
    BY <1>1, <1>4, <1>6, <1>7, <2>3, <2>4, <2>5, <2>6 DEF i
<1>9. CASE ~up
  <2>1. svc' = svc /\ configured' = configured
    BY <1>4, <1>9
  <2>2. svc'[n] = (svc[n] \/ up)
    BY <1>3, <1>9, <2>1
  <2>. QED
    BY <1>1, <1>4, <1>6, <1>7, <1>9, <2>1, <2>2 DEF i
<1>. QED
  BY <1>8, <1>9

-----------------------------------------------------------------------------
(* Messages and requests.                                                  *)

(* A message is as its kind asks.                                          *)
Typed(m) == m.value \in IF m.kind = "Modems" THEN SUBSET Modem ELSE BOOLEAN

(* The first message is handled, the others move up.                       *)
LEMMA MessageArrives ==
  ASSUME SlotsInv, NEW kind, Arrives(kind)
  PROVE  /\ Len(wire) \in Nat \ {0} /\ DOMAIN wire = 1..Len(wire)
         /\ wire' \in Seq(WireMessage) /\ Len(wire') = Len(wire) - 1
         /\ DOMAIN wire' = 1..Len(wire) - 1
         /\ \A n \in 1..Len(wire) - 1 : wire'[n] = wire[n + 1] /\ Typed(wire'[n])
         /\ Head(wire) = wire[1] /\ wire[1] \in WireMessage /\ Typed(wire[1])
         /\ wire[1].kind = kind /\ wire[1].modem \in Modem
<1>1. wire \in Seq(WireMessage) /\ wire # <<>> /\ wire' = Tail(wire) /\ Head(wire).kind = kind
  BY DEF Arrives, SlotsInv, WireTypeOK
<1>2. /\ Len(wire) \in Nat /\ DOMAIN wire = 1..Len(wire) /\ Len(wire) # 0
  BY <1>1, LenProperties, EmptySeq
<1>3. /\ wire' \in Seq(WireMessage) /\ Len(wire') = Len(wire) - 1
      /\ \A n \in 1..Len(wire') : wire'[n] = wire[n + 1]
  BY <1>1, HeadTailProperties
<1>4. DOMAIN wire' = 1..Len(wire')
  BY <1>3, LenProperties
<1>5. Head(wire) = wire[1]
  BY <1>1
<1>6. \A n \in DOMAIN wire : Typed(wire[n])
  BY DEF SlotsInv, WireTypeOK, Typed
<1>7. 1 \in 1..Len(wire) /\ \A n \in 1..Len(wire) - 1 : n + 1 \in 1..Len(wire)
  BY <1>2
<1>8. wire[1] \in WireMessage
  BY <1>1, <1>7, ElementOfSeq
<1>. QED
  BY <1>1, <1>2, <1>3, <1>4, <1>5, <1>6, <1>7, <1>8 DEF WireMessage

(* A message is sent, after the others.                                    *)
LEMMA MessageIsSent ==
  ASSUME SlotsInv, NEW m \in WireMessage, Typed(m), wire' = Append(wire, m)
  PROVE  /\ Len(wire) \in Nat /\ DOMAIN wire = 1..Len(wire)
         /\ wire' \in Seq(WireMessage) /\ Len(wire') = Len(wire) + 1
         /\ DOMAIN wire' = 1..Len(wire) + 1
         /\ \A n \in 1..Len(wire) : wire'[n] = wire[n]
         /\ wire'[Len(wire) + 1] = m
         /\ \A n \in 1..Len(wire) + 1 : Typed(wire'[n])
<1>1. wire \in Seq(WireMessage) /\ \A n \in DOMAIN wire : Typed(wire[n])
  BY DEF SlotsInv, WireTypeOK, Typed
<1>2. Len(wire) \in Nat /\ DOMAIN wire = 1..Len(wire)
  BY <1>1, LenProperties
<1>3. /\ wire' \in Seq(WireMessage) /\ Len(wire') = Len(wire) + 1
      /\ \A n \in 1..Len(wire) : wire'[n] = wire[n]
      /\ wire'[Len(wire) + 1] = m
  BY <1>1, AppendProperties
<1>4. DOMAIN wire' = 1..Len(wire) + 1
  BY <1>3, LenProperties
<1>5. ASSUME NEW n \in 1..Len(wire) + 1 PROVE Typed(wire'[n])
  <2>1. n \in 1..Len(wire) \/ n = Len(wire) + 1
    BY <1>2
  <2>. QED
    BY <1>1, <1>2, <1>3, <2>1
<1>. QED
  BY <1>2, <1>3, <1>4, <1>5

(* So are two.                                                             *)
LEMMA TwoAreSent ==
  ASSUME SlotsInv, NEW m \in WireMessage, Typed(m), NEW k \in WireMessage, Typed(k),
         wire' = wire \o <<m, k>>
  PROVE  /\ Len(wire) \in Nat /\ DOMAIN wire = 1..Len(wire)
         /\ wire' \in Seq(WireMessage) /\ Len(wire') = Len(wire) + 2
         /\ DOMAIN wire' = 1..Len(wire) + 2
         /\ \A n \in 1..Len(wire) : wire'[n] = wire[n]
         /\ wire'[Len(wire) + 1] = m /\ wire'[Len(wire) + 2] = k
         /\ \A n \in 1..Len(wire) + 2 : Typed(wire'[n])
<1>1. wire \in Seq(WireMessage) /\ \A n \in DOMAIN wire : Typed(wire[n])
  BY DEF SlotsInv, WireTypeOK, Typed
<1>2. Len(wire) \in Nat /\ DOMAIN wire = 1..Len(wire)
  BY <1>1, LenProperties
<1>. DEFINE two == <<m, k>>
<1>3. two \in Seq(WireMessage) /\ Len(two) = 2 /\ two[1] = m /\ two[2] = k
  OBVIOUS
<1>. HIDE DEF two
<1>4. /\ wire' \in Seq(WireMessage) /\ Len(wire') = Len(wire) + Len(two)
      /\ \A i \in 1..Len(wire) + Len(two) :
           wire'[i] = IF i <= Len(wire) THEN wire[i] ELSE two[i - Len(wire)]
  <2>1. wire' = wire \o two
    BY DEF two
  <2>. QED
    BY <1>1, <1>3, <2>1, ConcatProperties
<1>5. DOMAIN wire' = 1..Len(wire) + 2
  BY <1>3, <1>4, LenProperties
<1>6. /\ \A n \in 1..Len(wire) : wire'[n] = wire[n]
      /\ wire'[Len(wire) + 1] = m /\ wire'[Len(wire) + 2] = k
  <2>1. ASSUME NEW n \in 1..Len(wire) PROVE wire'[n] = wire[n]
    BY <1>2, <1>3, <1>4, <2>1
  <2>2. /\ Len(wire) + 1 \in 1..Len(wire) + 2 /\ Len(wire) + 1 - Len(wire) = 1
        /\ Len(wire) + 2 \in 1..Len(wire) + 2 /\ Len(wire) + 2 - Len(wire) = 2
        /\ ~(Len(wire) + 1 <= Len(wire)) /\ ~(Len(wire) + 2 <= Len(wire))
    BY <1>2
  <2>. QED
    BY <1>3, <1>4, <2>1, <2>2
<1>7. ASSUME NEW n \in 1..Len(wire) + 2 PROVE Typed(wire'[n])
  <2>1. n \in 1..Len(wire) \/ n = Len(wire) + 1 \/ n = Len(wire) + 2
    BY <1>2
  <2>. QED
    BY <1>1, <1>2, <1>6, <2>1
<1>. QED
  BY <1>2, <1>3, <1>4, <1>5, <1>6, <1>7

(* The properties of new modems are asked for, if ofono is there.          *)
LEMMA PropertiesAreAsked ==
  ASSUME SlotsInv, NEW n \in Nat, NEW paths \in [1..n -> Modem], reqs' = Ask(paths)
  PROVE  /\ reqs' \in Seq(Request)
         /\ \A r : IsAsked(r) => IsAsked(r)'
         /\ ofono => \A k \in 1..n : \A r :
              r = GetProperties(paths[k], gen + k - 1) => IsAsked(r)'
         /\ IsAsked(GetModems)' => IsAsked(GetModems)
<1>. DEFINE new == [k \in 1..n |-> GetProperties(paths[k], gen + k - 1)]
<1>1. reqs \in Seq(Request) /\ gen \in Nat
  BY DEF SlotsInv, WireTypeOK
<1>2. CASE ~ofono
  BY <1>1, <1>2 DEF Ask, IsAsked
<1>3. CASE ofono
  <2>1. reqs' = reqs \o new
    <3>1. DOMAIN paths = 1..n
      OBVIOUS
    <3>. QED
      BY <1>3, <3>1 DEF Ask
  <2>2. \A k \in 1..n : new[k] \in Request /\ new[k].kind = "GetProperties"
    BY <1>1 DEF GetProperties, Request
  <2>3. new \in Seq(Request) /\ DOMAIN new = 1..n
    BY <2>2, SeqDef
  <2>4. \A k \in 1..n : new[k] = GetProperties(paths[k], gen + k - 1)
    OBVIOUS
  <2>. HIDE DEF new
  <2>5. Len(new) = n /\ Len(reqs) \in Nat /\ DOMAIN reqs = 1..Len(reqs)
    BY <1>1, <2>3, LenProperties
  <2>6. /\ reqs' \in Seq(Request) /\ Len(reqs') = Len(reqs) + n
        /\ \A i \in 1..Len(reqs) + n :
             reqs'[i] = IF i <= Len(reqs) THEN reqs[i] ELSE new[i - Len(reqs)]
    <3>1. /\ reqs' \in Seq(Request) /\ Len(reqs') = Len(reqs) + Len(new)
          /\ \A i \in 1..Len(reqs) + Len(new) :
               reqs'[i] = IF i <= Len(reqs) THEN reqs[i] ELSE new[i - Len(reqs)]
      BY <1>1, <2>1, <2>3, ConcatProperties
    <3>. QED
      BY <2>5, <3>1
  <2>7. DOMAIN reqs' = 1..Len(reqs) + n
    BY <2>6, LenProperties
  <2>8. ASSUME NEW r, IsAsked(r) PROVE IsAsked(r)'
    <3>1. PICK i \in 1..Len(reqs) : reqs[i] = r
      BY <2>5, <2>8 DEF IsAsked
    <3>2. i \in 1..Len(reqs) + n /\ i <= Len(reqs)
      BY <2>5
    <3>. QED
      BY <2>6, <2>7, <3>1, <3>2 DEF IsAsked
  <2>9. ASSUME NEW k \in 1..n, NEW r, r = GetProperties(paths[k], gen + k - 1)
        PROVE  IsAsked(r)'
    <3>1. /\ Len(reqs) + k \in 1..Len(reqs) + n /\ ~(Len(reqs) + k <= Len(reqs))
          /\ Len(reqs) + k - Len(reqs) = k
      BY <2>5
    <3>2. reqs'[Len(reqs) + k] = r
      BY <2>4, <2>6, <2>9, <3>1
    <3>. QED
      BY <2>7, <3>1, <3>2 DEF IsAsked
  <2>10. ASSUME IsAsked(GetModems)' PROVE IsAsked(GetModems)
    <3>1. PICK i \in 1..Len(reqs) + n : reqs'[i] = GetModems
      BY <2>7, <2>10 DEF IsAsked, GetModems
    <3>2. i <= Len(reqs)
      <4>1. SUFFICES ASSUME ~(i <= Len(reqs)) PROVE FALSE
        OBVIOUS
      <4>2. i - Len(reqs) \in 1..n
        BY <2>5, <4>1
      <4>3. new[i - Len(reqs)] = GetModems
        BY <2>6, <3>1, <4>1
      <4>. QED
        BY <2>2, <4>2, <4>3 DEF GetModems
    <3>3. i \in DOMAIN reqs
      BY <2>5, <3>2
    <3>. QED
      BY <2>6, <3>1, <3>2, <3>3 DEF IsAsked
  <2>. QED
    BY <2>6, <2>8, <2>9, <2>10
<1>. QED
  BY <1>2, <1>3

(* New modems are put where their paths belong.                            *)
LEMMA InsertedInList ==
  ASSUME SlotsInv, NEW S \in SUBSET Modem
  PROVE  LET list == insert_sorted(modems, S)
         IN  /\ list \in Seq(Modem) /\ Increasing(list)
             /\ \A q \in Modem : ListedIn(list, q) <=> IsListed(q) \/ q \in S
<1>. DEFINE all == ToSet(modems) \cup S
            list == InOrder(all)
<1>1. modems \in Seq(Modem) /\ DOMAIN modems = 1..Len(modems)
  BY LenProperties DEF SlotsInv, SlotsTypeOK
<1>2. all \in SUBSET Modem /\ \A q : q \in all <=> IsListed(q) \/ q \in S
  <2>1. \A n \in DOMAIN modems : modems[n] \in Modem
    BY <1>1, ElementOfSeq
  <2>. QED
    BY <2>1 DEF ToSet, IsListed, ListedIn
<1>. HIDE DEF all
<1>3. /\ Cardinality(all) \in Nat /\ list \in [1..Cardinality(all) -> all]
      /\ Increasing(list) /\ \A q \in all : \E n \in 1..Cardinality(all) : list[n] = q
  BY <1>2, InOrderLists
<1>. HIDE DEF list
<1>4. list \in Seq(Modem) /\ DOMAIN list = 1..Cardinality(all)
  <2>1. list \in [1..Cardinality(all) -> Modem]
    BY <1>2, <1>3
  <2>. QED
    BY <1>3, <2>1, SeqDef
<1>5. ASSUME NEW q \in Modem PROVE ListedIn(list, q) <=> IsListed(q) \/ q \in S
  <2>1. ListedIn(list, q) => q \in all
    BY <1>3, <1>4 DEF ListedIn
  <2>2. q \in all => ListedIn(list, q)
    BY <1>3, <1>4 DEF ListedIn
  <2>. QED
    BY <1>2, <2>1, <2>2
<1>. QED
  BY <1>3, <1>4, <1>5 DEF insert_sorted, list, all

(* The object of a new modem.                                              *)
LEMMA NewObjectType ==
  ASSUME NEW g \in Nat
  PROVE  /\ NewObject(g) \in Object /\ NewObject(g).there /\ NewObject(g).gen = g
         /\ NewObject(g).powered = FALSE /\ NewObject(g).interfaces = FALSE
         /\ NoObject \in Object /\ ~NoObject.there
<1>1. 0 \in 0..(MaxModem + 1)
  BY SlotsAssumption
<1>. QED
  BY <1>1 DEF NewObject, NoObject, Object

(* The list with a modem that is added: in order, and longer by that       *)
(* modem.                                                                  *)
LEMMA AddedFits ==
  ASSUME SlotsInv, NEW p \in Modem, ~IsListed(p)
  PROVE  /\ Fits(insert_sorted(modems, {p}), [obj EXCEPT ![p] = NewObject(gen)])
         /\ \A q \in Modem : ListedIn(insert_sorted(modems, {p}), q) <=> IsListed(q) \/ q = p
<1>. DEFINE list == insert_sorted(modems, {p})
            objects == [obj EXCEPT ![p] = NewObject(gen)]
<1>1. /\ list \in Seq(Modem) /\ Increasing(list)
      /\ \A q \in Modem : ListedIn(list, q) <=> IsListed(q) \/ q = p
  <2>1. {p} \in SUBSET Modem
    OBVIOUS
  <2>. QED
    BY <2>1, InsertedInList
<1>. HIDE DEF list
<1>2. /\ obj \in [Modem -> Object] /\ gen \in Nat
      /\ \A q \in Modem : obj[q].there <=> IsListed(q)
  BY DEF SlotsInv, SlotsTypeOK, WireTypeOK, SlotsMatch, Object
<1>3. /\ objects \in [Modem -> Object] /\ objects[p].there
      /\ ~objects[p].powered /\ ~objects[p].interfaces
  BY <1>2, NewObjectType
<1>4. \A q \in Modem : q # p => objects[q] = obj[q]
  BY <1>2
<1>. HIDE DEF objects
<1>5. Fits(list, objects)
  <2>1. ASSUME NEW q \in Modem PROVE objects[q].there <=> ListedIn(list, q)
    BY <1>1, <1>2, <1>3, <1>4
  <2>2. ASSUME NEW q \in Modem, objects[q].there, obj[q].there PROVE objects[q] = obj[q]
    BY <1>2, <1>4, <2>2
  <2>3. ASSUME NEW q \in Modem, objects[q].there, ~obj[q].there
        PROVE  ~objects[q].powered /\ ~objects[q].interfaces
    BY <1>3, <1>4, <2>3
  <2>. QED
    BY <1>1, <1>3, <2>1, <2>2, <2>3 DEF Fits
<1>. QED
  BY <1>1, <1>5 DEF list, objects

(* The list without a modem that is removed: in order, and shorter by that *)
(* modem.                                                                  *)
LEMMA RemovedFits ==
  ASSUME SlotsInv, NEW p \in Modem, IsListed(p)
  PROVE  LET list == RemoveAt(modems, Position(modems, p))
         IN  /\ Fits(list, [obj EXCEPT ![p] = NoObject])
             /\ \A q \in Modem : ListedIn(list, q) <=> IsListed(q) /\ q # p
             /\ Len(list) = Len(modems) - 1
<1>. DEFINE list == RemoveAt(modems, Position(modems, p))
            objects == [obj EXCEPT ![p] = NoObject]
<1>1. /\ list \in Seq(Modem) /\ Increasing(list) /\ Len(list) = Len(modems) - 1
      /\ \A q \in Modem : ListedIn(list, q) <=> IsListed(q) /\ q # p
  <2>1. modems \in Seq(Modem) /\ Increasing(modems)
    BY DEF SlotsInv, SlotsTypeOK, SlotsMatch
  <2>. QED
    BY <2>1, RemovedFromList DEF ListedIn, IsListed
<1>. HIDE DEF list
<1>2. obj \in [Modem -> Object] /\ \A q \in Modem : obj[q].there <=> IsListed(q)
  BY DEF SlotsInv, SlotsTypeOK, SlotsMatch, Object
<1>3. objects \in [Modem -> Object] /\ ~objects[p].there
  <2>1. 0 \in Nat
    OBVIOUS
  <2>. QED
    BY <1>2, <2>1, NewObjectType
<1>4. \A q \in Modem : q # p => objects[q] = obj[q]
  BY <1>2
<1>. HIDE DEF objects
<1>5. Fits(list, objects)
  <2>1. ASSUME NEW q \in Modem PROVE objects[q].there <=> ListedIn(list, q)
    BY <1>1, <1>2, <1>3, <1>4
  <2>2. ASSUME NEW q \in Modem, objects[q].there, obj[q].there PROVE objects[q] = obj[q]
    BY <1>3, <1>4, <2>2
  <2>3. ASSUME NEW q \in Modem, objects[q].there, ~obj[q].there
        PROVE  ~objects[q].powered /\ ~objects[q].interfaces
    BY <1>3, <1>4, <2>3
  <2>. QED
    BY <1>1, <1>3, <2>1, <2>2, <2>3 DEF Fits
<1>. QED
  BY <1>1, <1>5 DEF list, objects

(* The objects made for the modems that ofono has listed.                  *)
WithListed(new) ==
  [p \in Modem |-> IF p \in new THEN NewObject(gen - 1 + Position(InOrder(new), p)) ELSE obj[p]]

(* The list with the modems ofono listed that were not on it: in order,    *)
(* and longer by those, each with an object that has a number of its own.  *)
LEMMA ListedFits ==
  ASSUME SlotsInv, NEW new \in SUBSET Modem, \A p \in new : ~IsListed(p)
  PROVE  /\ Fits(insert_sorted(modems, new), WithListed(new))
         /\ \A q \in Modem :
              ListedIn(insert_sorted(modems, new), q) <=> IsListed(q) \/ q \in new
         /\ Cardinality(new) \in Nat /\ InOrder(new) \in [1..Cardinality(new) -> Modem]
         /\ \A p \in new : \E k \in 1..Cardinality(new) :
              InOrder(new)[k] = p /\ WithListed(new)[p] = NewObject(gen + k - 1)
<1>. DEFINE list == insert_sorted(modems, new)
            objects == WithListed(new)
<1>1. /\ list \in Seq(Modem) /\ Increasing(list)
      /\ \A q \in Modem : ListedIn(list, q) <=> IsListed(q) \/ q \in new
  BY InsertedInList
<1>. HIDE DEF list
<1>2. /\ obj \in [Modem -> Object] /\ gen \in Nat
      /\ \A q \in Modem : obj[q].there <=> IsListed(q)
  BY DEF SlotsInv, SlotsTypeOK, WireTypeOK, SlotsMatch, Object
<1>3. /\ Cardinality(new) \in Nat /\ InOrder(new) \in [1..Cardinality(new) -> new]
      /\ \A p \in new : \E k \in 1..Cardinality(new) : InOrder(new)[k] = p
  BY InOrderLists
<1>4. ASSUME NEW p \in new
      PROVE  \E k \in 1..Cardinality(new) :
               InOrder(new)[k] = p /\ WithListed(new)[p] = NewObject(gen + k - 1)
  <2>. DEFINE k == Position(InOrder(new), p)
  <2>1. DOMAIN InOrder(new) = 1..Cardinality(new)
    BY <1>3
  <2>2. \E n \in DOMAIN InOrder(new) : InOrder(new)[n] = p
    BY <1>3, <2>1
  <2>3. k \in 1..Cardinality(new) /\ InOrder(new)[k] = p
    BY <2>1, <2>2, Zenon DEF Position
  <2>4. WithListed(new)[p] = NewObject(gen - 1 + k)
    BY DEF WithListed
  <2>. HIDE DEF k
  <2>5. gen - 1 + k = gen + k - 1
    BY <1>2, <1>3, <2>3
  <2>. QED
    BY <2>3, <2>4, <2>5
<1>5. ASSUME NEW p \in Modem
      PROVE  /\ objects[p] \in Object
             /\ p \in new => /\ objects[p].there
                             /\ ~objects[p].powered /\ ~objects[p].interfaces
             /\ p \notin new => objects[p] = obj[p]
  <2>1. CASE p \in new
    <3>1. PICK k \in 1..Cardinality(new) : objects[p] = NewObject(gen + k - 1)
      BY <1>4, <2>1
    <3>2. gen + k - 1 \in Nat
      BY <1>2, <1>3
    <3>. QED
      BY <2>1, <3>1, <3>2, NewObjectType
  <2>2. CASE p \notin new
    BY <1>2, <2>2 DEF WithListed
  <2>. QED
    BY <2>1, <2>2
<1>6. objects \in [Modem -> Object]
  BY <1>5 DEF WithListed
<1>. HIDE DEF objects
<1>7. Fits(list, objects)
  <2>1. ASSUME NEW q \in Modem PROVE objects[q].there <=> ListedIn(list, q)
    BY <1>1, <1>2, <1>5
  <2>2. ASSUME NEW q \in Modem, objects[q].there, obj[q].there PROVE objects[q] = obj[q]
    BY <1>2, <1>5, <2>2
  <2>3. ASSUME NEW q \in Modem, objects[q].there, ~obj[q].there
        PROVE  ~objects[q].powered /\ ~objects[q].interfaces
    BY <1>5, <2>3
  <2>. QED
    BY <1>1, <1>6, <2>1, <2>2, <2>3 DEF Fits
<1>. QED
  BY <1>1, <1>3, <1>4, <1>7 DEF list, objects

-----------------------------------------------------------------------------
(* The slots match at every step.                                          *)

(* modems_changed_cb makes slots that match the list it is given.          *)
LEMMA MatchAfterList ==
  ASSUME SlotsInv, NEW list, NEW objects, Fits(list, objects), modems_changed_cb(list, objects),
         manager, UNCHANGED <<manager, ofono, modem>>
  PROVE  SlotsTypeOK' /\ SlotsMatch'
<1>1. /\ modems' = list /\ obj' \in [Modem -> Object]
      /\ sims' \in Seq(Slot) /\ svc' \in Seq(BOOLEAN)
      /\ configured' = {p \in configured : objects[p].there}
      /\ DOMAIN sims' = DOMAIN list /\ DOMAIN svc' = DOMAIN list
      /\ \A n \in DOMAIN list : sims'[n].modem = list[n]
      /\ \A p \in Modem :
           /\ obj'[p].there = objects[p].there
           /\ objects[p].there => obj'[p].handler \in DOMAIN list /\ list[obj'[p].handler] = p
  <2>1. /\ modems' = list /\ obj' \in [Modem -> Object]
        /\ sims' \in Seq(Slot) /\ svc' \in Seq(BOOLEAN)
        /\ configured' = {p \in configured : objects[p].there}
        /\ DOMAIN sims' = DOMAIN list /\ DOMAIN svc' = DOMAIN list
    BY ListChanges, Zenon
  <2>2. /\ \A n \in DOMAIN list : SlotRemade(list, n)
        /\ \A p \in Modem : ObjectKept(list, objects, p)
    BY ListChanges, Zenon
  <2>. QED
    BY <2>1, <2>2 DEF SlotRemade, ObjectKept
<1>2. /\ list \in Seq(Modem) /\ Increasing(list)
      /\ \A p \in Modem : objects[p].there <=> ListedIn(list, p)
  BY DEF Fits
<1>3. SlotsTypeOK'
  <2>1. configured' \subseteq Modem /\ manager' \in BOOLEAN
    BY <1>1 DEF SlotsInv, SlotsTypeOK
  <2>. QED
    BY <1>1, <1>2, <2>1 DEF SlotsInv, SlotsTypeOK, Object, Slot
<1>4. SlotsMatch'
  <2>1. \A p \in Modem : obj'[p].there <=> ListedIn(modems', p)
    BY <1>1, <1>2
  <2>. QED
    BY <1>1, <1>2, <2>1 DEF SlotsMatch, IsListed, ListedIn, Increasing
<1>. QED
  BY <1>3, <1>4

(* Properties are taken over as the object's own, and no others change.    *)
TakesOver(p, o, changed) ==
  /\ o \in Object /\ o.there /\ o.handler = obj[p].handler /\ o.gen = obj[p].gen
  /\ "Powered" \in changed \/ o.powered = obj[p].powered
  /\ "Interfaces" \in changed \/ o.interfaces = obj[p].interfaces
  /\ PropertiesChanged(p, o, changed)

(* A property that is taken over leaves every slot with its modem.         *)
LEMMA MatchAfterProperty ==
  ASSUME SlotsInv, NEW p \in Modem, obj[p].there, NEW o, NEW changed, TakesOver(p, o, changed),
         UNCHANGED <<manager, modems, ofono, modem>>
  PROVE  SlotsTypeOK' /\ SlotsMatch'
<1>. DEFINE n == obj[p].handler
<1>. o \in Object /\ o.there /\ o.handler = n /\ PropertiesChanged(p, o, changed)
  BY DEF TakesOver
<1>1. /\ obj' = [obj EXCEPT ![p] = o]
      /\ sims' \in Seq(Slot) /\ DOMAIN sims' = DOMAIN modems
      /\ svc' \in Seq(BOOLEAN) /\ DOMAIN svc' = DOMAIN modems
      /\ configured' \in {configured, configured \cup {p}}
      /\ n \in DOMAIN modems /\ modems[n] = p /\ sims'[n].modem = p
      /\ \A m \in DOMAIN modems \ {n} : sims'[m] = sims[m]
  BY PropertyReachesSlot
<1>2. obj' \in [Modem -> Object] /\ \A q \in Modem : obj'[q] = IF q = p THEN o ELSE obj[q]
  BY <1>1 DEF SlotsInv, SlotsTypeOK, Object
<1>3. SlotsTypeOK'
  BY <1>1, <1>2 DEF SlotsInv, SlotsTypeOK, Object, Slot
<1>4. SlotsMatch'
  <2>1. \A m \in DOMAIN modems : sims'[m].modem = modems[m]
    BY <1>1 DEF SlotsInv, SlotsMatch
  <2>2. ASSUME NEW q \in Modem
        PROVE  /\ obj'[q].there <=> IsListed(q)
               /\ obj'[q].there => obj'[q].handler \in DOMAIN modems /\ modems[obj'[q].handler] = q
    BY <1>2 DEF SlotsInv, SlotsMatch
  <2>. QED
    BY <1>1, <2>1, <2>2 DEF SlotsInv, SlotsMatch, IsListed, ListedIn, Increasing
<1>. QED
  BY <1>3, <1>4

(* What the daemon does of what it is told of a modem's properties.        *)
LEMMA PropertyStep ==
  ASSUME SlotsInv, get_properties_cb \/ powered_changed \/ interfaces_changed
  PROVE  \/ UNCHANGED <<obj, sims, svc, configured>>
         \/ \E o, changed : obj[wire[1].modem].there /\ TakesOver(wire[1].modem, o, changed)
<1>1. /\ wire[1].modem \in Modem /\ Head(wire) = wire[1]
      /\ wire[1].kind \in {"Properties", "Powered", "Interfaces"} /\ Typed(wire[1])
  BY MessageArrives DEF get_properties_cb, powered_changed, interfaces_changed
<1>. DEFINE p == wire[1].modem v == wire[1].value
<1>2. v \in BOOLEAN
  BY <1>1 DEF Typed
<1>3. PICK t \in Object : t = obj[p]
  BY <1>1 DEF SlotsInv, SlotsTypeOK, Object
<1>4. /\ [t EXCEPT !.powered = v, !.interfaces = v] \in Object
      /\ [t EXCEPT !.powered = v] \in Object /\ [t EXCEPT !.interfaces = v] \in Object
  BY <1>2 DEF Object
<1>. HIDE DEF v, p
<1>5. \A o \in {[t EXCEPT !.powered = v, !.interfaces = v], [t EXCEPT !.powered = v],
                [t EXCEPT !.interfaces = v]} :
        o.there = t.there /\ o.handler = t.handler /\ o.gen = t.gen
  BY DEF Object
<1>a. /\ [t EXCEPT !.powered = v].interfaces = t.interfaces
      /\ [t EXCEPT !.interfaces = v].powered = t.powered
  BY DEF Object
<1>6. CASE get_properties_cb
  <2>1. \/ obj[p].there /\ PropertiesChanged(p, [obj[p] EXCEPT !.powered = v, !.interfaces = v],
                                               {"Powered", "Interfaces"})
        \/ UNCHANGED <<obj, sims, svc, configured>>
    BY <1>1, <1>6 DEF get_properties_cb, p, v
  <2>. QED
    BY <1>3, <1>4, <1>5, <1>a, <2>1 DEF TakesOver, p
<1>7. CASE powered_changed
  <2>1. \/ obj[p].there /\ PropertiesChanged(p, [obj[p] EXCEPT !.powered = v], {"Powered"})
        \/ UNCHANGED <<obj, sims, svc, configured>>
    BY <1>1, <1>7 DEF powered_changed, p, v
  <2>. QED
    BY <1>3, <1>4, <1>5, <1>a, <2>1 DEF TakesOver, p
<1>8. CASE interfaces_changed
  <2>1. \/ obj[p].there /\ PropertiesChanged(p, [obj[p] EXCEPT !.interfaces = v], {"Interfaces"})
        \/ UNCHANGED <<obj, sims, svc, configured>>
    BY <1>1, <1>8 DEF interfaces_changed, p, v
  <2>. QED
    BY <1>3, <1>4, <1>5, <1>a, <2>1 DEF TakesOver, p
<1>. QED
  BY <1>6, <1>7, <1>8

(* Nothing of the daemon's slots changes.                                  *)
LEMMA MatchIsKept ==
  ASSUME SlotsInv, UNCHANGED <<modems, obj, sims, svc, configured>>, manager' \in BOOLEAN,
         manager => manager', ofono' \in BOOLEAN, modem' \in [Modem -> {"absent", "off", "on"}]
  PROVE  SlotsTypeOK' /\ SlotsMatch'
<1>1. SlotsTypeOK'
  BY DEF SlotsInv, SlotsTypeOK
<1>2. SlotsMatch'
  BY DEF SlotsInv, SlotsMatch, IsListed, ListedIn, Increasing
<1>. QED
  BY <1>1, <1>2

(* Any message ofono sends is one.                                         *)
IsSent(m) == m \in WireMessage /\ Typed(m)

(* The messages ofono sends are of the types on the wire.                  *)
LEMMA MessageType ==
  /\ \A kind \in Kind \ {"Modems"} :
       \A p \in Modem, g \in Nat, v \in BOOLEAN : IsSent(Message(kind, p, g, v))
  /\ \A v \in SUBSET Modem : IsSent(Message("Modems", 0, 0, v))
<1>1. 0 \in Modem /\ 0 \in Nat
  BY SlotsAssumption DEF Modem
<1>2. ASSUME NEW kind \in Kind, kind # "Modems", NEW p \in Modem, NEW g \in Nat, NEW v \in BOOLEAN
      PROVE  IsSent(Message(kind, p, g, v))
  BY <1>2 DEF Message, WireMessage, Typed, IsSent
<1>3. ASSUME NEW v \in SUBSET Modem PROVE IsSent(Message("Modems", 0, 0, v))
  <2>1. "Modems" \in Kind
    BY DEF Kind
  <2>. QED
    BY <1>1, <2>1 DEF Message, WireMessage, Typed, IsSent
<1>. QED
  BY <1>2, <1>3

(* A message that is about no modem names the first.                       *)
LEMMA FirstModem == 0 \in Modem /\ 0 \in Nat
BY SlotsAssumption DEF Modem

(* The daemon starts with no slots and no modems.                          *)
LEMMA InitMatches == SlotsInit => SlotsInv
<1>. SUFFICES ASSUME SlotsInit PROVE SlotsInv
  OBVIOUS
<1>1. SlotsTypeOK
  <2>1. NoObject \in Object
    <3>1. 0 \in Nat
      OBVIOUS
    <3>. QED
      BY <3>1, NewObjectType
  <2>2. obj \in [Modem -> Object]
    BY <2>1 DEF SlotsInit
  <2>3. modems \in Seq(Modem) /\ sims \in Seq(Slot) /\ svc \in Seq(BOOLEAN)
    BY DEF SlotsInit
  <2>4. manager \in BOOLEAN /\ ofono \in BOOLEAN /\ configured \subseteq Modem
    BY DEF SlotsInit
  <2>5. modem \in [Modem -> {"absent", "off", "on"}]
    BY DEF SlotsInit
  <2>. QED
    BY <2>2, <2>3, <2>4, <2>5 DEF SlotsTypeOK, Object, Slot
<1>2. WireTypeOK
  BY DEF SlotsInit, WireTypeOK
<1>3. SlotsMatch
  <2>1. \A p \in Modem : ~obj[p].there
    BY FirstModem, NewObjectType DEF SlotsInit
  <2>2. DOMAIN modems = {} /\ DOMAIN sims = {} /\ DOMAIN svc = {} /\ modems = <<>>
    BY DEF SlotsInit
  <2>. QED
    BY <2>1, <2>2 DEF SlotsMatch, Increasing, IsListed, ListedIn
<1>. QED
  BY <1>1, <1>2, <1>3 DEF SlotsInv

(* With its first message gone, what is on its way keeps its type.         *)
LEMMA MatchAfterMessage ==
  ASSUME SlotsInv, NEW kind, Arrives(kind),
         gen' \in Nat, orderly' = orderly, reqs' \in Seq(Request), SlotsTypeOK', SlotsMatch'
  PROVE  SlotsInv'
<1>1. /\ wire' \in Seq(WireMessage) /\ DOMAIN wire' = 1..Len(wire) - 1
      /\ \A n \in 1..Len(wire) - 1 : Typed(wire'[n])
  BY MessageArrives
<1>2. WireTypeOK'
  BY <1>1 DEF SlotsInv, WireTypeOK, Typed
<1>. QED
  BY <1>2 DEF SlotsInv

(* Each of the daemon's callbacks keeps the slots and the list alike.      *)
LEMMA DaemonKeepsMatch ==
  ASSUME SlotsInv,
         \/ service_appeared_cb \/ service_vanished_cb
         \/ modem_added_cb \/ modem_removed_cb \/ get_modems_cb
         \/ get_properties_cb \/ powered_changed \/ interfaces_changed
  PROVE  SlotsInv'
<1>1. /\ gen \in Nat /\ orderly \in BOOLEAN /\ reqs \in Seq(Request)
      /\ manager \in BOOLEAN /\ ofono \in BOOLEAN /\ modem \in [Modem -> {"absent", "off", "on"}]
  BY DEF SlotsInv, WireTypeOK, SlotsTypeOK
<1>2. CASE service_appeared_cb
  <2>1. GetModems \in Request
    BY FirstModem DEF GetModems, Request
  <2>2. reqs' \in Seq(Request) /\ gen' = gen /\ orderly' = orderly
    BY <1>1, <1>2, <2>1, AppendProperties DEF service_appeared_cb, world
  <2>3. /\ UNCHANGED <<modems, obj, sims, svc, configured, ofono, modem>>
        /\ manager' \in BOOLEAN
        /\ manager => manager'
    BY <1>1, <1>2 DEF service_appeared_cb, world
  <2>4. SlotsTypeOK' /\ SlotsMatch'
    BY <1>1, <2>3, MatchIsKept
  <2>5. Arrives("appeared")
    BY <1>2 DEF service_appeared_cb
  <2>. QED
    BY <1>1, <2>2, <2>4, <2>5, MatchAfterMessage, Zenon
<1>3. CASE service_vanished_cb
  <2>1. /\ manager' = FALSE /\ modems' = <<>> /\ obj' = [p \in Modem |-> NoObject]
        /\ sims' = <<>> /\ svc' = service_for(0) /\ configured' = {}
        /\ ofono' = ofono /\ modem' = modem
        /\ gen' = gen /\ orderly' = orderly /\ reqs' = reqs /\ Arrives("vanished")
    BY <1>3 DEF service_vanished_cb, world
  <2>2. svc' = <<>>
    BY <2>1 DEF service_for
  <2>3. obj' \in [Modem -> Object] /\ \A p \in Modem : ~obj'[p].there
    BY <2>1, FirstModem, NewObjectType
  <2>4. SlotsTypeOK'
    <3>1. modems' \in Seq(Modem) /\ sims' \in Seq(Slot) /\ svc' \in Seq(BOOLEAN)
      <4>1. <<>> \in Seq(Modem) /\ <<>> \in Seq(Slot) /\ <<>> \in Seq(BOOLEAN)
        OBVIOUS
      <4>2. modems' = <<>> /\ sims' = <<>>
        BY <2>1
      <4>. QED
        BY <2>2, <4>1, <4>2, Zenon
    <3>2. manager' \in BOOLEAN /\ configured' \subseteq Modem
      BY <2>1
    <3>. QED
      BY <1>1, <2>1, <2>3, <3>1, <3>2 DEF SlotsTypeOK, Object, Slot
  <2>5. DOMAIN modems' = {} /\ DOMAIN sims' = {} /\ DOMAIN svc' = {}
    BY <2>1, <2>2
  <2>6. SlotsMatch'
    BY <2>1, <2>3, <2>5 DEF SlotsMatch, IsListed, ListedIn, Increasing
  <2>. QED
    BY <1>1, <2>1, <2>4, <2>6, MatchAfterMessage, Zenon
<1>4. CASE modem_added_cb
  <2>1. /\ UNCHANGED <<manager, ofono, modem>> /\ orderly' = orderly /\ Arrives("ModemAdded")
    BY <1>4 DEF modem_added_cb, world
  <2>. DEFINE p == wire[1].modem
  <2>2. p \in Modem /\ Head(wire) = wire[1]
    BY <2>1, MessageArrives
  <2>3. CASE ~manager \/ p \in ToSet(modems)
    <3>1. UNCHANGED <<modems, obj, sims, svc, configured, reqs, gen>>
      BY <1>4, <2>2, <2>3 DEF modem_added_cb
    <3>2. SlotsTypeOK' /\ SlotsMatch'
      BY <1>1, <2>1, <3>1, MatchIsKept
    <3>. QED
      BY <1>1, <2>1, <3>1, <3>2, MatchAfterMessage
  <2>4. CASE ~(~manager \/ p \in ToSet(modems))
    <3>1. /\ gen' = gen + 1 /\ reqs' = Ask(<<p>>)
          /\ modems_changed_cb(insert_sorted(modems, {p}), [obj EXCEPT ![p] = NewObject(gen)])
      BY <1>4, <2>2, <2>4 DEF modem_added_cb
    <3>2. ~IsListed(p)
      BY <2>4 DEF ToSet, IsListed, ListedIn
    <3>3. SlotsTypeOK' /\ SlotsMatch'
      BY <2>1, <2>2, <2>4, <3>1, <3>2, AddedFits, MatchAfterList, Zenon
    <3>4. <<p>> \in [1..1 -> Modem] /\ 1 \in Nat
      BY <2>2
    <3>5. reqs' \in Seq(Request)
      BY <3>1, <3>4, PropertiesAreAsked
    <3>6. gen' \in Nat
      BY <1>1, <3>1
    <3>. QED
      BY <1>1, <2>1, <3>3, <3>5, <3>6, MatchAfterMessage
  <2>. QED
    BY <2>3, <2>4
<1>5. CASE modem_removed_cb
  <2>1. /\ UNCHANGED <<manager, ofono, modem, reqs, gen>> /\ orderly' = orderly
        /\ Arrives("ModemRemoved")
    BY <1>5 DEF modem_removed_cb, world
  <2>. DEFINE p == wire[1].modem
  <2>2. p \in Modem /\ Head(wire) = wire[1]
    BY <2>1, MessageArrives
  <2>3. CASE ~manager \/ p \notin ToSet(modems)
    <3>1. UNCHANGED <<modems, obj, sims, svc, configured>>
      BY <1>5, <2>2, <2>3 DEF modem_removed_cb
    <3>2. SlotsTypeOK' /\ SlotsMatch'
      BY <1>1, <2>1, <3>1, MatchIsKept
    <3>. QED
      BY <1>1, <2>1, <3>2, MatchAfterMessage
  <2>4. CASE ~(~manager \/ p \notin ToSet(modems))
    <3>1. modems_changed_cb(RemoveAt(modems, Position(modems, p)), [obj EXCEPT ![p] = NoObject])
      BY <1>5, <2>2, <2>4 DEF modem_removed_cb
    <3>2. IsListed(p)
      BY <2>4 DEF ToSet, IsListed, ListedIn
    <3>3. Fits(RemoveAt(modems, Position(modems, p)), [obj EXCEPT ![p] = NoObject])
      BY <2>2, <3>2, RemovedFits
    <3>4. SlotsTypeOK' /\ SlotsMatch'
      BY <2>1, <2>4, <3>1, <3>3, MatchAfterList, Zenon
    <3>. QED
      BY <1>1, <2>1, <3>4, MatchAfterMessage
  <2>. QED
    BY <2>3, <2>4
<1>6. CASE get_modems_cb
  <2>1. /\ UNCHANGED <<manager, ofono, modem>> /\ orderly' = orderly /\ Arrives("Modems")
    BY <1>6 DEF get_modems_cb, world
  <2>. DEFINE new == wire[1].value \ ToSet(modems)
  <2>2. new \in SUBSET Modem /\ Head(wire) = wire[1]
    BY <2>1, MessageArrives DEF Typed
  <2>3. CASE ~manager
    <3>1. UNCHANGED <<modems, obj, sims, svc, configured, reqs, gen>>
      BY <1>6, <2>3 DEF get_modems_cb
    <3>2. SlotsTypeOK' /\ SlotsMatch'
      BY <1>1, <2>1, <3>1, MatchIsKept
    <3>. QED
      BY <1>1, <2>1, <3>1, <3>2, MatchAfterMessage
  <2>4. CASE manager
    <3>1. /\ gen' = gen + Cardinality(new) /\ reqs' = Ask(InOrder(new))
          /\ modems_changed_cb(insert_sorted(modems, new), WithListed(new))
      BY <1>6, <2>2, <2>4 DEF get_modems_cb, WithListed
    <3>2. \A p \in new : ~IsListed(p)
      BY DEF ToSet, IsListed, ListedIn
    <3>. HIDE DEF new
    <3>3. /\ Fits(insert_sorted(modems, new), WithListed(new))
          /\ Cardinality(new) \in Nat /\ InOrder(new) \in [1..Cardinality(new) -> Modem]
      BY <2>2, <3>2, ListedFits
    <3>4. SlotsTypeOK' /\ SlotsMatch'
      BY <2>1, <2>4, <3>1, <3>3, MatchAfterList, Zenon
    <3>5. reqs' \in Seq(Request)
      BY <3>1, <3>3, PropertiesAreAsked
    <3>6. gen' \in Nat
      BY <1>1, <3>1, <3>3
    <3>. QED
      BY <1>1, <2>1, <3>4, <3>5, <3>6, MatchAfterMessage
  <2>. QED
    BY <2>3, <2>4
<1>7. CASE get_properties_cb \/ powered_changed \/ interfaces_changed
  <2>1. /\ UNCHANGED <<manager, modems, ofono, modem, orderly, reqs, gen>>
        /\ \E kind : Arrives(kind)
    BY <1>7 DEF get_properties_cb, powered_changed, interfaces_changed, world
  <2>2. wire[1].modem \in Modem
    BY <2>1, MessageArrives
  <2>3. SlotsTypeOK' /\ SlotsMatch'
    <3>1. CASE UNCHANGED <<obj, sims, svc, configured>>
      BY <1>1, <2>1, <3>1, MatchIsKept
    <3>2. CASE \E o, changed : /\ obj[wire[1].modem].there
                                 /\ TakesOver(wire[1].modem, o, changed)
      BY <2>1, <2>2, <3>2, MatchAfterProperty
    <3>. QED
      BY <1>7, <3>1, <3>2, PropertyStep
  <2>. QED
    BY <1>1, <2>1, <2>3, MatchAfterMessage
<1>. QED
  BY <1>2, <1>3, <1>4, <1>5, <1>6, <1>7

(* Nothing ofono or a modem does touches the slots; they send messages of  *)
(* the types on the wire.                                                  *)
LEMMA EnvironmentKeepsMatch ==
  ASSUME SlotsInv,
         \/ OfonoStarts \/ OfonoDies \/ OfonoReplies
         \/ ModemAppears \/ ModemDisappears \/ ModemPowers \/ ModemLosesPower
  PROVE  SlotsInv'
<1>1. /\ gen \in Nat /\ orderly \in BOOLEAN /\ reqs \in Seq(Request)
      /\ manager \in BOOLEAN /\ ofono \in BOOLEAN /\ modem \in [Modem -> {"absent", "off", "on"}]
      /\ wire \in Seq(WireMessage) /\ \A n \in DOMAIN wire : Typed(wire[n])
  BY DEF SlotsInv, WireTypeOK, SlotsTypeOK, Typed
<1>2. /\ UNCHANGED <<manager, modems, obj, sims, svc, configured, gen>>
      /\ ofono' \in BOOLEAN /\ modem' \in [Modem -> {"absent", "off", "on"}]
      /\ orderly' \in BOOLEAN
  BY <1>1 DEF OfonoStarts, OfonoDies, OfonoReplies, ModemAppears, ModemDisappears, ModemPowers,
              ModemLosesPower, daemon, world, Present
<1>3. SlotsTypeOK' /\ SlotsMatch'
  BY <1>1, <1>2, MatchIsKept
<1>4. reqs' \in Seq(Request)
  <2>1. CASE OfonoReplies
    BY <1>1, <2>1, HeadTailProperties DEF OfonoReplies
  <2>2. CASE OfonoDies
    <3>1. reqs' = <<>>
      BY <2>2 DEF OfonoDies
    <3>. QED
      BY <3>1
  <2>. QED
    BY <1>1, <2>1, <2>2 DEF OfonoStarts, ModemAppears, ModemDisappears, ModemPowers,
                            ModemLosesPower
<1>5. wire' \in Seq(WireMessage) /\ \A n \in DOMAIN wire' : Typed(wire'[n])
  <2>1. ASSUME NEW m, IsSent(m), wire' = Append(wire, m)
        PROVE  wire' \in Seq(WireMessage) /\ \A n \in DOMAIN wire' : Typed(wire'[n])
    BY <2>1, MessageIsSent DEF IsSent
  <2>2. ASSUME NEW m, IsSent(m), NEW k, IsSent(k), wire' = wire \o <<m, k>>
        PROVE  wire' \in Seq(WireMessage) /\ \A n \in DOMAIN wire' : Typed(wire'[n])
    BY <2>2, TwoAreSent DEF IsSent
  <2>3. CASE wire' = wire
    BY <1>1, <2>3
  <2>4. ASSUME NEW m, wire' = wire \o <<m>> PROVE wire' = Append(wire, m)
    BY <1>1, <2>4
  <2>5. CASE OfonoStarts
    <3>1. wire' = Append(wire, Message("appeared", 0, 0, FALSE))
      BY <2>5 DEF OfonoStarts
    <3>2. IsSent(Message("appeared", 0, 0, FALSE))
      BY FirstModem, MessageType DEF Kind
    <3>. QED
      BY <2>1, <3>1, <3>2
  <2>6. CASE OfonoDies
    <3>1. wire' = Append(wire, Message("vanished", 0, 0, FALSE))
      BY <2>6 DEF OfonoDies
    <3>2. IsSent(Message("vanished", 0, 0, FALSE))
      BY FirstModem, MessageType DEF Kind
    <3>. QED
      BY <2>1, <3>1, <3>2
  <2>7. CASE OfonoReplies
    <3>. DEFINE r == Head(reqs)
    <3>1. r \in Request
      BY <1>1, <2>7, HeadTailProperties DEF OfonoReplies
    <3>2. \/ wire' = Append(wire, Message("Modems", 0, 0, Present)) \/ wire' = wire
          \/ wire' = Append(wire, Message("Properties", r.modem, r.gen, modem[r.modem] = "on"))
      BY <2>7 DEF OfonoReplies
    <3>3. r.modem \in Modem /\ r.gen \in Nat
      BY <3>1 DEF Request
    <3>. HIDE DEF r
    <3>4. CASE wire' = Append(wire, Message("Modems", 0, 0, Present))
      <4>1. Present \in SUBSET Modem
        BY DEF Present
      <4>2. IsSent(Message("Modems", 0, 0, Present))
        BY <4>1, MessageType
      <4>. QED
        BY <2>1, <3>4, <4>2
    <3>5. CASE wire' = Append(wire, Message("Properties", r.modem, r.gen, modem[r.modem] = "on"))
      <4>1. PICK b \in BOOLEAN : b = (modem[r.modem] = "on")
        OBVIOUS
      <4>2. wire' = Append(wire, Message("Properties", r.modem, r.gen, b))
        BY <3>5, <4>1
      <4>3. IsSent(Message("Properties", r.modem, r.gen, b))
        BY <3>3, <4>1, MessageType DEF Kind
      <4>. QED
        BY <2>1, <4>2, <4>3
    <3>. QED
      BY <2>3, <3>2, <3>4, <3>5
  <2>8. CASE ModemAppears \/ ModemDisappears
    <3>1. PICK p \in Modem, kind \in {"ModemAdded", "ModemRemoved"} :
             Says(<<Message(kind, p, 0, FALSE)>>)
      BY <2>8 DEF ModemAppears, ModemDisappears, Present
    <3>2. wire' = wire \/ wire' = Append(wire, Message(kind, p, 0, FALSE))
      BY <2>4, <3>1 DEF Says
    <3>3. IsSent(Message(kind, p, 0, FALSE))
      BY FirstModem, MessageType DEF Kind
    <3>. QED
      BY <2>1, <2>3, <3>2, <3>3
  <2>9. CASE ModemPowers \/ ModemLosesPower
    <3>1. PICK p \in Modem, kind \in {"Powered", "Interfaces"},
               other \in {"Powered", "Interfaces"}, v \in BOOLEAN :
             Says(<<Message(kind, p, 0, v), Message(other, p, 0, v)>>)
      BY <2>9 DEF ModemPowers, ModemLosesPower
    <3>2. IsSent(Message(kind, p, 0, v)) /\ IsSent(Message(other, p, 0, v))
      BY FirstModem, MessageType DEF Kind
    <3>3. wire' = wire \/ wire' = wire \o <<Message(kind, p, 0, v), Message(other, p, 0, v)>>
      BY <3>1 DEF Says
    <3>. QED
      BY <2>2, <2>3, <3>2, <3>3
  <2>. QED
    BY <2>5, <2>6, <2>7, <2>8, <2>9
<1>6. WireTypeOK'
  BY <1>1, <1>2, <1>4, <1>5 DEF WireTypeOK, Typed
<1>. QED
  BY <1>3, <1>6 DEF SlotsInv

(* Every step keeps the slots and the list alike.                          *)
LEMMA StepsKeepMatch == SlotsInv /\ [SlotsNext]_slotsVars => SlotsInv'
<1>. SUFFICES ASSUME SlotsInv, [SlotsNext]_slotsVars PROVE SlotsInv'
  OBVIOUS
<1>1. CASE UNCHANGED slotsVars
  <2>1. UNCHANGED <<manager, modems, obj, sims, svc, configured, ofono, modem, orderly,
                    wire, reqs, gen>>
    BY <1>1 DEF slotsVars, daemon, world
  <2>. QED
    BY <2>1 DEF SlotsInv, SlotsTypeOK, WireTypeOK, SlotsMatch, IsListed, ListedIn, Increasing
<1>. QED
  BY <1>1, DaemonKeepsMatch, EnvironmentKeepsMatch DEF SlotsNext

(* modems_changed_cb (telephony.c), with                                   *)
(* telephony_service_sim_count_changed_notify (telephonyservice.c): at     *)
(* every moment the driver's slots are the modems on the list in the order *)
(* of their paths, the service has as many, and each modem on the list,    *)
(* and no other, has an object.                                            *)
THEOREM SlotsAlwaysMatch == SlotsSpec => []SlotsInv
<1>. QED
  BY InitMatches, StepsKeepMatch, PTL DEF SlotsSpec

(* The state is always well typed.                                         *)
THEOREM SlotsAreWellTyped == SlotsSpec => []SlotsTypeOK
<1>1. SlotsInv => SlotsTypeOK
  BY DEF SlotsInv
<1>. QED
  BY <1>1, SlotsAlwaysMatch, PTL

(* Slot N is the Nth modem in the order of the paths, in the driver and in *)
(* the service, and what is heard of a modem is for the slot it is in.     *)
THEOREM SlotsAlwaysFollowModems == SlotsSpec => []SlotsFollowModems
<1>1. ASSUME SlotsInv PROVE SlotsFollowModems
  <2>1. /\ sims \in Seq(Slot) /\ svc \in Seq(BOOLEAN) /\ modems \in Seq(Modem)
        /\ DOMAIN sims = DOMAIN modems /\ DOMAIN svc = DOMAIN modems
    BY <1>1 DEF SlotsInv, SlotsTypeOK, SlotsMatch, Slot
  <2>2. Len(svc) = Len(sims)
    <3>1. /\ Len(svc) \in Nat /\ DOMAIN svc = 1..Len(svc)
          /\ Len(sims) \in Nat /\ DOMAIN sims = 1..Len(sims)
      BY <2>1, LenProperties
    <3>. QED
      BY <2>1, <3>1
  <2>. QED
    BY <1>1, <2>1, <2>2 DEF SlotsInv, SlotsMatch, SlotsFollowModems, Increasing
<1>. QED
  BY <1>1, SlotsAlwaysMatch, PTL


-----------------------------------------------------------------------------
(* What is on its way, when the first message is gone or some more are at  *)
(* the end.                                                                *)
Shifts ==
  /\ Len(wire) \in Nat \ {0} /\ DOMAIN wire = 1..Len(wire)
  /\ Len(wire') = Len(wire) - 1 /\ DOMAIN wire' = 1..Len(wire) - 1
  /\ \A n \in 1..Len(wire) - 1 : wire'[n] = wire[n + 1]

Grows(d) ==
  /\ Len(wire) \in Nat /\ DOMAIN wire = 1..Len(wire)
  /\ Len(wire') = Len(wire) + d /\ DOMAIN wire' = 1..Len(wire) + d
  /\ \A n \in 1..Len(wire) : wire'[n] = wire[n]

NoneNew(d, B) == \A n \in Len(wire) + 1..Len(wire) + d : wire'[n] \notin B

(* A place after the first is one place earlier.                           *)
LEMMA PlacesMoveUp ==
  ASSUME Shifts
  PROVE  /\ \A n \in 1..Len(wire) - 1 : n + 1 \in 2..Len(wire) /\ wire'[n] = wire[n + 1]
         /\ \A n \in 2..Len(wire) : n - 1 \in 1..Len(wire) - 1 /\ wire'[n - 1] = wire[n]
<1>1. Len(wire) \in Nat \ {0} /\ \A n \in 1..Len(wire) - 1 : wire'[n] = wire[n + 1]
  BY DEF Shifts
<1>2. ASSUME NEW n \in 2..Len(wire)
      PROVE  n - 1 \in 1..Len(wire) - 1 /\ wire'[n - 1] = wire[n]
  <2>1. n - 1 \in 1..Len(wire) - 1 /\ n - 1 + 1 = n
    BY <1>1
  <2>. QED
    BY <1>1, <2>1
<1>3. \A n \in 1..Len(wire) - 1 : n + 1 \in 2..Len(wire)
  BY <1>1
<1>. QED
  BY <1>1, <1>2, <1>3

(* What occurs after the first message still does.                         *)
LEMMA OccursAfterShift ==
  ASSUME Shifts, NEW B
  PROVE  /\ Occurs(B)' => Occurs(B)
         /\ Occurs(B) => wire[1] \in B \/ Occurs(B)'
         /\ wire[1] \in B => Occurs(B)
<1>1. Len(wire) \in Nat \ {0} /\ DOMAIN wire = 1..Len(wire) /\ DOMAIN wire' = 1..Len(wire) - 1
  BY DEF Shifts
<1>2. ASSUME Occurs(B)' PROVE Occurs(B)
  <2>1. PICK n \in 1..Len(wire) - 1 : wire'[n] \in B
    BY <1>1, <1>2 DEF Occurs
  <2>2. n + 1 \in 1..Len(wire) /\ wire[n + 1] \in B
    BY <1>1, <2>1, PlacesMoveUp
  <2>. QED
    BY <1>1, <2>2 DEF Occurs
<1>3. ASSUME Occurs(B), wire[1] \notin B PROVE Occurs(B)'
  <2>1. PICK n \in 1..Len(wire) : wire[n] \in B
    BY <1>1, <1>3 DEF Occurs
  <2>2. n \in 2..Len(wire)
    BY <1>1, <1>3, <2>1
  <2>3. n - 1 \in 1..Len(wire) - 1 /\ wire'[n - 1] \in B
    BY <2>1, <2>2, PlacesMoveUp
  <2>. QED
    BY <1>1, <2>3 DEF Occurs
<1>4. 1 \in DOMAIN wire
  BY <1>1
<1>. QED
  BY <1>2, <1>3, <1>4 DEF Occurs

(* So does what follows it.                                                *)
LEMMA FollowedAfterShift ==
  ASSUME Shifts, NEW A, NEW B, Followed(A, B)
  PROVE  /\ Followed(A, B)'
         /\ wire[1] \in A => wire[1] \in B \/ Occurs(B)'
<1>1. /\ Len(wire) \in Nat \ {0} /\ DOMAIN wire = 1..Len(wire)
      /\ Len(wire') = Len(wire) - 1 /\ DOMAIN wire' = 1..Len(wire) - 1
  BY DEF Shifts
<1>2. ASSUME NEW n \in 1..Len(wire) - 1, wire'[n] \in A
      PROVE  \E k \in n..Len(wire) - 1 : wire'[k] \in B
  <2>1. n + 1 \in DOMAIN wire /\ wire[n + 1] \in A
    BY <1>1, <1>2, PlacesMoveUp
  <2>2. PICK k \in n + 1..Len(wire) : wire[k] \in B
    BY <2>1 DEF Followed
  <2>3. k \in 2..Len(wire) /\ k - 1 \in n..Len(wire) - 1
    BY <1>1
  <2>. QED
    BY <2>2, <2>3, PlacesMoveUp
<1>3. Followed(A, B)'
  BY <1>1, <1>2 DEF Followed
<1>4. ASSUME wire[1] \in A PROVE wire[1] \in B \/ Occurs(B)'
  <2>1. PICK k \in 1..Len(wire) : wire[k] \in B
    BY <1>1, <1>4 DEF Followed
  <2>2. Occurs(B)
    BY <1>1, <2>1 DEF Occurs
  <2>. QED
    BY <2>2, OccursAfterShift
<1>. QED
  BY <1>3, <1>4

(* What comes before it does unless it was the first message; two of a     *)
(* sort are parted as before.                                              *)
LEMMA PrecededAfterShift ==
  ASSUME Shifts, NEW A, NEW B
  PROVE  /\ Preceded(A, B) /\ wire[1] \notin B => Preceded(A, B)' /\ wire[1] \notin A
         /\ Parted(A, B) => Parted(A, B)'
         /\ Parted(A, B) /\ wire[1] \in A /\ wire[1] \notin B => Preceded(A, B)'
<1>1. Len(wire) \in Nat \ {0} /\ DOMAIN wire = 1..Len(wire) /\ DOMAIN wire' = 1..Len(wire) - 1
  BY DEF Shifts
<1>2. ASSUME Preceded(A, B), wire[1] \notin B PROVE Preceded(A, B)' /\ wire[1] \notin A
  <2>1. ASSUME NEW n \in 1..Len(wire) - 1, wire'[n] \in A PROVE \E k \in 1..n : wire'[k] \in B
    <3>1. n + 1 \in DOMAIN wire /\ wire[n + 1] \in A
      BY <1>1, <2>1, PlacesMoveUp
    <3>2. PICK k \in 1..n + 1 : wire[k] \in B
      BY <1>2, <3>1 DEF Preceded
    <3>3. k # 1
      BY <1>2, <3>2
    <3>4. k \in 2..Len(wire) /\ k - 1 \in 1..n
      BY <1>1, <3>3
    <3>. QED
      BY <3>2, <3>4, PlacesMoveUp
  <2>2. ASSUME wire[1] \in A PROVE FALSE
    <3>1. PICK k \in 1..1 : wire[k] \in B
      BY <1>1, <1>2, <2>2 DEF Preceded
    <3>. QED
      BY <1>2, <3>1
  <2>. QED
    BY <1>1, <2>1, <2>2 DEF Preceded
<1>3. ASSUME Parted(A, B) PROVE Parted(A, B)'
  <2>1. ASSUME NEW i \in 1..Len(wire) - 1, NEW n \in 1..Len(wire) - 1,
               wire'[i] \in A, wire'[n] \in A, i < n
        PROVE  \E k \in i..n : wire'[k] \in B
    <3>1. /\ i + 1 \in DOMAIN wire /\ wire[i + 1] \in A
          /\ n + 1 \in DOMAIN wire /\ wire[n + 1] \in A /\ i + 1 < n + 1
      BY <1>1, <2>1, PlacesMoveUp
    <3>2. PICK k \in i + 1..n + 1 : wire[k] \in B
      BY <1>3, <3>1 DEF Parted
    <3>3. k \in 2..Len(wire) /\ k - 1 \in i..n
      BY <1>1
    <3>. QED
      BY <3>2, <3>3, PlacesMoveUp
  <2>. QED
    BY <1>1, <2>1 DEF Parted
<1>4. ASSUME Parted(A, B), wire[1] \in A, wire[1] \notin B PROVE Preceded(A, B)'
  <2>1. ASSUME NEW n \in 1..Len(wire) - 1, wire'[n] \in A PROVE \E k \in 1..n : wire'[k] \in B
    <3>1. n + 1 \in DOMAIN wire /\ wire[n + 1] \in A /\ 1 \in DOMAIN wire /\ 1 < n + 1
      BY <1>1, <2>1, PlacesMoveUp
    <3>2. PICK k \in 1..n + 1 : wire[k] \in B
      BY <1>4, <3>1 DEF Parted
    <3>3. k # 1
      BY <1>4, <3>2
    <3>4. k \in 2..Len(wire) /\ k - 1 \in 1..n
      BY <1>1, <3>3
    <3>. QED
      BY <3>2, <3>4, PlacesMoveUp
  <2>. QED
    BY <1>1, <2>1 DEF Preceded
<1>. QED
  BY <1>2, <1>3, <1>4

(* The last of a sort still has nothing of the other after it, unless it   *)
(* was the first message.                                                  *)
LEMMA LastsAfterShift ==
  ASSUME Shifts, NEW A, NEW B, Lasts(A, B)
  PROVE  Lasts(A, B)' \/ (wire[1] \in A /\ ~Occurs(B)')
<1>1. /\ Len(wire) \in Nat \ {0} /\ DOMAIN wire = 1..Len(wire)
      /\ Len(wire') = Len(wire) - 1 /\ DOMAIN wire' = 1..Len(wire) - 1
  BY DEF Shifts
<1>2. PICK n \in 1..Len(wire) : wire[n] \in A /\ \A k \in n + 1..Len(wire) : wire[k] \notin B
  BY <1>1 DEF Lasts
<1>3. CASE n = 1
  <2>1. ASSUME NEW k \in 1..Len(wire) - 1 PROVE wire'[k] \notin B
    <3>1. k + 1 \in n + 1..Len(wire) /\ wire'[k] = wire[k + 1]
      BY <1>1, <1>3, PlacesMoveUp
    <3>. QED
      BY <1>2, <3>1
  <2>. QED
    BY <1>1, <1>2, <1>3, <2>1 DEF Occurs
<1>4. CASE n # 1
  <2>1. n \in 2..Len(wire)
    BY <1>1, <1>4
  <2>2. n - 1 \in 1..Len(wire) - 1 /\ wire'[n - 1] \in A
    BY <1>2, <2>1, PlacesMoveUp
  <2>3. ASSUME NEW k \in n - 1 + 1..Len(wire) - 1 PROVE wire'[k] \notin B
    <3>1. k \in 1..Len(wire) - 1 /\ k + 1 \in n + 1..Len(wire)
      BY <1>1
    <3>2. wire'[k] = wire[k + 1]
      BY <3>1, PlacesMoveUp
    <3>. QED
      BY <1>2, <3>1, <3>2
  <2>. QED
    BY <1>1, <2>2, <2>3 DEF Lasts
<1>. QED
  BY <1>3, <1>4

(* A place is an old one or a new one.                                     *)
LEMMA PlacesStay ==
  ASSUME NEW d \in Nat, Grows(d)
  PROVE  /\ \A n \in 1..Len(wire) : n \in 1..Len(wire) + d /\ wire'[n] = wire[n]
         /\ \A n \in 1..Len(wire) + d : n \notin 1..Len(wire) => n \in Len(wire) + 1..Len(wire) + d
<1>1. Len(wire) \in Nat /\ \A n \in 1..Len(wire) : wire'[n] = wire[n]
  BY DEF Grows
<1>2. /\ \A n \in 1..Len(wire) : n \in 1..Len(wire) + d
      /\ \A n \in 1..Len(wire) + d : n \notin 1..Len(wire) => n \in Len(wire) + 1..Len(wire) + d
  BY <1>1
<1>. QED
  BY <1>1, <1>2

(* What occurs still does, and nothing else unless it is new.              *)
LEMMA OccursAfterGrowth ==
  ASSUME NEW d \in Nat, Grows(d), NEW B
  PROVE  /\ Occurs(B) => Occurs(B)'
         /\ Occurs(B)' => Occurs(B) \/ ~NoneNew(d, B)
         /\ ~NoneNew(d, B) => Occurs(B)'
<1>1. Len(wire) \in Nat /\ DOMAIN wire = 1..Len(wire) /\ DOMAIN wire' = 1..Len(wire) + d
  BY DEF Grows
<1>2. Occurs(B) => Occurs(B)'
  BY <1>1, PlacesStay DEF Occurs
<1>3. ASSUME Occurs(B)', NoneNew(d, B) PROVE Occurs(B)
  <2>1. PICK n \in 1..Len(wire) + d : wire'[n] \in B
    BY <1>1, <1>3 DEF Occurs
  <2>2. n \in 1..Len(wire)
    BY <1>3, <2>1, PlacesStay DEF NoneNew
  <2>. QED
    BY <1>1, <2>1, <2>2, PlacesStay DEF Occurs
<1>4. \A n \in Len(wire) + 1..Len(wire) + d : n \in 1..Len(wire) + d
  BY <1>1
<1>5. ~NoneNew(d, B) => Occurs(B)'
  BY <1>1, <1>4 DEF Occurs, NoneNew
<1>. QED
  BY <1>2, <1>3, <1>5

(* What had one of a sort after it still has, and so has all if the last   *)
(* one is of the sort.                                                     *)
LEMMA FollowedAfterGrowth ==
  ASSUME NEW d \in Nat, Grows(d), NEW A, NEW B
  PROVE  /\ Followed(A, B) /\ NoneNew(d, A) => Followed(A, B)'
         /\ d # 0 /\ wire'[Len(wire) + d] \in B => Followed(A, B)'
<1>1. /\ Len(wire) \in Nat /\ DOMAIN wire = 1..Len(wire)
      /\ Len(wire') = Len(wire) + d /\ DOMAIN wire' = 1..Len(wire) + d
  BY DEF Grows
<1>2. ASSUME Followed(A, B), NoneNew(d, A) PROVE Followed(A, B)'
  <2>1. ASSUME NEW n \in 1..Len(wire) + d, wire'[n] \in A
        PROVE  \E k \in n..Len(wire) + d : wire'[k] \in B
    <3>1. n \in 1..Len(wire)
      BY <1>2, <2>1, PlacesStay DEF NoneNew
    <3>2. wire[n] \in A
      BY <2>1, <3>1, PlacesStay
    <3>3. PICK k \in n..Len(wire) : wire[k] \in B
      BY <1>1, <1>2, <3>1, <3>2 DEF Followed
    <3>4. k \in 1..Len(wire) /\ k \in n..Len(wire) + d
      BY <1>1
    <3>. QED
      BY <3>3, <3>4, PlacesStay
  <2>. QED
    BY <1>1, <2>1 DEF Followed
<1>3. ASSUME d # 0, wire'[Len(wire) + d] \in B PROVE Followed(A, B)'
  <2>1. \A n \in 1..Len(wire) + d : Len(wire) + d \in n..Len(wire) + d
    BY <1>1
  <2>. QED
    BY <1>1, <1>3, <2>1 DEF Followed
<1>. QED
  BY <1>2, <1>3

(* What had one before it still has, and two of a sort are parted as       *)
(* before; so is a new one, if all that there was has one after it.        *)
LEMMA PrecededAfterGrowth ==
  ASSUME NEW d \in Nat, Grows(d), NEW A, NEW B
  PROVE  /\ Preceded(A, B) /\ (NoneNew(d, A) \/ Occurs(B)) => Preceded(A, B)'
         /\ Parted(A, B) /\ NoneNew(d, A) => Parted(A, B)'
         /\ Parted(A, B) /\ d = 1 /\ Followed(WireMessage, B) /\ SlotsInv => Parted(A, B)'
<1>1. /\ Len(wire) \in Nat /\ DOMAIN wire = 1..Len(wire) /\ DOMAIN wire' = 1..Len(wire) + d
  BY DEF Grows
<1>2. ASSUME Preceded(A, B), NoneNew(d, A) \/ Occurs(B) PROVE Preceded(A, B)'
  <2>. SUFFICES ASSUME NEW n \in 1..Len(wire) + d, wire'[n] \in A
                PROVE  \E k \in 1..n : wire'[k] \in B
    BY <1>1 DEF Preceded
  <2>1. CASE n \in 1..Len(wire)
    <3>1. wire[n] \in A
      BY <2>1, PlacesStay
    <3>2. PICK k \in 1..n : wire[k] \in B
      BY <1>1, <1>2, <2>1, <3>1 DEF Preceded
    <3>3. k \in 1..Len(wire)
      BY <1>1, <2>1
    <3>. QED
      BY <3>2, <3>3, PlacesStay
  <2>2. CASE n \notin 1..Len(wire)
    <3>1. Occurs(B)
      BY <1>2, <2>2, PlacesStay DEF NoneNew
    <3>2. PICK k \in 1..Len(wire) : wire[k] \in B
      BY <1>1, <3>1 DEF Occurs
    <3>3. k \in 1..n
      BY <1>1, <2>2
    <3>. QED
      BY <3>2, <3>3, PlacesStay
  <2>. QED
    BY <2>1, <2>2
<1>3. ASSUME Parted(A, B),
             NoneNew(d, A) \/ (d = 1 /\ Followed(WireMessage, B) /\ SlotsInv)
      PROVE  Parted(A, B)'
  <2>. SUFFICES ASSUME NEW i \in 1..Len(wire) + d, NEW n \in 1..Len(wire) + d,
                       wire'[i] \in A, wire'[n] \in A, i < n
                PROVE  \E k \in i..n : wire'[k] \in B
    BY <1>1 DEF Parted
  <2>1. CASE n \in 1..Len(wire)
    <3>1. i \in 1..Len(wire)
      BY <1>1, <2>1
    <3>2. wire[i] \in A /\ wire[n] \in A
      BY <2>1, <3>1, PlacesStay
    <3>3. PICK k \in i..n : wire[k] \in B
      BY <1>1, <1>3, <2>1, <3>1, <3>2 DEF Parted
    <3>4. k \in 1..Len(wire)
      BY <1>1, <2>1, <3>1
    <3>. QED
      BY <3>3, <3>4, PlacesStay
  <2>2. CASE n \notin 1..Len(wire)
    <3>1. d = 1 /\ Followed(WireMessage, B) /\ SlotsInv
      BY <1>3, <2>2, PlacesStay DEF NoneNew
    <3>2. n = Len(wire) + 1 /\ i \in 1..Len(wire)
      BY <1>1, <2>2, <3>1
    <3>3. wire[i] \in WireMessage
      BY <1>1, <3>1, <3>2, ElementOfSeq DEF SlotsInv, WireTypeOK
    <3>4. PICK k \in i..Len(wire) : wire[k] \in B
      BY <1>1, <3>1, <3>2, <3>3 DEF Followed
    <3>5. k \in 1..Len(wire) /\ k \in i..n
      BY <1>1, <3>2
    <3>. QED
      BY <3>4, <3>5, PlacesStay
  <2>. QED
    BY <2>1, <2>2
<1>. QED
  BY <1>2, <1>3

(* The last of a sort stays the last, if none of the other are new; one    *)
(* that is new is the last if none come after it.                          *)
LEMMA LastsAfterGrowth ==
  ASSUME NEW d \in Nat, Grows(d), NEW A, NEW B
  PROVE  /\ Lasts(A, B) /\ NoneNew(d, B) => Lasts(A, B)'
         /\ \A n \in Len(wire) + 1..Len(wire) + d :
              wire'[n] \in A /\ (\A k \in n + 1..Len(wire) + d : wire'[k] \notin B) =>
                Lasts(A, B)'
<1>1. /\ Len(wire) \in Nat /\ DOMAIN wire = 1..Len(wire)
      /\ Len(wire') = Len(wire) + d /\ DOMAIN wire' = 1..Len(wire) + d
  BY DEF Grows
<1>2. ASSUME Lasts(A, B), NoneNew(d, B) PROVE Lasts(A, B)'
  <2>1. PICK n \in 1..Len(wire) : wire[n] \in A /\ \A k \in n + 1..Len(wire) : wire[k] \notin B
    BY <1>1, <1>2 DEF Lasts
  <2>2. ASSUME NEW k \in n + 1..Len(wire) + d PROVE wire'[k] \notin B
    <3>1. k \in 1..Len(wire) + d /\ (k \in 1..Len(wire) => k \in n + 1..Len(wire))
      BY <1>1
    <3>. QED
      BY <1>2, <2>1, <3>1, PlacesStay DEF NoneNew
  <2>3. n \in 1..Len(wire) + d /\ wire'[n] \in A
    BY <2>1, PlacesStay
  <2>. QED
    BY <1>1, <2>2, <2>3 DEF Lasts
<1>3. \A n \in Len(wire) + 1..Len(wire) + d : n \in 1..Len(wire) + d
  BY <1>1
<1>. QED
  BY <1>1, <1>2, <1>3 DEF Lasts

(* The message that is handled, and those that are sent.                   *)
LEMMA ArrivalShifts ==
  ASSUME SlotsInv, NEW kind, Arrives(kind)
  PROVE  /\ Shifts /\ wire[1] \in WireMessage /\ wire[1].kind = kind
         /\ \A k : wire[1] \in Sort(k) <=> k = kind
         /\ Head(wire) = wire[1] /\ wire[1].modem \in Modem /\ Typed(wire[1])
<1>1. Shifts
  BY MessageArrives DEF Shifts
<1>2. /\ wire[1] \in WireMessage /\ wire[1].kind = kind /\ Head(wire) = wire[1]
      /\ wire[1].modem \in Modem /\ Typed(wire[1])
  BY MessageArrives
<1>. QED
  BY <1>1, <1>2 DEF Sort

(* A message that is sent is the only one that is new.                     *)
LEMMA OneIsNew ==
  ASSUME SlotsInv, NEW m, IsSent(m), wire' = Append(wire, m)
  PROVE  /\ Grows(1) /\ wire'[Len(wire) + 1] = m
         /\ \A B : m \notin B => NoneNew(1, B)
<1>1. Grows(1) /\ wire'[Len(wire) + 1] = m
  BY MessageIsSent DEF IsSent, Grows
<1>2. \A n \in Len(wire) + 1..Len(wire) + 1 : n = Len(wire) + 1
  BY <1>1 DEF Grows
<1>. QED
  BY <1>1, <1>2 DEF NoneNew

(* Two messages that are sent are the only ones that are new.              *)
LEMMA TwoAreNew ==
  ASSUME SlotsInv, NEW m, IsSent(m), NEW k, IsSent(k), wire' = wire \o <<m, k>>
  PROVE  /\ Grows(2) /\ wire'[Len(wire) + 1] = m /\ wire'[Len(wire) + 2] = k
         /\ \A B : m \notin B /\ k \notin B => NoneNew(2, B)
<1>1. Grows(2) /\ wire'[Len(wire) + 1] = m /\ wire'[Len(wire) + 2] = k
  BY TwoAreSent DEF IsSent, Grows
<1>2. \A n \in Len(wire) + 1..Len(wire) + 2 : n = Len(wire) + 1 \/ n = Len(wire) + 2
  BY <1>1 DEF Grows
<1>. QED
  BY <1>1, <1>2 DEF NoneNew

-----------------------------------------------------------------------------
(* ofono and the manager by turns.                                         *)

(* The manager is there from the message that ofono has come to the one    *)
(* that it has gone.                                                       *)
LEMMA TurnsAfterArrival ==
  ASSUME SlotsInv, Turns, NEW kind, Arrives(kind), ofono' = ofono,
         kind = "appeared" => manager', kind = "vanished" => ~manager',
         kind \notin {"appeared", "vanished"} => manager' = manager
  PROVE  Turns'
<1>1. /\ Shifts /\ wire[1] \in WireMessage
      /\ wire[1] \in Coming <=> kind = "appeared"
      /\ wire[1] \in Going <=> kind = "vanished"
  BY ArrivalShifts DEF Coming, Going
<1>2. Parted(Coming, Going)'
  BY <1>1, PrecededAfterShift DEF Turns
<1>3. ASSUME manager' PROVE Preceded(Coming, Going)'
  <2>1. CASE kind = "appeared"
    <3>1. Parted(Coming, Going) /\ wire[1] \in Coming /\ wire[1] \notin Going
      BY <1>1, <2>1 DEF Turns
    <3>. QED
      BY <1>1, <3>1, PrecededAfterShift
  <2>2. CASE kind # "appeared"
    <3>1. Preceded(Coming, Going) /\ wire[1] \notin Going
      BY <1>1, <1>3, <2>2 DEF Turns
    <3>. QED
      BY <1>1, <3>1, PrecededAfterShift
  <2>. QED
    BY <2>1, <2>2
<1>4. ofono' => Followed(Going, Coming)'
  BY <1>1, FollowedAfterShift DEF Turns
<1>5. ~ofono' => Followed(WireMessage, Going)'
  BY <1>1, FollowedAfterShift DEF Turns
<1>6. ASSUME ~ofono', manager' PROVE Occurs(Going)'
  <2>1. Followed(WireMessage, Going) /\ wire[1] \notin Going
    BY <1>1, <1>6 DEF Turns
  <2>. QED
    BY <1>1, <2>1, FollowedAfterShift
<1>7. ASSUME ofono', ~Occurs(Coming)' PROVE manager'
  <2>1. Followed(Going, Coming)
    BY <1>7 DEF Turns
  <2>2. wire[1] \notin Going
    BY <1>1, <1>7, <2>1, FollowedAfterShift
  <2>3. CASE kind # "appeared"
    <3>1. ~Occurs(Coming)
      BY <1>1, <1>7, <2>3, OccursAfterShift
    <3>. QED
      BY <1>1, <1>7, <2>2, <2>3, <3>1 DEF Turns
  <2>. QED
    BY <2>3
<1>. QED
  BY <1>2, <1>3, <1>4, <1>5, <1>6, <1>7 DEF Turns

(* Other news change nothing of it ...                                     *)
LEMMA TurnsAfterNews ==
  ASSUME Turns, NEW d \in Nat, Grows(d), NoneNew(d, Coming), NoneNew(d, Going),
         ofono, ofono', manager' = manager
  PROVE  Turns'
<1>1. Parted(Coming, Going)' /\ (manager' => Preceded(Coming, Going)')
  BY PrecededAfterGrowth DEF Turns
<1>2. Followed(Going, Coming)'
  BY FollowedAfterGrowth DEF Turns
<1>3. ~Occurs(Coming)' => manager'
  BY OccursAfterGrowth DEF Turns
<1>. QED
  BY <1>1, <1>2, <1>3 DEF Turns

(* ... and ofono comes when the last that was said is that it had gone.    *)
LEMMA TurnsAfterStart ==
  ASSUME SlotsInv, Turns, OfonoStarts
  PROVE  Turns' /\ ~Session'
<1>. DEFINE m == Message("appeared", 0, 0, FALSE)
<1>1. /\ ~ofono /\ ofono' /\ manager' = manager /\ wire' = Append(wire, m)
  BY DEF OfonoStarts, daemon
<1>2. IsSent(m) /\ m \in Coming /\ m \notin Going
  BY FirstModem, MessageType DEF Kind, IsSent, Coming, Going, Sort, Message
<1>. HIDE DEF m
<1>3. Grows(1) /\ wire'[Len(wire) + 1] = m /\ NoneNew(1, Going)
  BY <1>1, <1>2, OneIsNew
<1>4. Parted(Coming, Going)'
  BY <1>1, <1>3, PrecededAfterGrowth DEF Turns
<1>5. manager' => Preceded(Coming, Going)'
  BY <1>1, <1>3, PrecededAfterGrowth DEF Turns
<1>6. Followed(Going, Coming)'
  BY <1>2, <1>3, FollowedAfterGrowth
<1>7. Occurs(Coming)'
  <2>1. Len(wire) + 1 \in DOMAIN wire'
    BY <1>3 DEF Grows
  <2>. QED
    BY <1>2, <1>3, <2>1 DEF Occurs
<1>. QED
  BY <1>1, <1>4, <1>5, <1>6, <1>7 DEF Turns, Session

(* When ofono dies, that it vanished is the last message on its way.       *)
LEMMA TurnsAfterDeath ==
  ASSUME SlotsInv, Turns, OfonoDies
  PROVE  Turns' /\ ~Session' /\ ~ofono' /\ Followed(WireMessage, Going)'
<1>. DEFINE m == Message("vanished", 0, 0, FALSE)
<1>1. ofono /\ ~ofono' /\ manager' = manager /\ wire' = Append(wire, m)
  BY DEF OfonoDies, daemon
<1>2. IsSent(m) /\ m \in Going /\ m \notin Coming
  BY FirstModem, MessageType DEF Kind, IsSent, Coming, Going, Sort, Message
<1>. HIDE DEF m
<1>3. Grows(1) /\ wire'[Len(wire) + 1] = m /\ NoneNew(1, Coming)
  BY <1>1, <1>2, OneIsNew
<1>4. Parted(Coming, Going)' /\ (manager' => Preceded(Coming, Going)')
  BY <1>1, <1>3, PrecededAfterGrowth DEF Turns
<1>5. Followed(WireMessage, Going)'
  BY <1>2, <1>3, FollowedAfterGrowth
<1>6. Occurs(Going)'
  <2>1. Len(wire) + 1 \in DOMAIN wire'
    BY <1>3 DEF Grows
  <2>. QED
    BY <1>2, <1>3, <2>1 DEF Occurs
<1>. QED
  BY <1>1, <1>4, <1>5, <1>6 DEF Turns, Session

-----------------------------------------------------------------------------
(* What the daemon has of one modem, and what it has yet to hear.          *)

(* A modem that is not there still goes from the list.                     *)
LEMMA LeavesAfterArrival ==
  ASSUME Shifts, NEW p, Leaves(p), obj'[p].there => obj[p].there \/ wire[1] \in Adding(p),
         wire[1] \in Ending(p) => ~obj'[p].there
  PROVE  Leaves(p)'
<1>1. /\ Followed(Adding(p), Ending(p))'
      /\ wire[1] \in Adding(p) => wire[1] \in Ending(p) \/ Occurs(Ending(p))'
  BY FollowedAfterShift DEF Leaves
<1>2. Occurs(Ending(p)) => wire[1] \in Ending(p) \/ Occurs(Ending(p))'
  BY OccursAfterShift
<1>. QED
  BY <1>1, <1>2 DEF Leaves

(* A modem that will go from the list still will after messages that do    *)
(* not add it.                                                             *)
LEMMA LeavesAfterNews ==
  ASSUME NEW d \in Nat, Grows(d), NEW p, Leaves(p), NoneNew(d, Adding(p)), obj' = obj
  PROVE  Leaves(p)'
<1>1. Followed(Adding(p), Ending(p))' /\ (Occurs(Ending(p)) => Occurs(Ending(p))')
  BY FollowedAfterGrowth, OccursAfterGrowth DEF Leaves
<1>. QED
  BY <1>1 DEF Leaves

(* One that is there still comes on the list, and stays.                   *)
LEMMA NoticedAfterArrival ==
  ASSUME Shifts, NEW p, Noticed(p), IsAsked(GetModems) => IsAsked(GetModems)',
         wire[1] \in Adding(p) => obj'[p].there,
         obj[p].there /\ wire[1] \notin Removing(p) => obj'[p].there
  PROVE  Noticed(p)'
<1>1. Lasts(Adding(p), Removing(p)) =>
        Lasts(Adding(p), Removing(p))' \/ (wire[1] \in Adding(p) /\ ~Occurs(Removing(p))')
  BY LastsAfterShift
<1>2. ~Occurs(Removing(p)) => ~Occurs(Removing(p))' /\ wire[1] \notin Removing(p)
  BY OccursAfterShift
<1>. QED
  BY <1>1, <1>2 DEF Noticed

(* A modem that is or will be on the list still is after messages that do  *)
(* not remove it, unless the answer to GetModems is lost.                  *)
LEMMA NoticedAfterNews ==
  ASSUME NEW d \in Nat, Grows(d), NEW p, Noticed(p), NoneNew(d, Removing(p)), obj' = obj,
         IsAsked(GetModems) => IsAsked(GetModems)' \/ Lasts(Adding(p), Removing(p))'
  PROVE  Noticed(p)'
<1>1. Lasts(Adding(p), Removing(p)) => Lasts(Adding(p), Removing(p))'
  BY LastsAfterGrowth
<1>2. ~Occurs(Removing(p)) => ~Occurs(Removing(p))'
  BY OccursAfterGrowth
<1>. QED
  BY <1>1, <1>2 DEF Noticed

(* Its object still knows a property, or will.                             *)
LEMMA ToldAfterArrival ==
  ASSUME Shifts, NEW p, NEW g, NEW kind, NEW known, NEW v, Told(p, g, kind, known, v), NEW next,
         wire[1] \in Telling(p, g, kind) => next = wire[1].value,
         wire[1] \notin Telling(p, g, kind) => next = known,
         IsAsked(GetProperties(p, g)) => IsAsked(GetProperties(p, g))'
  PROVE  Told(p, g, kind, next, v)'
<1>. DEFINE says == Saying(p, g, kind, v) tells == Telling(p, g, kind)
<1>1. Lasts(says, tells) => Lasts(says, tells)' \/ (wire[1] \in says /\ ~Occurs(tells)')
  BY LastsAfterShift
<1>2. ~Occurs(tells) => ~Occurs(tells)' /\ wire[1] \notin tells
  BY OccursAfterShift
<1>3. wire[1] \in says => wire[1] \in tells /\ wire[1].value = v
  BY DEF Saying
<1>. QED
  BY <1>1, <1>2, <1>3 DEF Told

(* A property that an object knows or will be told still is after messages *)
(* that do not tell it, or that tell it last.                              *)
LEMMA ToldAfterNews ==
  ASSUME NEW d \in Nat, Grows(d),
         NEW p, NEW g, NEW kind, NEW known, NEW v, Told(p, g, kind, known, v),
         \/ Lasts(Saying(p, g, kind, v), Telling(p, g, kind))'
         \/ /\ NoneNew(d, Telling(p, g, kind))
            /\ IsAsked(GetProperties(p, g)) => IsAsked(GetProperties(p, g))'
  PROVE  Told(p, g, kind, known, v)'
<1>. DEFINE says == Saying(p, g, kind, v) tells == Telling(p, g, kind)
<1>1. Lasts(says, tells) /\ NoneNew(d, tells) => Lasts(says, tells)'
  BY LastsAfterGrowth
<1>2. ~Occurs(tells) /\ NoneNew(d, tells) => ~Occurs(tells)'
  BY OccursAfterGrowth
<1>. QED
  BY <1>1, <1>2 DEF Told

(* What an object is told, by what the object and the modem are.           *)
LEMMA KnownIsTold ==
  ASSUME NEW p, Known(p), obj[p].there, ~Occurs(Removing(p)),
         NEW g, NEW a, NEW b, NEW v,
         g = obj[p].gen, a = obj[p].powered, b = obj[p].interfaces, v = (modem[p] = "on")
  PROVE  Told(p, g, "Powered", a, v) /\ Told(p, g, "Interfaces", b, v)
BY DEF Known

(* What an object is told of both its properties, by the names they have   *)
(* after the step, is what it knows.                                       *)
LEMMA ToldIsKnown ==
  ASSUME NEW p, NEW g, NEW a, NEW b, NEW v,
         g = obj'[p].gen, a = obj'[p].powered, b = obj'[p].interfaces, v = (modem'[p] = "on"),
         obj'[p].there /\ ~Occurs(Removing(p))' =>
           Told(p, g, "Powered", a, v)' /\ Told(p, g, "Interfaces", b, v)'
  PROVE  Known(p)'
BY DEF Known, Told, IsAsked, Lasts, Occurs

-----------------------------------------------------------------------------
(* The news at every step of the daemon.                                   *)

(* What the first message is.                                              *)
LEMMA HeadSorts ==
  ASSUME wire[1] \in WireMessage
  PROVE  /\ \A p : wire[1] \in Adding(p) <=>
              \/ wire[1].kind = "ModemAdded" /\ wire[1].modem = p
              \/ wire[1].kind = "Modems" /\ p \in wire[1].value
         /\ \A p : wire[1] \in Removing(p) <=> wire[1].kind = "ModemRemoved" /\ wire[1].modem = p
         /\ \A p : wire[1] \in Ending(p) <=> wire[1] \in Removing(p) \/ wire[1].kind = "vanished"
         /\ \A p, g, kind : wire[1] \in Telling(p, g, kind) <=>
              /\ wire[1].modem = p
              /\ wire[1].kind = kind \/ (wire[1].kind = "Properties" /\ wire[1].gen = g)
BY DEF Adding, Removing, Ending, Going, Telling, Sort

(* A session does not begin but with the message that ofono has come.      *)
LEMMA SessionGoesOn ==
  ASSUME SlotsInv, Turns, NEW kind, Arrives(kind), kind # "appeared", ofono' = ofono, Session'
  PROVE  Session /\ kind # "vanished" /\ manager
<1>1. /\ Shifts
      /\ wire[1] \in Coming <=> kind = "appeared"
      /\ wire[1] \in Going <=> kind = "vanished"
  BY ArrivalShifts DEF Coming, Going
<1>2. ofono /\ ~Occurs(Coming)'
  BY DEF Session
<1>3. ~Occurs(Coming)
  BY <1>1, <1>2, OccursAfterShift
<1>4. wire[1] \notin Going
  <2>1. Followed(Going, Coming)
    BY <1>2 DEF Turns
  <2>. QED
    BY <1>1, <1>2, <2>1, FollowedAfterShift
<1>. QED
  BY <1>1, <1>2, <1>3, <1>4 DEF Session, Turns

(* What the first message does to a modem's object: it is made or it goes, *)
(* it takes over what it is told of a property and nothing else.           *)
Hears(p) ==
  /\ obj'[p].there => obj[p].there \/ wire[1] \in Adding(p)
  /\ wire[1] \in Removing(p) => ~obj'[p].there
  /\ manager /\ (wire[1] \in Adding(p) \/ (obj[p].there /\ wire[1] \notin Removing(p))) =>
       obj'[p].there
  /\ ofono /\ obj'[p].there /\ ~obj[p].there =>
       \A r : r = GetProperties(p, obj'[p].gen) => IsAsked(r)'
  /\ obj'[p].there /\ ~obj[p].there => ~obj'[p].powered /\ ~obj'[p].interfaces
  /\ obj[p].there /\ obj'[p].there =>
       /\ obj'[p].gen = obj[p].gen
       /\ wire[1] \in Telling(p, obj[p].gen, "Powered") => obj'[p].powered = wire[1].value
       /\ wire[1] \notin Telling(p, obj[p].gen, "Powered") => obj'[p].powered = obj[p].powered
       /\ wire[1] \in Telling(p, obj[p].gen, "Interfaces") =>
            obj'[p].interfaces = wire[1].value
       /\ wire[1] \notin Telling(p, obj[p].gen, "Interfaces") =>
            obj'[p].interfaces = obj[p].interfaces

(* An object knows its properties, or will, after the first message on its *)
(* way has come.                                                           *)
LEMMA KnownAfterArrival ==
  ASSUME Shifts, ofono, NEW p, Known(p), Hears(p), modem' = modem, wire[1] \notin Ending(p),
         \A r : IsAsked(r) => IsAsked(r)'
  PROVE  Known(p)'
<1>1. PICK g : g = obj'[p].gen
  OBVIOUS
<1>2. PICK a : a = obj'[p].powered
  OBVIOUS
<1>3. PICK b : b = obj'[p].interfaces
  OBVIOUS
<1>4. PICK v : v = (modem'[p] = "on")
  OBVIOUS
<1>5. ASSUME obj'[p].there, ~Occurs(Removing(p))'
      PROVE  Told(p, g, "Powered", a, v)' /\ Told(p, g, "Interfaces", b, v)'
  <2>1. CASE ~obj[p].there
    <3>1. \A r : r = GetProperties(p, g) => IsAsked(r)'
      BY <1>1, <1>5, <2>1 DEF Hears
    <3>2. IsAsked(GetProperties(p, g))'
      BY <3>1 DEF GetProperties
    <3>. QED
      BY <3>2 DEF Told
  <2>2. CASE obj[p].there
    <3>1. ~Occurs(Removing(p))
      <4>1. wire[1] \notin Removing(p)
        BY DEF Ending
      <4>. QED
        BY <1>5, <4>1, OccursAfterShift
    <3>2. PICK c : c = obj[p].powered
      OBVIOUS
    <3>3. PICK e : e = obj[p].interfaces
      OBVIOUS
    <3>4. /\ g = obj[p].gen
          /\ wire[1] \in Telling(p, g, "Powered") => a = wire[1].value
          /\ wire[1] \notin Telling(p, g, "Powered") => a = c
          /\ wire[1] \in Telling(p, g, "Interfaces") => b = wire[1].value
          /\ wire[1] \notin Telling(p, g, "Interfaces") => b = e
      BY <1>1, <1>2, <1>3, <1>5, <2>2, <3>2, <3>3 DEF Hears
    <3>5. v = (modem[p] = "on")
      BY <1>4
    <3>6. Told(p, g, "Powered", c, v) /\ Told(p, g, "Interfaces", e, v)
      BY <2>2, <3>1, <3>2, <3>3, <3>4, <3>5, KnownIsTold
    <3>7. IsAsked(GetProperties(p, g)) => IsAsked(GetProperties(p, g))'
      BY DEF GetProperties
    <3>8. Told(p, g, "Powered", a, v)'
      BY <3>4, <3>6, <3>7, ToldAfterArrival
    <3>9. Told(p, g, "Interfaces", b, v)'
      BY <3>4, <3>6, <3>7, ToldAfterArrival
    <3>. QED
      BY <3>8, <3>9
  <2>. QED
    BY <2>1, <2>2
<1>. QED
  BY <1>1, <1>2, <1>3, <1>4, <1>5, ToldIsKnown

(* A message that every object hears leaves nothing out.                   *)
LEMMA NewsAfterArrival ==
  ASSUME SlotsInv, NewsInv, NEW kind, Arrives(kind), kind \notin {"appeared", "vanished"},
         UNCHANGED <<manager, ofono, modem>>, \A p \in Modem : Hears(p),
         \A r : IsAsked(r) => IsAsked(r)'
  PROVE  NewsInv'
<1>1. /\ Shifts /\ wire[1] \in WireMessage /\ wire[1].kind = kind
  BY ArrivalShifts
<1>2. Turns'
  BY TurnsAfterArrival DEF NewsInv
<1>3. \A p : wire[1] \in Ending(p) <=> wire[1] \in Removing(p)
  BY <1>1, HeadSorts
<1>4. Present' = Present
  BY DEF Present
<1>5. NoneKept'
  <2>. SUFFICES ASSUME NEW p \in Modem \ Present PROVE Leaves(p)'
    BY <1>4 DEF NoneKept
  <2>1. Leaves(p) /\ Hears(p)
    BY DEF NewsInv, NoneKept
  <2>2. /\ obj'[p].there => obj[p].there \/ wire[1] \in Adding(p)
        /\ wire[1] \in Ending(p) => ~obj'[p].there
    BY <1>3, <2>1 DEF Hears
  <2>. QED
    BY <1>1, <2>1, <2>2, LeavesAfterArrival
<1>6. ASSUME Session' PROVE Session /\ manager /\ ofono
  BY <1>6, SessionGoesOn DEF NewsInv, Session
<1>7. NoneMissed'
  <2>. SUFFICES ASSUME Session', NEW p \in Present PROVE Noticed(p)'
    BY <1>4 DEF NoneMissed
  <2>1. Noticed(p) /\ Hears(p) /\ manager
    BY <1>6 DEF NewsInv, NoneMissed, Present
  <2>2. /\ wire[1] \in Adding(p) => obj'[p].there
        /\ obj[p].there /\ wire[1] \notin Removing(p) => obj'[p].there
    BY <2>1 DEF Hears
  <2>3. IsAsked(GetModems) => IsAsked(GetModems)'
    BY DEF GetModems
  <2>. QED
    BY <1>1, <2>1, <2>2, <2>3, NoticedAfterArrival
<1>8. NothingUntold'
  <2>. SUFFICES ASSUME Session', NEW p \in Present PROVE Known(p)'
    BY <1>4 DEF NothingUntold
  <2>1. Known(p) /\ Hears(p) /\ ofono
    BY <1>6 DEF NewsInv, NothingUntold, Present
  <2>2. CASE wire[1] \in Ending(p)
    BY <1>3, <2>1, <2>2 DEF Hears, Known
  <2>3. CASE wire[1] \notin Ending(p)
    BY <1>1, <2>1, <2>3, KnownAfterArrival
  <2>. QED
    BY <2>2, <2>3
<1>. QED
  BY <1>2, <1>5, <1>7, <1>8 DEF NewsInv

(* The objects made for a list hear.                                       *)
LEMMA ListHears ==
  ASSUME SlotsInv, NEW list, NEW objects, Fits(list, objects), modems_changed_cb(list, objects),
         NEW p \in Modem, wire[1] \in WireMessage,
         wire[1].kind \in {"ModemAdded", "ModemRemoved", "Modems"},
         ListedIn(list, p) <=> (IsListed(p) \/ wire[1] \in Adding(p)) /\ wire[1] \notin Removing(p),
         ofono /\ objects[p].there /\ ~obj[p].there =>
           \A r : r = GetProperties(p, objects[p].gen) => IsAsked(r)'
  PROVE  Hears(p)
<1>1. ObjectKept(list, objects, p)
  BY ListChanges, Zenon
<1>2. /\ objects[p].there <=> ListedIn(list, p)
      /\ objects[p].there /\ obj[p].there => objects[p] = obj[p]
      /\ objects[p].there /\ ~obj[p].there => ~objects[p].powered /\ ~objects[p].interfaces
      /\ obj[p].there <=> IsListed(p)
  BY DEF Fits, SlotsInv, SlotsMatch
<1>3. \A g : wire[1] \notin Telling(p, g, "Powered") /\ wire[1] \notin Telling(p, g, "Interfaces")
  BY HeadSorts
<1>4. ~(wire[1] \in Adding(p) /\ wire[1] \in Removing(p))
  BY HeadSorts
<1>5. obj[p].there /\ obj'[p].there =>
        /\ obj'[p].gen = obj[p].gen /\ obj'[p].powered = obj[p].powered
        /\ obj'[p].interfaces = obj[p].interfaces
  BY <1>1, <1>2 DEF ObjectKept
<1>6. /\ obj'[p].there <=> (IsListed(p) \/ wire[1] \in Adding(p)) /\ wire[1] \notin Removing(p)
      /\ obj'[p].gen = objects[p].gen
  BY <1>1, <1>2 DEF ObjectKept
<1>. QED
  BY <1>1, <1>2, <1>3, <1>4, <1>5, <1>6 DEF Hears, ObjectKept

(* A modem has been added.                                                 *)
LEMMA NewsAfterAdded ==
  ASSUME SlotsInv, NewsInv, modem_added_cb
  PROVE  NewsInv' /\ \A q \in Modem : Hears(q)
<1>. DEFINE p == wire[1].modem
            objects == [obj EXCEPT ![p] = NewObject(gen)]
            list == insert_sorted(modems, {p})
<1>1. UNCHANGED <<manager, ofono, modem>> /\ Arrives("ModemAdded")
  BY DEF modem_added_cb, world
<1>2. /\ p \in Modem /\ Head(wire) = wire[1] /\ wire[1] \in WireMessage
      /\ wire[1].kind = "ModemAdded"
  BY <1>1, ArrivalShifts
<1>3. /\ \A q : wire[1] \in Adding(q) <=> q = p
      /\ \A q : wire[1] \notin Removing(q)
      /\ \A q, g, kind : kind \in {"Powered", "Interfaces"} => wire[1] \notin Telling(q, g, kind)
  BY <1>2, HeadSorts
<1>4. CASE ~manager \/ p \in ToSet(modems)
  <2>1. UNCHANGED <<obj, reqs>>
    BY <1>2, <1>4 DEF modem_added_cb
  <2>2. manager => obj[p].there
    <3>1. p \in ToSet(modems) => IsListed(p)
      BY DEF ToSet, IsListed, ListedIn
    <3>. QED
      BY <1>2, <1>4, <3>1 DEF SlotsInv, SlotsMatch
  <2>3. \A q \in Modem : Hears(q)
    BY <1>3, <2>1, <2>2 DEF Hears
  <2>4. \A r : IsAsked(r) => IsAsked(r)'
    BY <2>1 DEF IsAsked
  <2>. QED
    BY <1>1, <2>3, <2>4, NewsAfterArrival
<1>5. CASE ~(~manager \/ p \in ToSet(modems))
  <2>1. reqs' = Ask(<<p>>) /\ modems_changed_cb(list, objects)
    BY <1>2, <1>5 DEF modem_added_cb
  <2>2. ~IsListed(p)
    BY <1>5 DEF ToSet, IsListed, ListedIn
  <2>3. Fits(list, objects) /\ \A q \in Modem : ListedIn(list, q) <=> IsListed(q) \/ q = p
    BY <1>2, <2>2, AddedFits
  <2>4. <<p>> \in [1..1 -> Modem] /\ 1 \in Nat /\ 1 \in 1..1 /\ gen \in Nat
    BY <1>2 DEF SlotsInv, WireTypeOK
  <2>5. /\ \A r : IsAsked(r) => IsAsked(r)'
        /\ ofono => \A r : r = GetProperties(p, gen) => IsAsked(r)'
    <3>. DEFINE one == <<p>>
    <3>1. one[1] = p /\ gen + 1 - 1 = gen /\ one \in [1..1 -> Modem] /\ reqs' = Ask(one)
      BY <2>1, <2>4
    <3>. HIDE DEF one, p
    <3>2. /\ \A r : IsAsked(r) => IsAsked(r)'
          /\ ofono => \A k \in 1..1 : \A r :
               r = GetProperties(one[k], gen + k - 1) => IsAsked(r)'
      BY <2>4, <3>1, PropertiesAreAsked
    <3>. QED
      BY <2>4, <3>1, <3>2
  <2>6. /\ objects[p].gen = gen
        /\ \A q \in Modem : q # p => objects[q] = obj[q]
    BY <1>2, <2>4, NewObjectType DEF SlotsInv, SlotsTypeOK
  <2>7. ASSUME NEW q \in Modem PROVE Hears(q)
    <3>1. ListedIn(list, q) <=>
            (IsListed(q) \/ wire[1] \in Adding(q)) /\ wire[1] \notin Removing(q)
      BY <1>3, <2>3
    <3>2. ofono /\ objects[q].there /\ ~obj[q].there =>
            \A r : r = GetProperties(q, objects[q].gen) => IsAsked(r)'
      BY <2>5, <2>6
    <3>. HIDE DEF list, objects
    <3>. QED
      BY <1>2, <2>1, <2>3, <3>1, <3>2, ListHears, Zenon
  <2>. QED
    BY <1>1, <2>5, <2>7, NewsAfterArrival
<1>. QED
  BY <1>4, <1>5

(* A modem has been removed.                                               *)
LEMMA NewsAfterRemoved ==
  ASSUME SlotsInv, NewsInv, modem_removed_cb
  PROVE  NewsInv' /\ \A q \in Modem : Hears(q)
<1>. DEFINE p == wire[1].modem
            objects == [obj EXCEPT ![p] = NoObject]
            list == RemoveAt(modems, Position(modems, p))
<1>1. UNCHANGED <<manager, ofono, modem, reqs>> /\ Arrives("ModemRemoved")
  BY DEF modem_removed_cb, world
<1>2. /\ p \in Modem /\ Head(wire) = wire[1] /\ wire[1] \in WireMessage
      /\ wire[1].kind = "ModemRemoved"
  BY <1>1, ArrivalShifts
<1>3. /\ \A q : wire[1] \notin Adding(q)
      /\ \A q : wire[1] \in Removing(q) <=> q = p
      /\ \A q, g, kind : kind \in {"Powered", "Interfaces"} => wire[1] \notin Telling(q, g, kind)
  BY <1>2, HeadSorts
<1>4. \A r : IsAsked(r) => IsAsked(r)'
  BY <1>1 DEF IsAsked
<1>5. CASE ~manager \/ p \notin ToSet(modems)
  <2>1. obj' = obj
    BY <1>2, <1>5 DEF modem_removed_cb
  <2>2. ~obj[p].there
    <3>1. IsListed(p) => p \in ToSet(modems) /\ modems # <<>>
      BY DEF ToSet, IsListed, ListedIn
    <3>. QED
      BY <1>2, <1>5, <3>1 DEF SlotsInv, SlotsMatch
  <2>3. \A q \in Modem : Hears(q)
    BY <1>3, <2>1, <2>2 DEF Hears
  <2>. QED
    BY <1>1, <1>4, <2>3, NewsAfterArrival
<1>6. CASE ~(~manager \/ p \notin ToSet(modems))
  <2>1. modems_changed_cb(list, objects)
    BY <1>2, <1>6 DEF modem_removed_cb
  <2>2. IsListed(p)
    BY <1>6 DEF ToSet, IsListed, ListedIn
  <2>3. Fits(list, objects) /\ \A q \in Modem : ListedIn(list, q) <=> IsListed(q) /\ q # p
    BY <1>2, <2>2, RemovedFits
  <2>4. ASSUME NEW q \in Modem PROVE Hears(q)
    <3>1. ListedIn(list, q) <=>
            (IsListed(q) \/ wire[1] \in Adding(q)) /\ wire[1] \notin Removing(q)
      BY <1>3, <2>3
    <3>2. ~(objects[q].there /\ ~obj[q].there)
      BY <2>3 DEF Fits, SlotsInv, SlotsMatch
    <3>. HIDE DEF list, objects
    <3>. QED
      BY <1>2, <2>1, <2>3, <3>1, <3>2, ListHears, Zenon
  <2>. QED
    BY <1>1, <1>4, <2>4, NewsAfterArrival
<1>. QED
  BY <1>5, <1>6

(* The modems have been listed.                                            *)
LEMMA NewsAfterListed ==
  ASSUME SlotsInv, NewsInv, get_modems_cb
  PROVE  NewsInv' /\ \A q \in Modem : Hears(q)
<1>. DEFINE new == wire[1].value \ ToSet(modems)
            list == insert_sorted(modems, new)
<1>1. UNCHANGED <<manager, ofono, modem>> /\ Arrives("Modems")
  BY DEF get_modems_cb, world
<1>2. /\ new \in SUBSET Modem /\ Head(wire) = wire[1] /\ wire[1] \in WireMessage
      /\ wire[1].kind = "Modems"
  BY <1>1, ArrivalShifts DEF Typed
<1>3. /\ \A q : wire[1] \in Adding(q) <=> q \in wire[1].value
      /\ \A q : wire[1] \notin Removing(q)
      /\ \A q, g, kind : kind \in {"Powered", "Interfaces"} => wire[1] \notin Telling(q, g, kind)
  BY <1>2, HeadSorts
<1>4. CASE ~manager
  <2>1. UNCHANGED <<obj, reqs>>
    BY <1>2, <1>4 DEF get_modems_cb
  <2>2. \A q \in Modem : Hears(q)
    BY <1>3, <1>4, <2>1 DEF Hears
  <2>3. \A r : IsAsked(r) => IsAsked(r)'
    BY <2>1 DEF IsAsked
  <2>. QED
    BY <1>1, <2>2, <2>3, NewsAfterArrival
<1>5. CASE manager
  <2>1. reqs' = Ask(InOrder(new)) /\ modems_changed_cb(list, WithListed(new))
    BY <1>2, <1>5 DEF get_modems_cb, WithListed
  <2>2. /\ \A q \in new : ~IsListed(q)
        /\ \A q : IsListed(q) \/ q \in new <=> IsListed(q) \/ wire[1] \in Adding(q)
    BY <1>3 DEF ToSet, IsListed, ListedIn
  <2>. HIDE DEF new
  <2>3. /\ Fits(list, WithListed(new))
        /\ \A q \in Modem : ListedIn(list, q) <=> IsListed(q) \/ q \in new
        /\ Cardinality(new) \in Nat /\ InOrder(new) \in [1..Cardinality(new) -> Modem]
        /\ \A q \in new : \E k \in 1..Cardinality(new) :
             InOrder(new)[k] = q /\ WithListed(new)[q] = NewObject(gen + k - 1)
    BY <1>2, <2>2, ListedFits
  <2>4. /\ \A r : IsAsked(r) => IsAsked(r)'
        /\ ofono => \A k \in 1..Cardinality(new) : \A r :
             r = GetProperties(InOrder(new)[k], gen + k - 1) => IsAsked(r)'
    BY <2>1, <2>3, PropertiesAreAsked
  <2>5. ASSUME NEW q \in Modem, ofono, WithListed(new)[q].there, ~obj[q].there
        PROVE  \A r : r = GetProperties(q, WithListed(new)[q].gen) => IsAsked(r)'
    <3>1. q \in new
      BY <2>3, <2>5 DEF Fits, SlotsInv, SlotsMatch
    <3>2. PICK k \in 1..Cardinality(new) :
             InOrder(new)[k] = q /\ WithListed(new)[q] = NewObject(gen + k - 1)
      BY <2>3, <3>1
    <3>3. gen + k - 1 \in Nat
      BY <2>3 DEF SlotsInv, WireTypeOK
    <3>4. WithListed(new)[q].gen = gen + k - 1
      BY <3>2, <3>3, NewObjectType
    <3>. QED
      BY <2>4, <2>5, <3>2, <3>4
  <2>6. ASSUME NEW q \in Modem PROVE Hears(q)
    <3>1. ListedIn(list, q) <=>
            (IsListed(q) \/ wire[1] \in Adding(q)) /\ wire[1] \notin Removing(q)
      BY <1>3, <2>2, <2>3
    <3>. HIDE DEF list
    <3>. QED
      BY <1>2, <2>1, <2>3, <2>5, <3>1, ListHears, Zenon
  <2>. QED
    BY <1>1, <2>4, <2>6, NewsAfterArrival
<1>. QED
  BY <1>4, <1>5

(* A property has been told.                                               *)
LEMMA PropertyIsHeard ==
  ASSUME SlotsInv, NEW p \in Modem, p = wire[1].modem, NEW o \in Object, obj' = [obj EXCEPT ![p] = o],
         wire[1] \in WireMessage, wire[1].kind \in {"Properties", "Powered", "Interfaces"},
         o.there, o.gen = obj[p].gen, obj[p].there,
         wire[1].kind = "Properties" => wire[1].gen = obj[p].gen,
         wire[1].kind = "Interfaces" => o.powered = obj[p].powered,
         wire[1].kind # "Interfaces" => o.powered = wire[1].value,
         wire[1].kind = "Powered" => o.interfaces = obj[p].interfaces,
         wire[1].kind # "Powered" => o.interfaces = wire[1].value
  PROVE  \A q \in Modem : Hears(q)
<1>. SUFFICES ASSUME NEW q \in Modem PROVE Hears(q)
  OBVIOUS
<1>1. obj'[q] = IF q = p THEN o ELSE obj[q]
  BY DEF SlotsInv, SlotsTypeOK
<1>2. wire[1] \notin Adding(q) /\ wire[1] \notin Removing(q)
  BY HeadSorts
<1>3. \A g, kind : wire[1] \in Telling(q, g, kind) <=>
        /\ p = q
        /\ wire[1].kind = kind \/ (wire[1].kind = "Properties" /\ wire[1].gen = g)
  BY HeadSorts
<1>4. CASE q = p
  BY <1>1, <1>2, <1>3, <1>4 DEF Hears
<1>5. CASE q # p
  BY <1>1, <1>2, <1>3, <1>5 DEF Hears
<1>. QED
  BY <1>4, <1>5

(* A callback for a property loses no news of a modem.                     *)
LEMMA NewsAfterProperty ==
  ASSUME SlotsInv, NewsInv, get_properties_cb \/ powered_changed \/ interfaces_changed
  PROVE  NewsInv'
<1>. DEFINE p == wire[1].modem v == wire[1].value
<1>1. PICK kind \in {"Properties", "Powered", "Interfaces"} : Arrives(kind)
  BY DEF get_properties_cb, powered_changed, interfaces_changed
<1>2. /\ p \in Modem /\ v \in BOOLEAN /\ Head(wire) = wire[1] /\ wire[1] \in WireMessage
      /\ wire[1].kind = kind
  BY <1>1, ArrivalShifts DEF Typed
<1>3. /\ get_properties_cb => kind = "Properties"
      /\ powered_changed => kind = "Powered"
      /\ interfaces_changed => kind = "Interfaces"
  BY <1>2 DEF get_properties_cb, powered_changed, interfaces_changed, Arrives
<1>4. UNCHANGED <<manager, ofono, modem, reqs>>
  BY DEF get_properties_cb, powered_changed, interfaces_changed, world
<1>5. PICK t \in Object : t = obj[p]
  BY <1>2 DEF SlotsInv, SlotsTypeOK, Object
<1>6. ASSUME NEW o \in {[t EXCEPT !.powered = v, !.interfaces = v], [t EXCEPT !.powered = v],
                        [t EXCEPT !.interfaces = v]}
      PROVE  o \in Object /\ o.there = t.there /\ o.gen = t.gen
  BY <1>2, <1>5 DEF Object
<1>7. /\ [t EXCEPT !.powered = v, !.interfaces = v].powered = v
      /\ [t EXCEPT !.powered = v, !.interfaces = v].interfaces = v
      /\ [t EXCEPT !.powered = v].powered = v
      /\ [t EXCEPT !.powered = v].interfaces = t.interfaces
      /\ [t EXCEPT !.interfaces = v].powered = t.powered
      /\ [t EXCEPT !.interfaces = v].interfaces = v
  BY <1>5 DEF Object
<1>8. \A q \in Modem : Hears(q)
  <2>1. CASE get_properties_cb
    <3>1. CASE obj[p].there /\ obj[p].gen = wire[1].gen
      <4>1. PICK o : o = [t EXCEPT !.powered = v, !.interfaces = v]
        OBVIOUS
      <4>2. obj' = [obj EXCEPT ![p] = o]
        BY <1>2, <1>5, <2>1, <3>1, <4>1 DEF get_properties_cb, PropertiesChanged
      <4>3. o \in Object /\ o.there = t.there /\ o.gen = t.gen /\ o.powered = v /\ o.interfaces = v
        BY <1>6, <1>7, <4>1
      <4>. QED
        BY <1>2, <1>3, <1>5, <2>1, <3>1, <4>2, <4>3, PropertyIsHeard
    <3>2. CASE ~(obj[p].there /\ obj[p].gen = wire[1].gen)
      <4>1. obj' = obj
        BY <1>2, <2>1, <3>2 DEF get_properties_cb
      <4>2. \A q : /\ wire[1] \notin Adding(q) /\ wire[1] \notin Removing(q)
                   /\ \A g, k : k \in {"Powered", "Interfaces"} /\ wire[1] \in Telling(q, g, k) =>
                        p = q /\ wire[1].gen = g
        BY <1>2, <1>3, <2>1, HeadSorts
      <4>. QED
        BY <3>2, <4>1, <4>2 DEF Hears
    <3>. QED
      BY <3>1, <3>2
  <2>2. ASSUME powered_changed \/ interfaces_changed, ~obj[p].there
        PROVE  \A q \in Modem : Hears(q)
    <3>1. obj' = obj
      BY <1>2, <2>2 DEF powered_changed, interfaces_changed
    <3>2. \A q : /\ wire[1] \notin Adding(q) /\ wire[1] \notin Removing(q)
                 /\ \A g, k : wire[1] \in Telling(q, g, k) => p = q
      BY <1>2, <1>3, <2>2, HeadSorts
    <3>. QED
      BY <2>2, <3>1, <3>2 DEF Hears
  <2>3. ASSUME powered_changed, obj[p].there PROVE \A q \in Modem : Hears(q)
    <3>1. PICK o : o = [t EXCEPT !.powered = v]
      OBVIOUS
    <3>2. obj' = [obj EXCEPT ![p] = o]
      BY <1>2, <1>5, <2>3, <3>1 DEF powered_changed, PropertiesChanged
    <3>3. /\ o \in Object /\ o.there = t.there /\ o.gen = t.gen /\ o.powered = v
          /\ o.interfaces = t.interfaces
      BY <1>6, <1>7, <3>1
    <3>. QED
      BY <1>2, <1>3, <1>5, <2>3, <3>2, <3>3, PropertyIsHeard
  <2>4. ASSUME interfaces_changed, obj[p].there PROVE \A q \in Modem : Hears(q)
    <3>1. PICK o : o = [t EXCEPT !.interfaces = v]
      OBVIOUS
    <3>2. obj' = [obj EXCEPT ![p] = o]
      BY <1>2, <1>5, <2>4, <3>1 DEF interfaces_changed, PropertiesChanged
    <3>3. /\ o \in Object /\ o.there = t.there /\ o.gen = t.gen /\ o.interfaces = v
          /\ o.powered = t.powered
      BY <1>6, <1>7, <3>1
    <3>. QED
      BY <1>2, <1>3, <1>5, <2>4, <3>2, <3>3, PropertyIsHeard
  <2>. QED
    BY <2>1, <2>2, <2>3, <2>4
<1>9. \A r : IsAsked(r) => IsAsked(r)'
  BY <1>4 DEF IsAsked
<1>. QED
  BY <1>1, <1>4, <1>8, <1>9, NewsAfterArrival

(* ofono has come: if it is the one that is there, the manager asks it for *)
(* its modems.                                                             *)
LEMMA NewsAfterAppeared ==
  ASSUME SlotsInv, NewsInv, service_appeared_cb
  PROVE  NewsInv' /\ (Session' => modems' = <<>>)
<1>1. /\ Arrives("appeared") /\ UNCHANGED <<ofono, modem, obj, modems>> /\ manager'
      /\ ~manager => reqs' = IF ofono THEN Append(reqs, GetModems) ELSE reqs
  BY DEF service_appeared_cb, world
<1>2. /\ Shifts
      /\ wire[1] \in WireMessage /\ wire[1].kind = "appeared" /\ wire[1] \in Coming
      /\ wire[1] \notin Going
  BY <1>1, ArrivalShifts DEF Coming, Going
<1>3. ~manager
  <2>1. manager => Preceded(Coming, Going)
    BY DEF NewsInv, Turns
  <2>. QED
    BY <1>2, <2>1, PrecededAfterShift
<1>4. modems = <<>> /\ \A p \in Modem : ~obj[p].there
  <2>1. modems = <<>>
    BY <1>3 DEF SlotsInv, SlotsMatch
  <2>2. DOMAIN modems = {}
    BY <2>1
  <2>. QED
    BY <2>1, <2>2 DEF SlotsInv, SlotsMatch, IsListed, ListedIn
<1>5. Turns'
  BY <1>1, TurnsAfterArrival DEF NewsInv
<1>6. Present' = Present
  BY <1>1 DEF Present
<1>7. NoneKept'
  <2>. SUFFICES ASSUME NEW p \in Modem \ Present PROVE Leaves(p)'
    BY <1>6 DEF NoneKept
  <2>1. Leaves(p)
    BY DEF NewsInv, NoneKept
  <2>. QED
    BY <1>1, <1>2, <1>4, <2>1, LeavesAfterArrival
<1>8. ASSUME Session' PROVE IsAsked(GetModems)'
  <2>1. reqs' = Append(reqs, GetModems) /\ reqs \in Seq(Request)
    BY <1>1, <1>3, <1>8 DEF Session, SlotsInv, WireTypeOK
  <2>2. GetModems \in Request
    BY FirstModem DEF GetModems, Request
  <2>3. reqs' \in Seq(Request) /\ Len(reqs') = Len(reqs) + 1 /\ reqs'[Len(reqs) + 1] = GetModems
    BY <2>1, <2>2, AppendProperties
  <2>4. Len(reqs) + 1 \in DOMAIN reqs'
    BY <2>1, <2>3, LenProperties
  <2>. QED
    BY <2>3, <2>4 DEF IsAsked, GetModems
<1>9. NoneMissed'
  BY <1>8 DEF NoneMissed, Noticed
<1>10. NothingUntold'
  <2>1. \A p \in Modem : ~obj'[p].there
    BY <1>1, <1>4
  <2>. QED
    BY <2>1 DEF NothingUntold, Known, Present
<1>. QED
  BY <1>1, <1>4, <1>5, <1>7, <1>9, <1>10 DEF NewsInv

(* ofono has gone, and so has all there was.                               *)
LEMMA NewsAfterVanished ==
  ASSUME SlotsInv, NewsInv, service_vanished_cb
  PROVE  NewsInv' /\ ~Session'
<1>1. /\ Arrives("vanished") /\ UNCHANGED <<ofono, modem, reqs>> /\ ~manager'
      /\ obj' = [p \in Modem |-> NoObject]
  BY DEF service_vanished_cb, world
<1>2. Shifts
  BY <1>1, ArrivalShifts
<1>3. Turns'
  BY <1>1, TurnsAfterArrival DEF NewsInv
<1>4. ~Session'
  BY <1>1, SessionGoesOn DEF NewsInv
<1>5. Present' = Present
  BY <1>1 DEF Present
<1>6. \A p \in Modem : ~obj'[p].there
  BY <1>1, FirstModem, NewObjectType
<1>7. NoneKept'
  <2>. SUFFICES ASSUME NEW p \in Modem \ Present PROVE Leaves(p)'
    BY <1>5 DEF NoneKept
  <2>1. Leaves(p)
    BY DEF NewsInv, NoneKept
  <2>. QED
    BY <1>2, <1>6, <2>1, LeavesAfterArrival
<1>. QED
  BY <1>3, <1>4, <1>7 DEF NewsInv, NoneMissed, NothingUntold

-----------------------------------------------------------------------------
(* The news at every step of ofono and of the modems.                      *)

(* A session goes on if ofono does not come anew, and nothing says in it   *)
(* that ofono has gone.                                                    *)
LEMMA SessionIsKept ==
  ASSUME Turns, NEW d \in Nat, Grows(d), ofono' = ofono, Session'
  PROVE  Session /\ ~Occurs(Going)
<1>1. ofono /\ ~Occurs(Coming)
  BY OccursAfterGrowth DEF Session
<1>2. ~Occurs(Going)
  <2>1. ASSUME Occurs(Going) PROVE FALSE
    <3>1. PICK n \in DOMAIN wire : wire[n] \in Going
      BY <2>1 DEF Occurs
    <3>2. PICK k \in n..Len(wire) : wire[k] \in Coming
      BY <1>1, <3>1 DEF Turns, Followed
    <3>3. k \in DOMAIN wire
      BY <3>1, <3>2 DEF Grows
    <3>. QED
      BY <1>1, <3>2, <3>3 DEF Occurs
  <2>. QED
    BY <2>1
<1>. QED
  BY <1>1, <1>2 DEF Session

(* While ofono is away, all there is goes.                                 *)
LEMMA GoneLeaves ==
  ASSUME SlotsInv, Turns, ~ofono, NEW p \in Modem
  PROVE  Leaves(p)
<1>1. Followed(WireMessage, Going) /\ (manager => Occurs(Going))
  BY DEF Turns
<1>2. Going \subseteq Ending(p) /\ Adding(p) \subseteq WireMessage
  BY DEF Ending, Adding
<1>3. Followed(Adding(p), Ending(p))
  BY <1>1, <1>2 DEF Followed
<1>4. obj[p].there => manager
  <2>1. modems = <<>> => DOMAIN modems = {}
    OBVIOUS
  <2>. QED
    BY <2>1 DEF SlotsInv, SlotsMatch, IsListed, ListedIn
<1>5. Occurs(Going) => Occurs(Ending(p))
  BY <1>2 DEF Occurs
<1>. QED
  BY <1>1, <1>3, <1>4, <1>5 DEF Leaves

(* While ofono is gone a modem may change as it likes: there is nothing to *)
(* miss.                                                                   *)
LEMMA NewsWhileGone ==
  ASSUME SlotsInv, NewsInv, ~ofono, UNCHANGED <<wire, ofono, manager, obj>>, Present' \subseteq Modem
  PROVE  NewsInv' /\ ~Session'
<1>1. Turns'
  BY DEF NewsInv, Turns, Parted, Preceded, Followed, Occurs
<1>2. \A p \in Modem : Leaves(p)'
  BY GoneLeaves DEF NewsInv, Leaves, Followed, Occurs
<1>3. NoneKept'
  BY <1>2 DEF NoneKept
<1>. QED
  BY <1>1, <1>3 DEF NewsInv, NoneMissed, NothingUntold, Session

(* What an object is told with some more messages at the end.              *)
LEMMA KnownAfterNews ==
  ASSUME NEW d \in Nat, Grows(d), NEW p, Known(p), obj' = obj,
         \A g, v : g = obj[p].gen /\ v = (modem'[p] = "on") =>
           \A kind \in {"Powered", "Interfaces"} :
             \/ Lasts(Saying(p, g, kind, v), Telling(p, g, kind))'
             \/ /\ modem'[p] = modem[p] /\ NoneNew(d, Telling(p, g, kind))
                /\ IsAsked(GetProperties(p, g)) => IsAsked(GetProperties(p, g))'
  PROVE  Known(p)'
<1>1. PICK g : g = obj[p].gen
  OBVIOUS
<1>2. PICK a : a = obj[p].powered
  OBVIOUS
<1>3. PICK b : b = obj[p].interfaces
  OBVIOUS
<1>4. PICK v : v = (modem'[p] = "on")
  OBVIOUS
<1>5. \A kind \in {"Powered", "Interfaces"} :
        \/ Lasts(Saying(p, g, kind, v), Telling(p, g, kind))'
        \/ /\ modem'[p] = modem[p] /\ NoneNew(d, Telling(p, g, kind))
           /\ IsAsked(GetProperties(p, g)) => IsAsked(GetProperties(p, g))'
  BY <1>1, <1>4
<1>6. ASSUME obj[p].there, ~Occurs(Removing(p))', NEW kind \in {"Powered", "Interfaces"},
             NEW known, Known(p) /\ ~Occurs(Removing(p)) /\ modem'[p] = modem[p] =>
                          Told(p, g, kind, known, v)
      PROVE  Told(p, g, kind, known, v)'
  <2>1. ~Occurs(Removing(p))
    BY <1>6, OccursAfterGrowth
  <2>2. CASE Lasts(Saying(p, g, kind, v), Telling(p, g, kind))'
    BY <2>2 DEF Told
  <2>3. CASE ~Lasts(Saying(p, g, kind, v), Telling(p, g, kind))'
    BY <1>5, <1>6, <2>1, <2>3, ToldAfterNews
  <2>. QED
    BY <2>2, <2>3
<1>7. ASSUME obj[p].there
      PROVE  Known(p) /\ ~Occurs(Removing(p)) /\ modem'[p] = modem[p] =>
               Told(p, g, "Powered", a, v) /\ Told(p, g, "Interfaces", b, v)
  BY <1>1, <1>2, <1>3, <1>4, <1>7, KnownIsTold
<1>8. obj'[p].there /\ ~Occurs(Removing(p))' =>
        Told(p, g, "Powered", a, v)' /\ Told(p, g, "Interfaces", b, v)'
  BY <1>6, <1>7
<1>. QED
  BY <1>1, <1>2, <1>3, <1>4, <1>8, ToldIsKnown

(* The first request has been answered.                                    *)
LEMMA RequestIsAnswered ==
  ASSUME SlotsInv, OfonoReplies
  PROVE  /\ Head(reqs) = reqs[1] /\ reqs[1] \in Request
         /\ \A r : IsAsked(r) => r = reqs[1] \/ IsAsked(r)'
         /\ \A r : IsAsked(r)' => IsAsked(r)
         /\ IsAsked(reqs[1])
<1>1. reqs \in Seq(Request) /\ reqs # <<>> /\ reqs' = Tail(reqs)
  BY DEF OfonoReplies, SlotsInv, WireTypeOK
<1>2. Len(reqs) \in Nat /\ DOMAIN reqs = 1..Len(reqs) /\ Len(reqs) # 0
  BY <1>1, LenProperties, EmptySeq
<1>3. /\ reqs' \in Seq(Request) /\ Len(reqs') = Len(reqs) - 1
      /\ \A n \in 1..Len(reqs') : reqs'[n] = reqs[n + 1]
  BY <1>1, HeadTailProperties
<1>4. DOMAIN reqs' = 1..Len(reqs) - 1
  BY <1>3, LenProperties
<1>5. Head(reqs) = reqs[1] /\ 1 \in DOMAIN reqs
  BY <1>1, <1>2
<1>6. ASSUME NEW r, IsAsked(r), r # reqs[1] PROVE IsAsked(r)'
  <2>1. PICK n \in 1..Len(reqs) : reqs[n] = r
    BY <1>2, <1>6 DEF IsAsked
  <2>2. n - 1 \in 1..Len(reqs) - 1 /\ n - 1 + 1 = n
    BY <1>2, <1>6, <2>1
  <2>. QED
    BY <1>3, <1>4, <2>1, <2>2 DEF IsAsked
<1>7. ASSUME NEW r, IsAsked(r)' PROVE IsAsked(r)
  <2>1. PICK n \in 1..Len(reqs) - 1 : reqs'[n] = r
    BY <1>4, <1>7 DEF IsAsked
  <2>2. n + 1 \in DOMAIN reqs
    BY <1>2
  <2>. QED
    BY <1>3, <2>1, <2>2 DEF IsAsked
<1>8. reqs[1] \in Request
  BY <1>1, <1>5, ElementOfSeq
<1>. QED
  BY <1>5, <1>6, <1>7, <1>8 DEF IsAsked

(* With some more messages at the end that add no modem that is not there, *)
(* and remove none that is, nothing is left out, as long as what is asked  *)
(* is answered.                                                            *)
LEMMA NewsAfterNews ==
  ASSUME SlotsInv, NewsInv, ofono, ofono', UNCHANGED <<manager, obj>>,
         NEW d \in Nat, Grows(d), NoneNew(d, Coming), NoneNew(d, Going), Present' \subseteq Modem,
         \A p \in Modem \ Present' :
           /\ p \in Present => ~NoneNew(d, Ending(p)) /\ Followed(Adding(p), Ending(p))'
           /\ p \notin Present => NoneNew(d, Adding(p)),
         \A p \in Present' :
           /\ p \notin Present => Lasts(Adding(p), Removing(p))'
           /\ p \in Present =>
                /\ NoneNew(d, Removing(p))
                /\ IsAsked(GetModems) => IsAsked(GetModems)' \/ Lasts(Adding(p), Removing(p))'
                /\ Known(p) => Known(p)'
  PROVE  NewsInv'
<1>1. Turns'
  BY TurnsAfterNews DEF NewsInv
<1>2. ASSUME Session' PROVE Session /\ ~Occurs(Going)
  BY <1>2, SessionIsKept DEF NewsInv
<1>3. NoneKept'
  <2>. SUFFICES ASSUME NEW p \in Modem \ Present' PROVE Leaves(p)'
    BY DEF NoneKept
  <2>1. CASE p \in Present
    <3>1. Occurs(Ending(p))' /\ Followed(Adding(p), Ending(p))'
      BY <2>1, OccursAfterGrowth
    <3>. QED
      BY <3>1 DEF Leaves
  <2>2. CASE p \notin Present
    <3>1. Leaves(p) /\ NoneNew(d, Adding(p))
      BY <2>2 DEF NewsInv, NoneKept
    <3>. QED
      BY <3>1, LeavesAfterNews
  <2>. QED
    BY <2>1, <2>2
<1>4. NoneMissed'
  <2>. SUFFICES ASSUME Session', NEW p \in Present' PROVE Noticed(p)'
    BY DEF NoneMissed
  <2>1. CASE p \in Present
    <3>1. Noticed(p)
      BY <1>2, <2>1 DEF NewsInv, NoneMissed
    <3>. QED
      BY <2>1, <3>1, NoticedAfterNews
  <2>2. CASE p \notin Present
    BY <2>2 DEF Noticed
  <2>. QED
    BY <2>1, <2>2
<1>5. NothingUntold'
  <2>. SUFFICES ASSUME Session', NEW p \in Present' PROVE Known(p)'
    BY DEF NothingUntold
  <2>1. CASE p \in Present
    <3>1. Known(p)
      BY <1>2, <2>1 DEF NewsInv, NothingUntold
    <3>. QED
      BY <2>1, <3>1
  <2>2. CASE p \notin Present
    <3>1. Leaves(p)
      BY <2>2 DEF NewsInv, NoneKept
    <3>2. Ending(p) = Removing(p) \cup Going
      BY DEF Ending
    <3>3. Occurs(Ending(p)) => Occurs(Removing(p)) \/ Occurs(Going)
      BY <3>2 DEF Occurs
    <3>4. obj[p].there => Occurs(Removing(p))'
      BY <1>2, <3>1, <3>3, OccursAfterGrowth DEF Leaves
    <3>. QED
      BY <3>4 DEF Known
  <2>. QED
    BY <2>1, <2>2
<1>. QED
  BY <1>1, <1>3, <1>4, <1>5 DEF NewsInv

(* What a new message is.                                                  *)
LEMMA MessageSorts ==
  ASSUME NEW m, IsSent(m)
  PROVE  /\ m \in Coming <=> m.kind = "appeared"
         /\ m \in Going <=> m.kind = "vanished"
         /\ \A p : m \in Adding(p) <=> \/ m.kind = "ModemAdded" /\ m.modem = p
                                       \/ m.kind = "Modems" /\ p \in m.value
         /\ \A p : m \in Removing(p) <=> m.kind = "ModemRemoved" /\ m.modem = p
         /\ \A p, g, kind : m \in Telling(p, g, kind) <=>
              m.modem = p /\ (m.kind = kind \/ (m.kind = "Properties" /\ m.gen = g))
         /\ \A p, g, kind, v : m \in Saying(p, g, kind, v) <=>
              m \in Telling(p, g, kind) /\ m.value = v
BY DEF IsSent, Coming, Going, Adding, Removing, Telling, Saying, Sort

(* ofono answers.                                                          *)
LEMMA NewsAfterReply ==
  ASSUME SlotsInv, NewsInv, OfonoReplies
  PROVE  NewsInv'
<1>. DEFINE r == reqs[1]
<1>1. /\ ofono /\ UNCHANGED <<manager, obj, ofono, modem>>
  BY DEF OfonoReplies, daemon, world
<1>2. /\ Head(reqs) = r /\ r \in Request /\ \A q : IsAsked(q) => q = r \/ IsAsked(q)'
      /\ r.modem \in Modem /\ r.gen \in Nat
  BY RequestIsAnswered DEF Request
<1>3. Present' = Present /\ Present \in SUBSET Modem
  BY <1>1 DEF Present
<1>4. CASE r.kind = "GetModems"
  <2>. DEFINE m == Message("Modems", 0, 0, Present)
  <2>1. wire' = Append(wire, m)
    BY <1>2, <1>4 DEF OfonoReplies
  <2>2. IsSent(m) /\ m.kind = "Modems" /\ m.value = Present
    BY <1>3, MessageType DEF Message
  <2>. HIDE DEF m
  <2>3. /\ m \notin Coming /\ m \notin Going
        /\ \A p : m \in Adding(p) <=> p \in Present
        /\ \A p : m \notin Removing(p)
        /\ \A p, g, kind : kind # "Modems" => m \notin Telling(p, g, kind)
    BY <2>2, MessageSorts
  <2>4. /\ Grows(1) /\ wire'[Len(wire) + 1] = m
        /\ \A B : m \notin B => NoneNew(1, B)
    BY <2>1, <2>2, OneIsNew
  <2>5. ASSUME NEW p \in Present PROVE Lasts(Adding(p), Removing(p))'
    <3>1. /\ Len(wire) + 1 \in Len(wire) + 1..Len(wire) + 1
          /\ Len(wire) + 1 + 1..Len(wire) + 1 = {}
      BY <2>4 DEF Grows
    <3>. QED
      BY <2>3, <2>4, <3>1, LastsAfterGrowth
  <2>6. ASSUME NEW p \in Present, Known(p) PROVE Known(p)'
    <3>1. \A g : IsAsked(GetProperties(p, g)) => IsAsked(GetProperties(p, g))'
      <4>1. ASSUME NEW g, NEW q, q = GetProperties(p, g), IsAsked(q) PROVE IsAsked(q)'
        BY <1>2, <1>4, <4>1 DEF GetProperties
      <4>. QED
        BY <4>1 DEF GetProperties
    <3>2. \A g : \A kind \in {"Powered", "Interfaces"} : NoneNew(1, Telling(p, g, kind))
      BY <2>3, <2>4
    <3>. QED
      BY <1>1, <2>4, <2>6, <3>1, <3>2, KnownAfterNews
  <2>7. /\ NoneNew(1, Coming) /\ NoneNew(1, Going)
        /\ \A p \in Modem \ Present : NoneNew(1, Adding(p))
        /\ \A p \in Present : NoneNew(1, Removing(p))
    BY <2>3, <2>4
  <2>. QED
    BY <1>1, <1>3, <2>4, <2>5, <2>6, <2>7, NewsAfterNews
<1>5. ASSUME r.kind # "GetModems", NEW d \in Nat, Grows(d), NoneNew(d, Coming), NoneNew(d, Going),
             \A p : NoneNew(d, Adding(p)) /\ NoneNew(d, Removing(p)),
             \A p \in Present : Known(p) => Known(p)'
      PROVE  NewsInv'
  <2>1. IsAsked(GetModems) => IsAsked(GetModems)'
    BY <1>2, <1>5 DEF GetModems
  <2>. QED
    BY <1>1, <1>3, <1>5, <2>1, NewsAfterNews
<1>6. CASE r.kind # "GetModems" /\ modem[r.modem] = "absent"
  <2>1. wire' = wire
    BY <1>2, <1>6 DEF OfonoReplies
  <2>2. Grows(0) /\ \A B : NoneNew(0, B)
    <3>1. Len(wire) \in Nat /\ DOMAIN wire = 1..Len(wire)
      BY LenProperties DEF SlotsInv, WireTypeOK
    <3>2. Len(wire) + 0 = Len(wire) /\ Len(wire) + 1..Len(wire) + 0 = {}
      BY <3>1
    <3>. QED
      BY <2>1, <3>1, <3>2 DEF Grows, NoneNew
  <2>3. ASSUME NEW p \in Present, Known(p) PROVE Known(p)'
    <3>1. \A g : IsAsked(GetProperties(p, g)) => IsAsked(GetProperties(p, g))'
      <4>1. ASSUME NEW g, NEW q, q = GetProperties(p, g), IsAsked(q) PROVE IsAsked(q)'
        <5>1. q # r
          BY <1>6, <4>1 DEF GetProperties, Present
        <5>. QED
          BY <1>2, <4>1, <5>1
      <4>. QED
        BY <4>1 DEF GetProperties
    <3>. QED
      BY <1>1, <2>2, <2>3, <3>1, KnownAfterNews
  <2>. QED
    BY <1>5, <1>6, <2>2, <2>3
<1>7. CASE r.kind # "GetModems" /\ modem[r.modem] # "absent"
  <2>1. PICK b \in BOOLEAN : b = (modem[r.modem] = "on")
    OBVIOUS
  <2>2. PICK rm \in Modem : rm = r.modem
    BY <1>2
  <2>3. PICK rg \in Nat : rg = r.gen
    BY <1>2
  <2>. DEFINE m == Message("Properties", rm, rg, b)
  <2>4. wire' = Append(wire, m)
    BY <1>2, <1>7, <2>1, <2>2, <2>3 DEF OfonoReplies
  <2>5. IsSent(m) /\ m.kind = "Properties" /\ m.modem = rm /\ m.gen = rg /\ m.value = b
    BY MessageType DEF Message, Kind
  <2>. HIDE DEF m
  <2>6. /\ m \notin Coming /\ m \notin Going
        /\ \A p : m \notin Adding(p) /\ m \notin Removing(p)
        /\ \A p, g : \A kind \in {"Powered", "Interfaces"} :
             m \in Telling(p, g, kind) <=> rm = p /\ rg = g
        /\ \A p, g, kind, v : m \in Saying(p, g, kind, v) <=>
             m \in Telling(p, g, kind) /\ b = v
    BY <2>5, MessageSorts
  <2>7. /\ Grows(1) /\ wire'[Len(wire) + 1] = m
        /\ \A B : m \notin B => NoneNew(1, B)
    BY <2>4, <2>5, OneIsNew
  <2>8. ASSUME NEW p \in Present, Known(p) PROVE Known(p)'
    <3>1. ASSUME NEW g, NEW v, v = (modem'[p] = "on"), NEW kind \in {"Powered", "Interfaces"}
          PROVE  \/ Lasts(Saying(p, g, kind, v), Telling(p, g, kind))'
                 \/ /\ modem'[p] = modem[p] /\ NoneNew(1, Telling(p, g, kind))
                    /\ IsAsked(GetProperties(p, g)) => IsAsked(GetProperties(p, g))'
      <4>1. CASE rm = p /\ rg = g
        <5>1. b = v
          BY <1>1, <2>1, <2>2, <3>1, <4>1
        <5>2. m \in Saying(p, g, kind, v)
          BY <2>6, <4>1, <5>1
        <5>3. /\ Len(wire) + 1 \in Len(wire) + 1..Len(wire) + 1
              /\ Len(wire) + 1 + 1..Len(wire) + 1 = {}
          BY <2>7 DEF Grows
        <5>. QED
          BY <2>7, <5>2, <5>3, LastsAfterGrowth
      <4>2. CASE ~(rm = p /\ rg = g)
        <5>1. NoneNew(1, Telling(p, g, kind))
          BY <2>6, <2>7, <4>2
        <5>2. ASSUME NEW q, q = GetProperties(p, g), IsAsked(q) PROVE IsAsked(q)'
          <6>1. q # r
            BY <2>2, <2>3, <4>2, <5>2 DEF GetProperties
          <6>. QED
            BY <1>2, <5>2, <6>1
        <5>3. IsAsked(GetProperties(p, g)) => IsAsked(GetProperties(p, g))'
          BY <5>2 DEF GetProperties
        <5>. QED
          BY <1>1, <5>1, <5>3
      <4>. QED
        BY <4>1, <4>2
    <3>. QED
      BY <1>1, <2>7, <2>8, <3>1, KnownAfterNews
  <2>9. /\ NoneNew(1, Coming) /\ NoneNew(1, Going)
        /\ \A p : NoneNew(1, Adding(p)) /\ NoneNew(1, Removing(p))
    BY <2>6, <2>7
  <2>. QED
    BY <1>5, <1>7, <2>7, <2>8, <2>9
<1>. QED
  BY <1>4, <1>6, <1>7

(* A modem comes.                                                          *)
LEMMA NewsAfterModemAppears ==
  ASSUME SlotsInv, NewsInv, ModemAppears
  PROVE  NewsInv'
<1>1. UNCHANGED <<manager, modems, obj, ofono, reqs>>
  BY DEF ModemAppears, daemon
<1>2. PICK p \in Modem :
         /\ modem[p] = "absent" /\ modem' \in {[modem EXCEPT ![p] = to] : to \in {"off", "on"}}
         /\ Says(<<Message("ModemAdded", p, 0, FALSE)>>)
  BY DEF ModemAppears
<1>3. /\ Present' = Present \cup {p} /\ p \notin Present /\ Present' \subseteq Modem
      /\ \A q \in Present : modem'[q] = modem[q]
  BY <1>2 DEF Present, SlotsInv, SlotsTypeOK
<1>4. CASE ~ofono
  <2>1. wire' = wire
    BY <1>2, <1>4 DEF Says
  <2>. QED
    BY <1>1, <1>3, <1>4, <2>1, NewsWhileGone
<1>5. CASE ofono
  <2>. DEFINE m == Message("ModemAdded", p, 0, FALSE)
  <2>1. wire' = Append(wire, m)
    <3>1. wire' = wire \o <<m>>
      BY <1>2, <1>5 DEF Says
    <3>2. \A k : wire \o <<k>> = Append(wire, k)
      BY DEF SlotsInv, WireTypeOK
    <3>. HIDE DEF m
    <3>. QED
      BY <3>1, <3>2
  <2>2. IsSent(m) /\ m.kind = "ModemAdded" /\ m.modem = p
    BY FirstModem, MessageType DEF Kind, Message
  <2>. HIDE DEF m
  <2>3. /\ m \notin Coming /\ m \notin Going
        /\ \A q : m \in Adding(q) <=> q = p
        /\ \A q : m \notin Removing(q)
        /\ \A q, g : \A kind \in {"Powered", "Interfaces"} : m \notin Telling(q, g, kind)
    BY <2>2, MessageSorts
  <2>4. /\ Grows(1) /\ wire'[Len(wire) + 1] = m
        /\ \A B : m \notin B => NoneNew(1, B)
    BY <2>1, <2>2, OneIsNew
  <2>5. Lasts(Adding(p), Removing(p))'
    <3>1. /\ Len(wire) + 1 \in Len(wire) + 1..Len(wire) + 1
          /\ Len(wire) + 1 + 1..Len(wire) + 1 = {}
      BY <2>4 DEF Grows
    <3>. QED
      BY <2>3, <2>4, <3>1, LastsAfterGrowth
  <2>6. /\ \A r : IsAsked(r) => IsAsked(r)'
        /\ IsAsked(GetModems) => IsAsked(GetModems)'
    BY <1>1 DEF IsAsked, GetModems
  <2>7. ASSUME NEW q \in Present, Known(q) PROVE Known(q)'
    <3>1. \A g : IsAsked(GetProperties(q, g)) => IsAsked(GetProperties(q, g))'
      BY <2>6 DEF GetProperties
    <3>2. \A g : \A kind \in {"Powered", "Interfaces"} : NoneNew(1, Telling(q, g, kind))
      BY <2>3, <2>4
    <3>. QED
      BY <1>1, <1>3, <2>4, <2>7, <3>1, <3>2, KnownAfterNews
  <2>8. /\ NoneNew(1, Coming) /\ NoneNew(1, Going)
        /\ \A q \in Modem \ Present' : q \notin Present /\ NoneNew(1, Adding(q))
        /\ \A q \in Present' : NoneNew(1, Removing(q)) /\ (q \notin Present => q = p)
    BY <1>3, <2>3, <2>4
  <2>. QED
    BY <1>1, <1>3, <1>5, <2>4, <2>5, <2>6, <2>7, <2>8, NewsAfterNews
<1>. QED
  BY <1>4, <1>5

(* A modem goes.                                                           *)
LEMMA NewsAfterModemDisappears ==
  ASSUME SlotsInv, NewsInv, ModemDisappears
  PROVE  NewsInv'
<1>1. UNCHANGED <<manager, modems, obj, ofono, reqs>>
  BY DEF ModemDisappears, daemon
<1>2. PICK p \in Present :
         modem' = [modem EXCEPT ![p] = "absent"] /\ Says(<<Message("ModemRemoved", p, 0, FALSE)>>)
  BY DEF ModemDisappears
<1>3. /\ Present' = Present \ {p} /\ p \in Modem /\ Present' \subseteq Modem
      /\ \A q \in Present' : modem'[q] = modem[q]
  BY <1>2 DEF Present, SlotsInv, SlotsTypeOK
<1>4. CASE ~ofono
  <2>1. wire' = wire
    BY <1>2, <1>4 DEF Says
  <2>. QED
    BY <1>1, <1>3, <1>4, <2>1, NewsWhileGone
<1>5. CASE ofono
  <2>. DEFINE m == Message("ModemRemoved", p, 0, FALSE)
  <2>1. wire' = Append(wire, m)
    <3>1. wire' = wire \o <<m>>
      BY <1>2, <1>5 DEF Says
    <3>2. \A k : wire \o <<k>> = Append(wire, k)
      BY DEF SlotsInv, WireTypeOK
    <3>. HIDE DEF m
    <3>. QED
      BY <3>1, <3>2
  <2>2. IsSent(m) /\ m.kind = "ModemRemoved" /\ m.modem = p
    BY <1>3, FirstModem, MessageType DEF Kind, Message
  <2>. HIDE DEF m
  <2>3. /\ m \notin Coming /\ m \notin Going /\ m \in Ending(p)
        /\ \A q : m \notin Adding(q)
        /\ \A q : m \in Removing(q) <=> q = p
        /\ \A q, g : \A kind \in {"Powered", "Interfaces"} : m \notin Telling(q, g, kind)
    BY <2>2, MessageSorts DEF Ending
  <2>4. /\ Grows(1) /\ wire'[Len(wire) + 1] = m
        /\ \A B : m \notin B => NoneNew(1, B)
    BY <2>1, <2>2, OneIsNew
  <2>5. ~NoneNew(1, Ending(p)) /\ Followed(Adding(p), Ending(p))'
    <3>1. Len(wire) + 1 \in Len(wire) + 1..Len(wire) + 1
      BY <2>4 DEF Grows
    <3>2. ~NoneNew(1, Ending(p))
      BY <2>3, <2>4, <3>1 DEF NoneNew
    <3>. QED
      BY <2>3, <2>4, <3>2, FollowedAfterGrowth
  <2>6. /\ \A r : IsAsked(r) => IsAsked(r)'
        /\ IsAsked(GetModems) => IsAsked(GetModems)'
    BY <1>1 DEF IsAsked, GetModems
  <2>7. ASSUME NEW q \in Present', Known(q) PROVE Known(q)'
    <3>1. \A g : IsAsked(GetProperties(q, g)) => IsAsked(GetProperties(q, g))'
      BY <2>6 DEF GetProperties
    <3>2. \A g : \A kind \in {"Powered", "Interfaces"} : NoneNew(1, Telling(q, g, kind))
      BY <2>3, <2>4
    <3>. QED
      BY <1>1, <1>3, <2>4, <2>7, <3>1, <3>2, KnownAfterNews
  <2>8. /\ NoneNew(1, Coming) /\ NoneNew(1, Going)
        /\ \A q \in Modem \ Present' : NoneNew(1, Adding(q)) /\ (q \in Present => q = p)
        /\ \A q \in Present' : NoneNew(1, Removing(q)) /\ q \in Present
    BY <1>3, <2>3, <2>4
  <2>. QED
    BY <1>1, <1>3, <1>5, <2>4, <2>5, <2>6, <2>7, <2>8, NewsAfterNews
<1>. QED
  BY <1>4, <1>5

(* A modem's power comes or goes, and its interfaces with it.              *)
LEMMA NewsAfterPower ==
  ASSUME SlotsInv, NewsInv, ModemPowers \/ ModemLosesPower
  PROVE  NewsInv'
<1>1. UNCHANGED <<manager, modems, obj, ofono, reqs>>
  BY DEF ModemPowers, ModemLosesPower, daemon
<1>2. PICK p \in Modem, v \in BOOLEAN,
           first \in {"Powered", "Interfaces"}, second \in {"Powered", "Interfaces"} :
         /\ first # second /\ modem[p] # "absent"
         /\ modem' = [modem EXCEPT ![p] = IF v THEN "on" ELSE "off"]
         /\ Says(<<Message(first, p, 0, v), Message(second, p, 0, v)>>)
  BY DEF ModemPowers, ModemLosesPower
<1>3. /\ Present' = Present /\ Present \subseteq Modem
      /\ \A q \in Modem : q # p => modem'[q] = modem[q]
      /\ v = (modem'[p] = "on")
  BY <1>2 DEF Present, SlotsInv, SlotsTypeOK
<1>4. CASE ~ofono
  <2>1. wire' = wire
    BY <1>2, <1>4 DEF Says
  <2>. QED
    BY <1>1, <1>3, <1>4, <2>1, NewsWhileGone
<1>5. CASE ofono
  <2>. DEFINE m == Message(first, p, 0, v)
              n == Message(second, p, 0, v)
  <2>1. wire' = wire \o <<m, n>>
    BY <1>2, <1>5 DEF Says
  <2>2. /\ IsSent(m) /\ m.kind = first /\ m.modem = p /\ m.value = v
        /\ IsSent(n) /\ n.kind = second /\ n.modem = p /\ n.value = v
    BY FirstModem, MessageType DEF Kind, Message
  <2>. HIDE DEF m, n
  <2>3. /\ m \notin Coming /\ m \notin Going /\ n \notin Coming /\ n \notin Going
        /\ \A q : m \notin Adding(q) /\ m \notin Removing(q)
        /\ \A q : n \notin Adding(q) /\ n \notin Removing(q)
    BY <2>2, MessageSorts
  <2>4. ASSUME NEW q, NEW g, NEW kind \in {"Powered", "Interfaces"}
        PROVE  /\ m \in Telling(q, g, kind) <=> q = p /\ kind = first
               /\ n \in Telling(q, g, kind) <=> q = p /\ kind = second
               /\ \A x : x = v => /\ m \in Saying(q, g, kind, x) <=> m \in Telling(q, g, kind)
                                  /\ n \in Saying(q, g, kind, x) <=> n \in Telling(q, g, kind)
    BY <1>2, <2>2, MessageSorts
  <2>5. /\ Grows(2) /\ wire'[Len(wire) + 1] = m /\ wire'[Len(wire) + 2] = n
        /\ \A B : m \notin B /\ n \notin B => NoneNew(2, B)
    BY <2>1, <2>2, TwoAreNew
  <2>6. /\ Len(wire) + 1 \in Len(wire) + 1..Len(wire) + 2
        /\ Len(wire) + 2 \in Len(wire) + 1..Len(wire) + 2
        /\ \A k \in Len(wire) + 1 + 1..Len(wire) + 2 : k = Len(wire) + 2
        /\ Len(wire) + 2 + 1..Len(wire) + 2 = {}
    BY <2>5 DEF Grows
  <2>7. /\ \A r : IsAsked(r) => IsAsked(r)'
        /\ IsAsked(GetModems) => IsAsked(GetModems)'
    BY <1>1 DEF IsAsked, GetModems
  <2>8. ASSUME NEW g, NEW x, x = v, NEW kind \in {"Powered", "Interfaces"}
        PROVE  Lasts(Saying(p, g, kind, x), Telling(p, g, kind))'
    <3>1. CASE kind = first
      <4>1. m \in Saying(p, g, kind, x) /\ n \notin Telling(p, g, kind)
        BY <1>2, <2>4, <2>8, <3>1
      <4>. QED
        BY <2>5, <2>6, <4>1, LastsAfterGrowth
    <3>2. CASE kind = second
      <4>1. n \in Saying(p, g, kind, x)
        BY <2>4, <2>8, <3>2
      <4>. QED
        BY <2>5, <2>6, <4>1, LastsAfterGrowth
    <3>. QED
      BY <1>2, <3>1, <3>2
  <2>9. ASSUME NEW q \in Present, Known(q) PROVE Known(q)'
    <3>1. CASE q = p
      BY <1>1, <1>3, <2>5, <2>8, <2>9, <3>1, KnownAfterNews
    <3>2. CASE q # p
      <4>1. \A g : IsAsked(GetProperties(q, g)) => IsAsked(GetProperties(q, g))'
        BY <2>7 DEF GetProperties
      <4>2. \A g : \A kind \in {"Powered", "Interfaces"} : NoneNew(2, Telling(q, g, kind))
        BY <2>4, <2>5, <3>2
      <4>3. modem'[q] = modem[q]
        BY <1>3, <3>2
      <4>. QED
        BY <1>1, <2>5, <2>9, <4>1, <4>2, <4>3, KnownAfterNews
    <3>. QED
      BY <3>1, <3>2
  <2>10. /\ NoneNew(2, Coming) /\ NoneNew(2, Going)
         /\ \A q : NoneNew(2, Adding(q)) /\ NoneNew(2, Removing(q))
    BY <2>3, <2>5
  <2>. QED
    BY <1>1, <1>3, <1>5, <2>5, <2>7, <2>9, <2>10, NewsAfterNews
<1>. QED
  BY <1>4, <1>5

(* ofono comes or goes.                                                    *)
LEMMA NewsAfterTurn ==
  ASSUME SlotsInv, NewsInv, OfonoStarts \/ OfonoDies
  PROVE  NewsInv' /\ ~Session'
<1>1. UNCHANGED <<manager, modems, obj, modem>>
  BY DEF OfonoStarts, OfonoDies, daemon
<1>2. Turns' /\ ~Session'
  BY TurnsAfterStart, TurnsAfterDeath DEF NewsInv
<1>3. Present' = Present
  BY <1>1 DEF Present
<1>4. Grows(1) /\ \A p : NoneNew(1, Adding(p))
  <2>1. PICK kind \in {"appeared", "vanished"} : wire' = Append(wire, Message(kind, 0, 0, FALSE))
    BY DEF OfonoStarts, OfonoDies
  <2>2. PICK m : m = Message(kind, 0, 0, FALSE)
    OBVIOUS
  <2>3. IsSent(m) /\ m.kind = kind
    BY <2>2, FirstModem, MessageType DEF Kind, Message
  <2>4. \A p : m \notin Adding(p)
    BY <2>3, MessageSorts
  <2>. QED
    BY <2>1, <2>2, <2>3, <2>4, OneIsNew
<1>5. NoneKept'
  <2>. SUFFICES ASSUME NEW p \in Modem \ Present PROVE Leaves(p)'
    BY <1>3 DEF NoneKept
  <2>1. Leaves(p)
    BY DEF NewsInv, NoneKept
  <2>. QED
    BY <1>1, <1>4, <2>1, LeavesAfterNews
<1>. QED
  BY <1>2, <1>5 DEF NewsInv, NoneMissed, NothingUntold

-----------------------------------------------------------------------------
(* At first there is no news.                                              *)
LEMMA InitNews == SlotsInit => NewsInv
<1>. SUFFICES ASSUME SlotsInit PROVE NewsInv
  OBVIOUS
<1>1. wire = <<>> /\ DOMAIN wire = {} /\ ~ofono /\ ~manager /\ \A p \in Modem : ~obj[p].there
  BY FirstModem, NewObjectType DEF SlotsInit
<1>. QED
  BY <1>1 DEF NewsInv, Turns, Parted, Followed, Occurs, NoneKept, Leaves, NoneMissed, NothingUntold,
              Session

(* Nothing is left out at any step.                                        *)
LEMMA StepsKeepNews == SlotsInv /\ NewsInv /\ [SlotsNext]_slotsVars => NewsInv'
<1>. SUFFICES ASSUME SlotsInv, NewsInv, [SlotsNext]_slotsVars PROVE NewsInv'
  OBVIOUS
<1>1. CASE UNCHANGED slotsVars
  <2>1. UNCHANGED <<manager, obj, ofono, modem, wire, reqs>>
    BY <1>1 DEF slotsVars, daemon, world
  <2>2. Turns'
    BY <2>1 DEF NewsInv, Turns, Parted, Preceded, Followed, Occurs
  <2>3. Present' = Present /\ (Session' <=> Session)
    BY <2>1 DEF Present, Session, Occurs
  <2>4. \A p : Leaves(p) => Leaves(p)'
    BY <2>1 DEF Leaves, Followed, Occurs
  <2>5. \A p : Noticed(p) => Noticed(p)'
    BY <2>1 DEF Noticed, Lasts, Occurs, IsAsked, GetModems
  <2>6. \A p : Known(p) => Known(p)'
    BY <2>1 DEF Known, Told, Lasts, Occurs, IsAsked, GetProperties, Saying, Telling
  <2>. QED
    BY <2>2, <2>3, <2>4, <2>5, <2>6 DEF NewsInv, NoneKept, NoneMissed, NothingUntold
<1>2. CASE service_appeared_cb \/ service_vanished_cb
  BY <1>2, NewsAfterAppeared, NewsAfterVanished
<1>3. CASE modem_added_cb \/ modem_removed_cb \/ get_modems_cb
  BY <1>3, NewsAfterAdded, NewsAfterRemoved, NewsAfterListed
<1>4. CASE get_properties_cb \/ powered_changed \/ interfaces_changed
  BY <1>4, NewsAfterProperty
<1>5. CASE OfonoStarts \/ OfonoDies \/ OfonoReplies
  BY <1>5, NewsAfterTurn, NewsAfterReply
<1>6. CASE ModemAppears \/ ModemDisappears \/ ModemPowers \/ ModemLosesPower
  BY <1>6, NewsAfterModemAppears, NewsAfterModemDisappears, NewsAfterPower
<1>. QED
  BY <1>1, <1>2, <1>3, <1>4, <1>5, <1>6 DEF SlotsNext

(* Once all is said, the list is the modems that there are, and their      *)
(* objects know what ofono knows.                                          *)
LEMMA AllIsSaid ==
  ASSUME SlotsInv, NewsInv, Quiet
  PROVE  /\ Session /\ manager /\ \A p \in Modem : IsListed(p) <=> p \in Present
         /\ \A p \in Present : /\ obj[p].powered <=> modem[p] = "on"
                               /\ obj[p].interfaces <=> modem[p] = "on"
<1>1. ofono /\ DOMAIN wire = {} /\ DOMAIN reqs = {}
  BY DEF Quiet
<1>2. /\ \A B : ~Occurs(B)
      /\ \A A, B : ~Lasts(A, B)
      /\ \A r : ~IsAsked(r)
  BY <1>1 DEF Occurs, Lasts, IsAsked
<1>3. Session /\ manager
  BY <1>1, <1>2 DEF Session, NewsInv, Turns
<1>4. ASSUME NEW p \in Modem PROVE obj[p].there <=> p \in Present
  <2>1. p \in Present => Noticed(p)
    BY <1>3 DEF NewsInv, NoneMissed
  <2>2. p \notin Present => Leaves(p)
    BY DEF NewsInv, NoneKept
  <2>. QED
    BY <1>2, <2>1, <2>2 DEF Noticed, Leaves
<1>5. ASSUME NEW p \in Present
      PROVE  /\ obj[p].powered <=> modem[p] = "on"
             /\ obj[p].interfaces <=> modem[p] = "on"
  <2>1. p \in Modem /\ Known(p)
    BY <1>3 DEF NewsInv, NothingUntold, Present
  <2>2. obj[p].there /\ ~Occurs(Removing(p))
    BY <1>2, <1>4, <2>1
  <2>3. PICK v : v = (modem[p] = "on")
    OBVIOUS
  <2>4. PICK a : a = obj[p].powered
    OBVIOUS
  <2>5. PICK b : b = obj[p].interfaces
    OBVIOUS
  <2>6. PICK g : g = obj[p].gen
    OBVIOUS
  <2>7. Told(p, g, "Powered", a, v) /\ Told(p, g, "Interfaces", b, v)
    BY <2>1, <2>2, <2>3, <2>4, <2>5, <2>6, KnownIsTold
  <2>8. a = v /\ b = v
    BY <1>2, <2>7 DEF Told
  <2>9. a \in BOOLEAN /\ b \in BOOLEAN /\ v \in BOOLEAN
    BY <2>1, <2>3, <2>4, <2>5 DEF SlotsInv, SlotsTypeOK
  <2>. QED
    BY <2>3, <2>4, <2>5, <2>8, <2>9
<1>. QED
  BY <1>3, <1>4, <1>5 DEF SlotsInv, SlotsMatch

(* ofonomanager.c and ofonomodem.c: at every moment each modem of ofono is *)
(* on the list or on its way to it, each other one is not or will go, and  *)
(* each object knows its properties, has asked for them, or will be told   *)
(* them last.                                                              *)
THEOREM NewsIsAlwaysComplete == SlotsSpec => []NewsInv
<1>. QED
  BY InitNews, StepsKeepNews, SlotsAlwaysMatch, PTL DEF SlotsSpec

(* No modem is missed or kept, however ModemAdded, ModemRemoved, GetModems *)
(* and ofono's restarts cross, and no change of its power is.              *)
THEOREM NoModemIsEverMissed == SlotsSpec => []NoModemMissed
<1>1. ASSUME SlotsInv, NewsInv PROVE NoModemMissed
  <2>. SUFFICES ASSUME Quiet
                PROVE  /\ ToSet(modems) = Present
                       /\ \A p \in Present : obj[p].powered <=> modem[p] = "on"
    BY DEF NoModemMissed
  <2>1. /\ \A p \in Modem : IsListed(p) <=> p \in Present
        /\ \A p \in Present : obj[p].powered <=> modem[p] = "on"
    BY <1>1, AllIsSaid
  <2>2. \A n \in DOMAIN modems : modems[n] \in Modem
    BY <1>1, ElementOfSeq, LenProperties DEF SlotsInv, SlotsTypeOK
  <2>3. Present \subseteq Modem
    BY DEF Present
  <2>. QED
    BY <2>1, <2>2, <2>3 DEF ToSet, IsListed, ListedIn
<1>. QED
  BY <1>1, SlotsAlwaysMatch, NewsIsAlwaysComplete, PTL

-----------------------------------------------------------------------------
(* When modems come and go in order, no slot moves.                        *)

(* The list after a message is what the message makes of it.               *)
LEMMA ListedAfterArrival ==
  ASSUME SlotsInv, SlotsInv', manager, \A p \in Modem : Hears(p)
  PROVE  \A p \in Modem : p \in Listed' <=>
           (p \in Listed \/ wire[1] \in Adding(p)) /\ wire[1] \notin Removing(p)
<1>. SUFFICES ASSUME NEW p \in Modem
              PROVE  p \in Listed' <=>
                       (p \in Listed \/ wire[1] \in Adding(p)) /\ wire[1] \notin Removing(p)
  OBVIOUS
<1>1. obj[p].there <=> p \in Listed
  BY DEF SlotsInv, SlotsMatch, Listed
<1>2. obj'[p].there <=> p \in Listed'
  BY DEF SlotsInv, SlotsMatch, Listed
<1>3. Hears(p)
  OBVIOUS
<1>. QED
  BY <1>1, <1>2, <1>3 DEF Hears

(* A session goes on with a message.                                       *)
LEMMA SessionStays ==
  ASSUME Shifts, Session, ofono' = ofono
  PROVE  Session'
BY OccursAfterShift DEF Session

(* What is told is still in order, if the list has followed.               *)
LEMMA OrderAfterArrival ==
  ASSUME SlotsInv, InOrderly, NEW kind, Arrives(kind), UNCHANGED <<ofono, modem, orderly>>,
         orderly /\ Session' => Lowest(Listed)' /\ Settled'
  PROVE  InOrderly'
<1>1. Shifts
  BY ArrivalShifts
<1>2. PICK S : S = Present
  OBVIOUS
<1>3. S = Present'
  BY <1>2 DEF Present
<1>. DEFINE old == {m \in Sort("Modems") : m.value # S}
<1>4. ASSUME ofono, orderly PROVE Followed(Outdated, Going)'
  <2>1. Followed(old, Going)
    BY <1>2, <1>4 DEF InOrderly, Outdated, Followed
  <2>2. Followed(old, Going)'
    BY <1>1, <2>1, FollowedAfterShift
  <2>. QED
    BY <1>3, <2>2 DEF Outdated, Followed
<1>5. ASSUME ofono, orderly, ~Session' PROVE Followed(Changing, Going)'
  <2>1. Followed(Changing, Going)
    BY <1>1, <1>5, SessionStays DEF InOrderly
  <2>. QED
    BY <1>1, <2>1, FollowedAfterShift
<1>6. orderly => Lowest(Present)'
  BY <1>2, <1>3 DEF InOrderly, Lowest
<1>. QED
  BY <1>4, <1>5, <1>6 DEF InOrderly

(* The list in a session is the modems that are there, with the change     *)
(* that is first.                                                          *)
LEMMA OrderAfterChange ==
  ASSUME SlotsInv, SlotsInv', NewsInv, InOrderly,
         modem_added_cb \/ modem_removed_cb \/ get_modems_cb, \A p \in Modem : Hears(p)
  PROVE  InOrderly'
<1>1. PICK kind \in {"ModemAdded", "ModemRemoved", "Modems"} : Arrives(kind)
  BY DEF modem_added_cb, modem_removed_cb, get_modems_cb
<1>2. UNCHANGED <<manager, ofono, modem, orderly>>
  BY DEF modem_added_cb, modem_removed_cb, get_modems_cb, world
<1>3. /\ Shifts /\ wire[1] \in WireMessage /\ wire[1].kind = kind /\ wire[1].modem \in Modem
      /\ Typed(wire[1])
  BY <1>1, ArrivalShifts
<1>4. Present' = Present /\ Present \subseteq Modem /\ Listed \subseteq Modem
      /\ Listed' \subseteq Modem
  BY <1>2 DEF Present, Listed
<1>5. ASSUME orderly, Session' PROVE Lowest(Listed)' /\ Settled'
  <2>1. Session /\ manager
    BY <1>1, <1>2, <1>5, SessionGoesOn DEF NewsInv
  <2>2. Lowest(Present) /\ (Settled \/ AddedNext \/ RemovedNext)
    BY <1>5, <2>1 DEF InOrderly
  <2>3. \A p \in Modem : p \in Listed' <=>
          (p \in Listed \/ wire[1] \in Adding(p)) /\ wire[1] \notin Removing(p)
    BY <2>1, ListedAfterArrival
  <2>4. /\ kind = "Modems" => wire[1] \in Sort("Modems") /\ wire[1] \notin Changing
        /\ kind # "Modems" => wire[1] \in Changing
    BY <1>3 DEF Changing, Sort
  <2>5. /\ \A p : wire[1] \in Adding(p) <=> \/ kind = "ModemAdded" /\ wire[1].modem = p
                                            \/ kind = "Modems" /\ p \in wire[1].value
        /\ \A p : wire[1] \in Removing(p) <=> kind = "ModemRemoved" /\ wire[1].modem = p
    BY <1>3, HeadSorts
  <2>6. CASE Settled
    <3>1. kind = "Modems" /\ ~Occurs(Changing)'
      BY <1>3, <2>4, <2>6, OccursAfterShift DEF Settled
    <3>2. wire[1].value = Present
      <4>1. Followed(Outdated, Going) /\ ofono
        BY <1>5, <2>1 DEF InOrderly, Session
      <4>2. wire[1] \notin Going
        BY <1>3, <3>1 DEF Going, Sort
      <4>3. ~Occurs(Going)'
        <5>1. ~Occurs(Going)
          <6>1. Followed(Going, Coming) /\ ~Occurs(Coming)
            BY <2>1 DEF NewsInv, Turns, Session
          <6>2. ASSUME NEW n \in DOMAIN wire, wire[n] \in Going PROVE FALSE
            <7>1. PICK k \in n..Len(wire) : wire[k] \in Coming
              BY <6>1, <6>2 DEF Followed
            <7>2. k \in DOMAIN wire
              BY <1>3, <6>2 DEF Shifts
            <7>. QED
              BY <6>1, <7>1, <7>2 DEF Occurs
          <6>. QED
            BY <6>2 DEF Occurs
        <5>. QED
          BY <1>3, <5>1, OccursAfterShift
      <4>4. wire[1] \notin Outdated
        <5>1. PICK S : S = Outdated
          OBVIOUS
        <5>2. Followed(S, Going)
          BY <4>1, <5>1 DEF Followed
        <5>. QED
          BY <1>3, <4>2, <4>3, <5>1, <5>2, FollowedAfterShift
      <4>. QED
        BY <2>4, <3>1, <4>4 DEF Outdated
    <3>3. Listed' = Present
      <4>1. modems = <<>> => Listed = {}
        BY DEF Listed, IsListed, ListedIn
      <4>2. Listed \subseteq Present
        BY <2>6, <4>1 DEF Settled
      <4>3. \A p \in Modem : p \in Listed' <=> p \in Present
        BY <2>3, <2>5, <3>1, <3>2, <4>2
      <4>. QED
        BY <1>4, <4>3
    <3>. QED
      BY <1>4, <2>2, <3>1, <3>3 DEF Settled, Lowest
  <2>7. ASSUME OnlyFirstChanges PROVE ~Occurs(Changing)' /\ kind # "Modems"
    <3>1. \A n \in 2..Len(wire) : wire[n] \notin Changing
      BY <2>7 DEF OnlyFirstChanges
    <3>2. DOMAIN wire' = 1..Len(wire) - 1
      BY <1>3 DEF Shifts
    <3>3. ~Occurs(Changing)'
      BY <1>3, <3>1, <3>2, PlacesMoveUp DEF Occurs
    <3>4. ~Occurs(Sort("Modems"))
      BY <2>7 DEF OnlyFirstChanges, ListIsComing
    <3>. QED
      BY <1>3, <2>4, <3>3, <3>4, OccursAfterShift
  <2>8. CASE AddedNext
    <3>1. /\ kind = "ModemAdded" /\ wire[1].modem \in Present
          /\ Listed = Present \ {wire[1].modem} /\ ~Occurs(Changing)'
      BY <1>3, <2>7, <2>8 DEF AddedNext
    <3>2. Listed' = Present
      BY <1>4, <2>3, <2>5, <3>1
    <3>. QED
      BY <1>4, <2>2, <3>1, <3>2 DEF Settled, Lowest
  <2>9. CASE RemovedNext
    <3>1. /\ kind = "ModemRemoved" /\ wire[1].modem \notin Present
          /\ Listed = Present \cup {wire[1].modem} /\ ~Occurs(Changing)'
      BY <1>3, <2>7, <2>9 DEF RemovedNext
    <3>2. Listed' = Present
      BY <1>4, <2>3, <2>5, <3>1
    <3>. QED
      BY <1>4, <2>2, <3>1, <3>2 DEF Settled, Lowest
  <2>. QED
    BY <2>2, <2>6, <2>8, <2>9
<1>. QED
  BY <1>1, <1>2, <1>5, OrderAfterArrival

(* A property changes no list.                                             *)
LEMMA OrderAfterProperty ==
  ASSUME SlotsInv, NewsInv, InOrderly, get_properties_cb \/ powered_changed \/ interfaces_changed
  PROVE  InOrderly'
<1>1. PICK kind \in {"Properties", "Powered", "Interfaces"} : Arrives(kind)
  BY DEF get_properties_cb, powered_changed, interfaces_changed
<1>2. UNCHANGED <<ofono, modem, orderly, modems>>
  BY DEF get_properties_cb, powered_changed, interfaces_changed, world
<1>3. /\ Shifts /\ wire[1].kind = kind
  BY <1>1, ArrivalShifts
<1>4. Listed' = Listed /\ Present' = Present
  BY <1>2 DEF Listed, IsListed, ListedIn, Present
<1>5. ASSUME orderly, Session' PROVE Lowest(Listed)' /\ Settled'
  <2>1. Session
    BY <1>1, <1>2, <1>5, SessionGoesOn DEF NewsInv
  <2>2. Lowest(Listed) /\ Settled
    BY <1>3, <1>5, <2>1 DEF InOrderly, AddedNext, RemovedNext
  <2>3. ~Occurs(Changing)'
    BY <1>3, <2>2, OccursAfterShift DEF Settled
  <2>. QED
    BY <1>2, <1>4, <2>2, <2>3 DEF Settled, Lowest
<1>. QED
  BY <1>1, <1>2, <1>5, OrderAfterArrival

(* A session begins with an empty list, and with no change to tell.        *)
LEMMA OrderAfterTurn ==
  ASSUME SlotsInv, NewsInv, NewsInv', InOrderly, service_appeared_cb \/ service_vanished_cb
  PROVE  InOrderly' /\ (Session' => modems' = <<>>)
<1>1. PICK kind \in {"appeared", "vanished"} : Arrives(kind)
  BY DEF service_appeared_cb, service_vanished_cb
<1>2. UNCHANGED <<ofono, modem, orderly>>
  BY DEF service_appeared_cb, service_vanished_cb, world
<1>3. /\ Shifts
      /\ service_appeared_cb => wire[1] \in Coming
  BY <1>1, ArrivalShifts DEF service_appeared_cb, Coming
<1>4. Session' => modems' = <<>> /\ service_appeared_cb
  BY NewsAfterAppeared, NewsAfterVanished
<1>5. ASSUME orderly, Session' PROVE Lowest(Listed)' /\ Settled'
  <2>1. ofono /\ ~Session /\ ofono' /\ ~Occurs(Coming)'
    BY <1>2, <1>3, <1>4, <1>5, OccursAfterShift DEF Session
  <2>2. Followed(Changing, Going)'
    BY <1>3, <1>5, <2>1, FollowedAfterShift DEF InOrderly
  <2>3. Followed(Going, Coming)'
    BY <2>1 DEF NewsInv, Turns
  <2>4. ASSUME NEW n \in DOMAIN wire', wire'[n] \in Changing PROVE FALSE
    <3>1. DOMAIN wire' = 1..Len(wire') /\ Len(wire') \in Int
      BY <1>3 DEF Shifts
    <3>2. PICK k \in n..Len(wire') : wire'[k] \in Going
      BY <2>2, <2>4 DEF Followed
    <3>3. k \in DOMAIN wire'
      BY <2>4, <3>1
    <3>4. PICK j \in k..Len(wire') : wire'[j] \in Coming
      BY <2>3, <3>2, <3>3 DEF Followed
    <3>5. j \in DOMAIN wire'
      BY <3>1, <3>3
    <3>. QED
      BY <2>1, <3>4, <3>5 DEF Occurs
  <2>5. Listed' = {}
    <3>1. DOMAIN modems' = {}
      BY <1>4, <1>5
    <3>. QED
      BY <3>1 DEF Listed, IsListed, ListedIn
  <2>. QED
    BY <1>4, <1>5, <2>4, <2>5 DEF Settled, Occurs, Lowest
<1>. QED
  BY <1>1, <1>2, <1>4, <1>5, OrderAfterArrival

(* Messages that change no list leave it so.                               *)
LEMMA OrderAfterNews ==
  ASSUME SlotsInv, NewsInv, InOrderly, ofono' = ofono, modems' = modems, orderly' = orderly,
         Present' = Present, NEW d \in Nat, Grows(d), NoneNew(d, Coming), NoneNew(d, Changing),
         NoneNew(d, Outdated), ~ListIsComing => ~ListIsComing'
  PROVE  InOrderly'
<1>1. PICK S : S = Outdated
  OBVIOUS
<1>2. Outdated' = S /\ Listed' = Listed
  BY <1>1 DEF Outdated, Listed, IsListed, ListedIn
<1>3. ASSUME ofono, orderly PROVE Followed(Outdated, Going)'
  <2>1. Followed(S, Going) /\ NoneNew(d, S)
    BY <1>1, <1>3 DEF InOrderly, Followed, NoneNew
  <2>2. Followed(S, Going)'
    BY <2>1, FollowedAfterGrowth
  <2>. QED
    BY <1>2, <2>2 DEF Followed
<1>4. Session <=> Session'
  BY OccursAfterGrowth DEF Session
<1>5. ofono /\ orderly /\ ~Session' => Followed(Changing, Going)'
  BY <1>4, FollowedAfterGrowth DEF InOrderly
<1>6. Settled => Settled'
  BY <1>2, OccursAfterGrowth DEF Settled
<1>7. ASSUME OnlyFirstChanges PROVE OnlyFirstChanges' /\ wire'[1] = wire[1]
  <2>1. Len(wire) \in Nat /\ DOMAIN wire' = 1..Len(wire) + d /\ Len(wire') = Len(wire) + d
    BY DEF Grows
  <2>2. Len(wire) # 0
    BY <1>7, EmptySeq DEF OnlyFirstChanges, SlotsInv, WireTypeOK
  <2>3. 1 \in 1..Len(wire) /\ \A n \in 2..Len(wire) + d : n \in 1..Len(wire) + d
    BY <2>1, <2>2
  <2>4. wire' # <<>>
    BY <2>1, <2>3
  <2>5. ASSUME NEW n \in 2..Len(wire) + d PROVE wire'[n] \notin Changing
    <3>1. CASE n \in 1..Len(wire)
      <4>1. n \in 2..Len(wire)
        BY <2>1, <3>1
      <4>. QED
        BY <1>7, <3>1, <4>1, PlacesStay DEF OnlyFirstChanges
    <3>2. CASE n \notin 1..Len(wire)
      BY <2>3, <3>2, PlacesStay DEF NoneNew
    <3>. QED
      BY <3>1, <3>2
  <2>6. wire'[1] = wire[1]
    BY <2>3, PlacesStay
  <2>. QED
    BY <1>7, <2>1, <2>4, <2>5, <2>6 DEF OnlyFirstChanges
<1>8. (AddedNext => AddedNext') /\ (RemovedNext => RemovedNext')
  BY <1>2, <1>7 DEF AddedNext, RemovedNext
<1>. QED
  BY <1>2, <1>3, <1>4, <1>5, <1>6, <1>8 DEF InOrderly, Lowest

(* An answer of ofono is up to date.                                       *)
LEMMA OrderAfterReply ==
  ASSUME SlotsInv, NewsInv, InOrderly, OfonoReplies
  PROVE  InOrderly'
<1>. DEFINE r == reqs[1]
<1>1. UNCHANGED <<modems, ofono, modem, orderly>> /\ Present' = Present
  BY DEF OfonoReplies, daemon, world, Present
<1>2. /\ Head(reqs) = r /\ r \in Request /\ IsAsked(r) /\ \A q : IsAsked(q)' => IsAsked(q)
      /\ r.modem \in Modem /\ r.gen \in Nat
  BY RequestIsAnswered DEF Request
<1>3. /\ r.kind = "GetModems" => ListIsComing
      /\ (\E n \in DOMAIN reqs' : reqs'[n].kind = "GetModems") =>
           \E n \in DOMAIN reqs : reqs[n].kind = "GetModems"
  <2>1. r.kind = "GetModems" => ListIsComing
    BY <1>2 DEF ListIsComing, IsAsked
  <2>2. ASSUME NEW n \in DOMAIN reqs', reqs'[n].kind = "GetModems"
        PROVE  \E k \in DOMAIN reqs : reqs[k].kind = "GetModems"
    BY <1>2, <2>2 DEF IsAsked
  <2>. QED
    BY <2>1, <2>2
<1>4. ASSUME NEW d \in Nat, Grows(d), NoneNew(d, Coming), NoneNew(d, Changing),
             NoneNew(d, Outdated), r.kind # "GetModems" => NoneNew(d, Sort("Modems"))
      PROVE  InOrderly'
  <2>1. ~ListIsComing => ~ListIsComing'
    BY <1>3, <1>4, OccursAfterGrowth DEF ListIsComing
  <2>. QED
    BY <1>1, <1>4, <2>1, OrderAfterNews
<1>5. ASSUME NEW m, IsSent(m), m.kind \in {"Modems", "Properties"},
             m.kind = "Modems" => r.kind = "GetModems" /\ m.value = Present,
             wire' = Append(wire, m)
      PROVE  InOrderly'
  <2>1. /\ m \notin Coming /\ m \notin Changing /\ m \notin Outdated
        /\ m \in Sort("Modems") => r.kind = "GetModems"
    BY <1>5 DEF Coming, Changing, Outdated, Sort
  <2>. QED
    BY <1>4, <1>5, <2>1, OneIsNew
<1>6. CASE r.kind = "GetModems"
  <2>1. PICK m : m = Message("Modems", 0, 0, Present)
    OBVIOUS
  <2>2. wire' = Append(wire, m)
    BY <1>2, <1>6, <2>1 DEF OfonoReplies
  <2>3. IsSent(m) /\ m.kind = "Modems" /\ m.value = Present
    BY <2>1, MessageType DEF Message, Present
  <2>. QED
    BY <1>5, <1>6, <2>2, <2>3
<1>7. CASE r.kind # "GetModems" /\ modem[r.modem] = "absent"
  <2>1. wire' = wire
    BY <1>2, <1>7 DEF OfonoReplies
  <2>2. Grows(0) /\ \A B : NoneNew(0, B)
    <3>1. Len(wire) \in Nat /\ DOMAIN wire = 1..Len(wire)
      BY LenProperties DEF SlotsInv, WireTypeOK
    <3>2. Len(wire) + 0 = Len(wire) /\ Len(wire) + 1..Len(wire) + 0 = {}
      BY <3>1
    <3>. QED
      BY <2>1, <3>1, <3>2 DEF Grows, NoneNew
  <2>. QED
    BY <1>4, <2>2
<1>8. CASE r.kind # "GetModems" /\ modem[r.modem] # "absent"
  <2>1. PICK b \in BOOLEAN : b = (modem[r.modem] = "on")
    OBVIOUS
  <2>2. PICK m : m = Message("Properties", r.modem, r.gen, b)
    OBVIOUS
  <2>3. wire' = Append(wire, m)
    BY <1>2, <1>8, <2>1, <2>2 DEF OfonoReplies
  <2>4. IsSent(m) /\ m.kind = "Properties"
    BY <1>2, <2>2, MessageType DEF Message, Kind
  <2>. QED
    BY <1>5, <2>3, <2>4
<1>. QED
  BY <1>6, <1>7, <1>8

(* A change of the modems that is in order is told when all else has been. *)
LEMMA OrderAfterNewChange ==
  ASSUME SlotsInv, NewsInv, Quiet, ofono', orderly, InOrderly,
         UNCHANGED <<modems, reqs>>, Present' \in SUBSET Modem, Lowest(Present)',
         NEW m, IsSent(m), wire' = Append(wire, m),
         \/ m.kind = "ModemAdded" /\ m.modem \in Present' /\ Present = Present' \ {m.modem}
         \/ m.kind = "ModemRemoved" /\ m.modem \notin Present' /\ Present = Present' \cup {m.modem}
  PROVE  InOrderly'
<1>1. Session /\ \A p \in Modem : IsListed(p) <=> p \in Present
  BY AllIsSaid
<1>2. wire = <<>> /\ reqs' = <<>> /\ DOMAIN wire = {}
  BY DEF Quiet
<1>3. /\ Grows(1) /\ wire'[Len(wire) + 1] = m
      /\ \A B : m \notin B => NoneNew(1, B)
  BY OneIsNew
<1>4. Len(wire') = 1 /\ wire'[1] = m /\ DOMAIN wire' = 1..1
  BY <1>2, <1>3 DEF Grows
<1>5. m \notin Coming /\ m \notin Sort("Modems")
  BY DEF Coming, Sort
<1>6. \A B : m \notin B => ~Occurs(B)'
  BY <1>4 DEF Occurs
<1>7. Session' /\ ~ListIsComing'
  BY <1>2, <1>5, <1>6 DEF Session, ListIsComing
<1>8. Followed(Outdated, Going)'
  BY <1>4, <1>5 DEF Followed, Outdated
<1>9. OnlyFirstChanges'
  <2>1. wire' # <<>> /\ 2..1 = {}
    BY <1>4
  <2>. QED
    BY <1>4, <1>7, <2>1 DEF OnlyFirstChanges
<1>10. Listed' = Present /\ Listed = Present
  BY <1>1 DEF Listed, IsListed, ListedIn, Present
<1>11. Lowest(Listed)'
  BY <1>1, <1>10 DEF InOrderly, Lowest
<1>. QED
  BY <1>4, <1>7, <1>8, <1>9, <1>10, <1>11 DEF InOrderly, AddedNext, RemovedNext

(* A modem that comes or goes in order leaves the list with at most that   *)
(* change to make.                                                         *)
LEMMA OrderAfterModems ==
  ASSUME SlotsInv, NewsInv, InOrderly, ModemAppears \/ ModemDisappears
  PROVE  InOrderly'
<1>1. UNCHANGED <<modems, ofono, reqs>>
  BY DEF ModemAppears, ModemDisappears, daemon
<1>2. SUFFICES ASSUME orderly' PROVE InOrderly'
  BY DEF InOrderly
<1>3. /\ orderly /\ ~Busy /\ Lowest(Present) /\ MaxModem \in Nat
  <2>1. orderly /\ ~Busy
    <3>1. CASE ModemAppears
      BY <1>2, <3>1 DEF ModemAppears
    <3>2. CASE ModemDisappears
      BY <1>2, <3>2 DEF ModemDisappears
    <3>. QED
      BY <3>1, <3>2
  <2>. QED
    BY <2>1, SlotsAssumption DEF InOrderly
<1>4. PICK p \in Modem, kind \in {"ModemAdded", "ModemRemoved"} :
         /\ Says(<<Message(kind, p, 0, FALSE)>>)
         /\ \/ /\ kind = "ModemAdded" /\ modem[p] = "absent"
               /\ modem' \in {[modem EXCEPT ![p] = to] : to \in {"off", "on"}}
               /\ \A q \in 0..(p - 1) : modem[q] # "absent"
            \/ /\ kind = "ModemRemoved" /\ modem[p] # "absent"
               /\ modem' = [modem EXCEPT ![p] = "absent"] /\ \A q \in Present : q <= p
  <2>1. CASE ModemAppears
    BY <1>2, <2>1 DEF ModemAppears
  <2>2. CASE ModemDisappears
    BY <1>2, <2>2 DEF ModemDisappears, Present
  <2>. QED
    BY <2>1, <2>2
<1>5. /\ kind = "ModemAdded" => p \notin Present /\ Present' = Present \cup {p}
      /\ kind = "ModemRemoved" => p \in Present /\ Present' = Present \ {p}
      /\ Present \in SUBSET Modem /\ Present' \in SUBSET Modem
  BY <1>4 DEF Present, SlotsInv, SlotsTypeOK
<1>6. Modem \subseteq Nat /\ \A x \in Modem : \A y \in 0..x : y \in Modem
  BY <1>3 DEF Modem
<1>7. Lowest(Present)'
  <2>1. CASE kind = "ModemAdded"
    <3>1. ASSUME NEW q \in 0..p, q # p PROVE q \in Present
      <4>1. q \in 0..(p - 1) /\ q \in Modem
        BY <1>6, <3>1
      <4>. QED
        BY <1>4, <2>1, <4>1 DEF Present
    <3>. QED
      BY <1>3, <1>5, <2>1, <3>1 DEF Lowest
  <2>2. CASE kind = "ModemRemoved"
    <3>1. ASSUME NEW x \in Present, x # p, NEW y \in 0..x PROVE y \in Present /\ y # p
      <4>1. x <= p /\ x \in Nat /\ p \in Nat /\ y \in Present
        BY <1>3, <1>4, <1>5, <1>6, <2>2, <3>1 DEF Lowest
      <4>. QED
        BY <3>1, <4>1
    <3>. QED
      BY <1>5, <2>2, <3>1 DEF Lowest
  <2>. QED
    BY <2>1, <2>2
<1>8. CASE ~ofono
  BY <1>1, <1>7, <1>8 DEF InOrderly, Session
<1>9. CASE ofono
  <2>1. Quiet /\ wire = <<>>
    BY <1>3, <1>9 DEF Busy, Quiet
  <2>2. PICK m : m = Message(kind, p, 0, FALSE)
    OBVIOUS
  <2>3. wire' = Append(wire, m)
    <3>1. wire' = wire \o <<m>>
      BY <1>4, <1>9, <2>2 DEF Says
    <3>. QED
      BY <2>1, <3>1
  <2>4. IsSent(m) /\ m.kind = kind /\ m.modem = p
    BY <2>2, FirstModem, MessageType DEF Kind, Message
  <2>5. \/ m.kind = "ModemAdded" /\ m.modem \in Present' /\ Present = Present' \ {m.modem}
        \/ m.kind = "ModemRemoved" /\ m.modem \notin Present' /\ Present = Present' \cup {m.modem}
    BY <1>5, <2>4
  <2>. QED
    BY <1>1, <1>3, <1>5, <1>7, <1>9, <2>1, <2>3, <2>4, <2>5, OrderAfterNewChange
<1>. QED
  BY <1>8, <1>9

(* Power changes no list.                                                  *)
LEMMA OrderAfterPower ==
  ASSUME SlotsInv, NewsInv, InOrderly, ModemPowers \/ ModemLosesPower
  PROVE  InOrderly'
<1>1. UNCHANGED <<modems, ofono, reqs, orderly>>
  BY DEF ModemPowers, ModemLosesPower, daemon
<1>2. PICK p \in Modem, v \in BOOLEAN,
           first \in {"Powered", "Interfaces"}, second \in {"Powered", "Interfaces"} :
         /\ modem[p] # "absent" /\ modem' = [modem EXCEPT ![p] = IF v THEN "on" ELSE "off"]
         /\ Says(<<Message(first, p, 0, v), Message(second, p, 0, v)>>)
  BY DEF ModemPowers, ModemLosesPower
<1>3. Present' = Present
  BY <1>2 DEF Present, SlotsInv, SlotsTypeOK
<1>4. CASE ~ofono
  BY <1>1, <1>3, <1>4 DEF InOrderly, Session, Lowest
<1>5. CASE ofono
  <2>1. PICK m : m = Message(first, p, 0, v)
    OBVIOUS
  <2>2. PICK n : n = Message(second, p, 0, v)
    OBVIOUS
  <2>3. wire' = wire \o <<m, n>>
    BY <1>2, <1>5, <2>1, <2>2 DEF Says
  <2>4. IsSent(m) /\ m.kind = first /\ IsSent(n) /\ n.kind = second
    BY <2>1, <2>2, FirstModem, MessageType DEF Kind, Message
  <2>5. \A B \in {Coming, Changing, Outdated, Sort("Modems")} : m \notin B /\ n \notin B
    BY <2>4 DEF Coming, Changing, Outdated, Sort
  <2>6. /\ Grows(2)
        /\ \A B \in {Coming, Changing, Outdated, Sort("Modems")} : NoneNew(2, B)
    BY <2>3, <2>4, <2>5, TwoAreNew
  <2>7. ~ListIsComing => ~ListIsComing'
    BY <1>1, <2>6, OccursAfterGrowth DEF ListIsComing
  <2>. QED
    BY <1>1, <1>3, <2>6, <2>7, OrderAfterNews
<1>. QED
  BY <1>4, <1>5

(* When ofono comes, all that was told is followed by that it had gone.    *)
LEMMA OrderAfterOfono ==
  ASSUME SlotsInv, NewsInv, InOrderly, OfonoStarts \/ OfonoDies
  PROVE  InOrderly'
<1>1. UNCHANGED <<modem, orderly>> /\ Present' = Present
  BY DEF OfonoStarts, OfonoDies, Present
<1>2. ~Session'
  BY NewsAfterTurn
<1>3. ASSUME ofono' PROVE Followed(Outdated, Going)' /\ Followed(Changing, Going)'
  <2>1. ~ofono /\ wire' = Append(wire, Message("appeared", 0, 0, FALSE))
    BY <1>3 DEF OfonoStarts, OfonoDies
  <2>2. Followed(WireMessage, Going)
    BY <2>1 DEF NewsInv, Turns
  <2>3. PICK m : m = Message("appeared", 0, 0, FALSE)
    OBVIOUS
  <2>4. IsSent(m) /\ m.kind = "appeared"
    BY <2>3, FirstModem, MessageType DEF Kind, Message
  <2>5. PICK S : S = Outdated
    OBVIOUS
  <2>6. /\ S \subseteq WireMessage /\ Changing \subseteq WireMessage
        /\ m \notin S /\ m \notin Changing
    BY <2>4, <2>5 DEF Outdated, Changing, Sort
  <2>7. Grows(1) /\ NoneNew(1, S) /\ NoneNew(1, Changing)
    BY <2>1, <2>3, <2>4, <2>6, OneIsNew
  <2>8. Followed(S, Going) /\ Followed(Changing, Going)
    BY <2>2, <2>6 DEF Followed
  <2>9. Followed(S, Going)' /\ Followed(Changing, Going)'
    BY <2>7, <2>8, FollowedAfterGrowth
  <2>10. Outdated' = S
    BY <1>1, <2>5 DEF Outdated
  <2>. QED
    BY <2>9, <2>10 DEF Followed
<1>. QED
  BY <1>1, <1>2, <1>3 DEF InOrderly, Lowest

-----------------------------------------------------------------------------
(* What a message of the modems changes of the slots, if it does.          *)
LEMMA ListStep ==
  ASSUME SlotsInv, modem_added_cb \/ modem_removed_cb \/ get_modems_cb
  PROVE  \/ UNCHANGED <<modems, obj, sims, svc, configured>>
         \/ \E list, objects : Fits(list, objects) /\ modems_changed_cb(list, objects)
<1>1. PICK kind \in {"ModemAdded", "ModemRemoved", "Modems"} : Arrives(kind)
  BY DEF modem_added_cb, modem_removed_cb, get_modems_cb
<1>2. /\ Head(wire) = wire[1] /\ wire[1].modem \in Modem
      /\ get_modems_cb => wire[1].value \in SUBSET Modem
  BY <1>1, ArrivalShifts DEF Typed, get_modems_cb
<1>. DEFINE p == wire[1].modem
<1>3. CASE modem_added_cb
  <2>1. CASE ~(~manager \/ p \in ToSet(modems))
    <3>1. modems_changed_cb(insert_sorted(modems, {p}), [obj EXCEPT ![p] = NewObject(gen)])
      BY <1>2, <1>3, <2>1 DEF modem_added_cb
    <3>2. ~IsListed(p)
      BY <2>1 DEF ToSet, IsListed, ListedIn
    <3>. QED
      BY <1>2, <3>1, <3>2, AddedFits
  <2>. QED
    BY <1>2, <1>3, <2>1 DEF modem_added_cb
<1>4. CASE modem_removed_cb
  <2>1. CASE ~(~manager \/ p \notin ToSet(modems))
    <3>1. modems_changed_cb(RemoveAt(modems, Position(modems, p)), [obj EXCEPT ![p] = NoObject])
      BY <1>2, <1>4, <2>1 DEF modem_removed_cb
    <3>2. IsListed(p)
      BY <2>1 DEF ToSet, IsListed, ListedIn
    <3>. QED
      BY <1>2, <3>1, <3>2, RemovedFits
  <2>. QED
    BY <1>2, <1>4, <2>1 DEF modem_removed_cb
<1>5. CASE get_modems_cb
  <2>1. CASE manager
    <3>. DEFINE new == wire[1].value \ ToSet(modems)
    <3>1. modems_changed_cb(insert_sorted(modems, new), WithListed(new))
      BY <1>2, <1>5, <2>1 DEF get_modems_cb, WithListed
    <3>2. new \in SUBSET Modem /\ \A q \in new : ~IsListed(q)
      BY <1>2, <1>5 DEF ToSet, IsListed, ListedIn
    <3>. HIDE DEF new
    <3>. QED
      BY <3>1, <3>2, ListedFits
  <2>. QED
    BY <1>2, <1>5, <2>1 DEF get_modems_cb
<1>. QED
  BY <1>3, <1>4, <1>5

(* A list of the lowest modems has each at its place.                      *)
LEMMA ModemsInPlace ==
  ASSUME NEW list \in Seq(Modem), Increasing(list), NEW S, Lowest(S),
         \A p \in Modem : p \in S <=> ListedIn(list, p), MaxModem \in Nat
  PROVE  \A n \in DOMAIN list : list[n] = n - 1
<1>1. ASSUME NEW n \in DOMAIN list, NEW q \in 0..list[n] PROVE \E m \in DOMAIN list : list[m] = q
  <2>1. list[n] \in Modem
    BY ElementOfSeq, LenProperties
  <2>2. list[n] \in S /\ q \in Modem
    BY <2>1 DEF ListedIn, Modem
  <2>. QED
    BY <2>2 DEF Lowest, ListedIn
<1>. QED
  BY <1>1, LowestInOrder

(* No slot moves, so each is as it was; a new one waits for power.         *)
LEMMA SlotsUpAfterList ==
  ASSUME SlotsInv, SlotsInv', NEW list, NEW objects, Fits(list, objects),
         modems_changed_cb(list, objects), Lowest(Listed), Lowest(Listed)',
         \A n \in DOMAIN modems : SlotIsUp(n)
  PROVE  \A n \in DOMAIN modems' : SlotIsUp(n)'
<1>1. /\ modems' = list
      /\ configured' = {p \in configured : objects[p].there}
  BY ListChanges, Zenon
<1>2. /\ \A n \in DOMAIN list : SlotRemade(list, n)
      /\ \A p \in Modem : ObjectKept(list, objects, p)
  BY ListChanges, Zenon
<1>3. /\ list \in Seq(Modem) /\ Increasing(list)
      /\ modems \in Seq(Modem) /\ Increasing(modems) /\ MaxModem \in Nat
  BY SlotsAssumption DEF Fits, SlotsInv, SlotsTypeOK, SlotsMatch
<1>4. \A n \in DOMAIN modems : modems[n] = n - 1
  <2>1. PICK S : S = Listed
    OBVIOUS
  <2>2. Lowest(S) /\ \A p \in Modem : p \in S <=> ListedIn(modems, p)
    BY <2>1 DEF Lowest, Listed, IsListed
  <2>. QED
    BY <1>3, <2>2, ModemsInPlace
<1>5. \A n \in DOMAIN list : list[n] = n - 1
  <2>1. PICK S : S = Listed'
    OBVIOUS
  <2>2. Lowest(S)
    BY <2>1 DEF Lowest
  <2>3. \A p \in Modem : p \in S <=> ListedIn(list, p)
    BY <1>1, <2>1 DEF Listed, IsListed, ListedIn
  <2>. QED
    BY <1>3, <2>2, <2>3, ModemsInPlace
<1>. SUFFICES ASSUME NEW n \in DOMAIN list PROVE SlotIsUp(n)'
  BY <1>1
<1>6. PICK p \in Modem : p = list[n]
  BY <1>3, ElementOfSeq, LenProperties
<1>7. /\ SlotRemade(list, n) /\ ObjectKept(list, objects, p)
      /\ objects[p].there /\ (obj[p].there <=> IsListed(p))
      /\ obj[p].there => objects[p] = obj[p]
      /\ ~obj[p].there => ~objects[p].powered /\ ~objects[p].interfaces
  <2>1. SlotRemade(list, n) /\ ObjectKept(list, objects, p)
    BY <1>2
  <2>2. objects[p].there
    BY <1>6 DEF Fits, ListedIn
  <2>. QED
    BY <2>1, <2>2 DEF Fits, SlotsInv, SlotsMatch
<1>8. modems'[n] = p
  BY <1>1, <1>6
<1>9. CASE n \in DOMAIN modems
  <2>1. modems[n] = p /\ IsListed(p)
    BY <1>4, <1>5, <1>6, <1>9 DEF IsListed, ListedIn
  <2>2. /\ sims'[n] = sims[n] /\ svc'[n] = svc[n]
        /\ obj'[p].powered = obj[p].powered /\ obj'[p].interfaces = obj[p].interfaces
        /\ p \in configured => p \in configured'
    BY <1>1, <1>6, <1>7, <1>9, <2>1 DEF SlotRemade, ObjectKept
  <2>. QED
    BY <1>8, <1>9, <2>1, <2>2 DEF SlotIsUp
<1>10. CASE n \notin DOMAIN modems
  <2>1. ~IsListed(p)
    <3>1. ASSUME NEW k \in DOMAIN modems, modems[k] = p PROVE k = n
      <4>1. k - 1 = n - 1 /\ k \in Int /\ n \in Int
        BY <1>3, <1>4, <1>5, <1>6, <3>1, LenProperties
      <4>. QED
        BY <4>1
    <3>. QED
      BY <1>10, <3>1 DEF IsListed, ListedIn
  <2>2. /\ sims'[n] = [modem |-> list[n], initializing |-> TRUE, interfaces |-> FALSE]
        /\ ~svc'[n]
        /\ ~obj'[p].powered /\ ~obj'[p].interfaces
    BY <1>7, <1>10, <2>1 DEF SlotRemade, ObjectKept
  <2>. QED
    BY <1>8, <2>2 DEF SlotIsUp
<1>. QED
  BY <1>9, <1>10

(* A property that reaches a slot leaves the others as they were.          *)
LEMMA SlotsUpAfterProperty ==
  ASSUME SlotsInv, NEW p \in Modem, obj[p].there, NEW o, NEW changed, TakesOver(p, o, changed),
         modems' = modems, \A n \in DOMAIN modems : SlotIsUp(n)
  PROVE  \A n \in DOMAIN modems' : SlotIsUp(n)'
<1>. DEFINE k == obj[p].handler
            up == "Powered" \in changed /\ sims[k].initializing /\ o.powered
            i == IF "Interfaces" \in changed THEN o.interfaces ELSE sims[k].interfaces
<1>1. o \in Object /\ o.there /\ o.handler = k /\ PropertiesChanged(p, o, changed)
  BY DEF TakesOver
<1>2. /\ obj' = [obj EXCEPT ![p] = o]
      /\ configured' \in {configured, configured \cup {p}}
      /\ k \in DOMAIN modems /\ modems[k] = p
      /\ sims'[k].interfaces = i
      /\ sims'[k].initializing = (sims[k].initializing /\ ~up)
      /\ svc'[k] = (svc[k] \/ up)
      /\ up /\ ~svc[k] => configured' = configured \cup {p}
      /\ \A m \in DOMAIN modems \ {k} : sims'[m] = sims[m] /\ svc'[m] = svc[m]
  BY <1>1, PropertyReachesSlot
<1>3. \A q \in Modem : obj'[q] = IF q = p THEN o ELSE obj[q]
  BY <1>2 DEF SlotsInv, SlotsTypeOK
<1>4. modems \in Seq(Modem) /\ Increasing(modems) /\ \A q \in Modem : q \in Int
  BY SlotsAssumption DEF SlotsInv, SlotsTypeOK, SlotsMatch, Modem
<1>. SUFFICES ASSUME NEW n \in DOMAIN modems PROVE SlotIsUp(n)'
  OBVIOUS
<1>5. modems[n] \in Modem /\ n \in Int /\ k \in Int
  BY <1>2, <1>4, ElementOfSeq, LenProperties
<1>6. SlotIsUp(n)
  OBVIOUS
<1>7. CASE n = k
  <2>1. obj'[modems'[n]] = o /\ modems'[n] = p
    BY <1>2, <1>3, <1>7
  <2>2. /\ (svc[k] <=> ~sims[k].initializing) /\ (svc[k] => p \in configured)
        /\ obj[p].powered => svc[k]
        /\ sims[k].interfaces <=> obj[p].interfaces
    BY <1>2, <1>6, <1>7 DEF SlotIsUp
  <2>3. /\ svc'[k] <=> ~sims'[k].initializing
        /\ o.powered => svc'[k]
        /\ sims'[k].interfaces <=> o.interfaces
    BY <1>2, <2>2 DEF TakesOver
  <2>4. svc'[k] => p \in configured'
    BY <1>2, <2>2
  <2>. QED
    BY <1>2, <1>7, <2>1, <2>3, <2>4 DEF SlotIsUp
<1>8. CASE n # k
  <2>1. modems[n] # p
    <3>1. n < k \/ k < n
      BY <1>5, <1>8
    <3>2. modems[n] < modems[k] \/ modems[k] < modems[n]
      BY <1>2, <1>4, <3>1 DEF Increasing
    <3>. QED
      BY <1>2, <1>4, <1>5, <3>2
  <2>2. /\ sims'[n] = sims[n] /\ svc'[n] = svc[n] /\ modems'[n] = modems[n]
        /\ obj'[modems[n]] = obj[modems[n]] /\ configured \subseteq configured'
    BY <1>2, <1>3, <1>5, <1>8, <2>1
  <2>. QED
    BY <1>6, <2>2 DEF SlotIsUp
<1>. QED
  BY <1>7, <1>8

(* What ofono and the modems say comes after the rest.                     *)
LEMMA MessagesGrow ==
  ASSUME SlotsInv, OfonoReplies \/ ModemAppears \/ ModemDisappears \/ ModemPowers \/ ModemLosesPower
  PROVE  \E d \in Nat : Grows(d)
<1>1. wire \in Seq(WireMessage)
  BY DEF SlotsInv, WireTypeOK
<1>2. Len(wire) \in Nat /\ DOMAIN wire = 1..Len(wire)
  BY <1>1, LenProperties
<1>3. wire' = wire => Grows(0)
  <2>1. Len(wire) + 0 = Len(wire)
    BY <1>2
  <2>. QED
    BY <1>2, <2>1 DEF Grows
<1>4. CASE OfonoReplies
  <2>1. /\ Head(reqs) = reqs[1] /\ reqs[1].modem \in Modem /\ reqs[1].gen \in Nat
    BY <1>4, RequestIsAnswered DEF Request
  <2>2. PICK b \in BOOLEAN : b = (modem[reqs[1].modem] = "on")
    OBVIOUS
  <2>3. \/ wire' = wire \/ wire' = Append(wire, Message("Modems", 0, 0, Present))
        \/ wire' = Append(wire, Message("Properties", reqs[1].modem, reqs[1].gen, b))
    BY <1>4, <2>1, <2>2 DEF OfonoReplies
  <2>4. /\ IsSent(Message("Modems", 0, 0, Present))
        /\ IsSent(Message("Properties", reqs[1].modem, reqs[1].gen, b))
    BY <2>1, MessageType DEF Kind, Present
  <2>. QED
    BY <1>3, <2>3, <2>4, OneIsNew
<1>5. CASE ModemAppears \/ ModemDisappears
  <2>1. PICK p \in Modem, kind \in {"ModemAdded", "ModemRemoved"} :
           Says(<<Message(kind, p, 0, FALSE)>>)
    BY <1>5 DEF ModemAppears, ModemDisappears, Present
  <2>2. PICK m : m = Message(kind, p, 0, FALSE)
    OBVIOUS
  <2>3. IsSent(m)
    BY <2>2, FirstModem, MessageType DEF Kind
  <2>4. wire' = wire \/ wire' = Append(wire, m)
    <3>1. wire' = wire \/ wire' = wire \o <<m>>
      BY <2>1, <2>2 DEF Says
    <3>. QED
      BY <1>1, <3>1
  <2>. QED
    BY <1>3, <2>3, <2>4, OneIsNew
<1>6. CASE ModemPowers \/ ModemLosesPower
  <2>1. PICK p \in Modem, v \in BOOLEAN,
             first \in {"Powered", "Interfaces"}, second \in {"Powered", "Interfaces"} :
           Says(<<Message(first, p, 0, v), Message(second, p, 0, v)>>)
    BY <1>6 DEF ModemPowers, ModemLosesPower
  <2>2. IsSent(Message(first, p, 0, v)) /\ IsSent(Message(second, p, 0, v))
    BY FirstModem, MessageType DEF Kind
  <2>3. wire' = wire \/ wire' = wire \o <<Message(first, p, 0, v), Message(second, p, 0, v)>>
    BY <2>1 DEF Says
  <2>. QED
    BY <1>3, <2>2, <2>3, TwoAreNew
<1>. QED
  BY <1>4, <1>5, <1>6

-----------------------------------------------------------------------------
(* At first there are no slots.                                            *)
LEMMA InitOrderly == SlotsInit => OrderlyInv
<1>. SUFFICES ASSUME SlotsInit PROVE OrderlyInv
  OBVIOUS
<1>1. ~ofono /\ MaxModem \in Nat
  BY SlotsAssumption DEF SlotsInit
<1>2. orderly => Lowest(Present)
  <2>1. ASSUME orderly, NEW p \in Present, NEW q \in 0..p PROVE q \in Present
    <3>1. p \in Modem /\ modem[p] # "absent" /\ q \in Modem
      BY <1>1, <2>1 DEF Present, Modem
    <3>2. modem[q] # "absent"
      BY <2>1, <3>1 DEF SlotsInit
    <3>. QED
      BY <3>1, <3>2 DEF Present
  <2>. QED
    BY <2>1 DEF Lowest
<1>. QED
  BY <1>1, <1>2 DEF OrderlyInv, InOrderly, SlotsAreUp, Session

(* What ofono and the modems do changes no slot.                           *)
LEMMA EnvironmentKeepsOrder ==
  ASSUME SlotsInv, NewsInv, OrderlyInv,
         \/ OfonoStarts \/ OfonoDies \/ OfonoReplies
         \/ ModemAppears \/ ModemDisappears \/ ModemPowers \/ ModemLosesPower
  PROVE  OrderlyInv'
<1>1. InOrderly'
  <2>1. CASE OfonoStarts \/ OfonoDies
    BY <2>1, OrderAfterOfono DEF OrderlyInv
  <2>2. CASE OfonoReplies
    BY <2>2, OrderAfterReply DEF OrderlyInv
  <2>3. CASE ModemAppears \/ ModemDisappears
    BY <2>3, OrderAfterModems DEF OrderlyInv
  <2>4. CASE ModemPowers \/ ModemLosesPower
    BY <2>4, OrderAfterPower DEF OrderlyInv
  <2>. QED
    BY <2>1, <2>2, <2>3, <2>4
<1>2. UNCHANGED <<modems, obj, sims, svc, configured>>
  BY DEF OfonoStarts, OfonoDies, OfonoReplies, ModemAppears, ModemDisappears, ModemPowers,
         ModemLosesPower, daemon
<1>3. orderly' => orderly
  <2>1. CASE OfonoStarts \/ OfonoDies \/ OfonoReplies \/ ModemPowers \/ ModemLosesPower
    BY <2>1 DEF OfonoStarts, OfonoDies, OfonoReplies, ModemPowers, ModemLosesPower, world
  <2>2. CASE ModemAppears
    BY <2>2 DEF ModemAppears
  <2>3. CASE ModemDisappears
    BY <2>3 DEF ModemDisappears
  <2>. QED
    BY <2>1, <2>2, <2>3
<1>4. Session' => Session
  <2>1. CASE OfonoStarts \/ OfonoDies
    BY <2>1, NewsAfterTurn
  <2>2. CASE ~(OfonoStarts \/ OfonoDies)
    <3>1. ofono' = ofono
      BY <2>2 DEF OfonoReplies, ModemAppears, ModemDisappears, ModemPowers, ModemLosesPower, world
    <3>2. PICK d \in Nat : Grows(d)
      BY <2>2, MessagesGrow
    <3>. QED
      BY <3>1, <3>2, SessionIsKept DEF NewsInv
  <2>. QED
    BY <2>1, <2>2
<1>5. SlotsAreUp'
  <2>1. \A n \in DOMAIN modems : SlotIsUp(n) => SlotIsUp(n)'
    BY <1>2 DEF SlotIsUp
  <2>. QED
    BY <1>2, <1>3, <1>4, <2>1 DEF OrderlyInv, SlotsAreUp
<1>. QED
  BY <1>1, <1>5 DEF OrderlyInv

(* What the daemon does keeps each slot where it was.                      *)
LEMMA DaemonKeepsOrder ==
  ASSUME SlotsInv, SlotsInv', NewsInv, NewsInv', OrderlyInv,
         \/ service_appeared_cb \/ service_vanished_cb
         \/ modem_added_cb \/ modem_removed_cb \/ get_modems_cb
         \/ get_properties_cb \/ powered_changed \/ interfaces_changed
  PROVE  OrderlyInv'
<1>1. PICK kind : Arrives(kind)
  BY DEF service_appeared_cb, service_vanished_cb, modem_added_cb, modem_removed_cb,
         get_modems_cb, get_properties_cb, powered_changed, interfaces_changed
<1>2. UNCHANGED <<ofono, orderly>>
  BY DEF service_appeared_cb, service_vanished_cb, modem_added_cb, modem_removed_cb,
         get_modems_cb, get_properties_cb, powered_changed, interfaces_changed, world
<1>3. CASE service_appeared_cb \/ service_vanished_cb
  <2>1. InOrderly' /\ (Session' => modems' = <<>>)
    BY <1>3, OrderAfterTurn DEF OrderlyInv
  <2>2. modems' = <<>> => DOMAIN modems' = {}
    OBVIOUS
  <2>. QED
    BY <2>1, <2>2 DEF OrderlyInv, SlotsAreUp
<1>4. ASSUME ~(service_appeared_cb \/ service_vanished_cb), orderly', Session'
      PROVE  /\ Lowest(Listed) /\ \A n \in DOMAIN modems : SlotIsUp(n)
             /\ InOrderly' => Lowest(Listed)'
  <2>1. kind # "appeared"
    <3>1. Head(wire).kind = kind
      BY <1>1 DEF Arrives
    <3>2. Head(wire).kind # "appeared"
      BY <1>4 DEF modem_added_cb, modem_removed_cb, get_modems_cb, get_properties_cb,
                  powered_changed, interfaces_changed, Arrives
    <3>. QED
      BY <3>1, <3>2
  <2>2. Session /\ orderly
    BY <1>1, <1>2, <1>4, <2>1, SessionGoesOn DEF NewsInv
  <2>. QED
    BY <1>4, <2>2 DEF OrderlyInv, SlotsAreUp, InOrderly
<1>5. CASE modem_added_cb \/ modem_removed_cb \/ get_modems_cb
  <2>1. ~(service_appeared_cb \/ service_vanished_cb)
    BY <1>5 DEF modem_added_cb, modem_removed_cb, get_modems_cb, service_appeared_cb,
                service_vanished_cb, Arrives
  <2>2. InOrderly'
    BY <1>5, NewsAfterAdded, NewsAfterRemoved, NewsAfterListed, OrderAfterChange DEF OrderlyInv
  <2>3. ASSUME orderly', Session' PROVE \A n \in DOMAIN modems' : SlotIsUp(n)'
    <3>1. /\ Lowest(Listed) /\ Lowest(Listed)'
          /\ \A n \in DOMAIN modems : SlotIsUp(n)
      BY <1>4, <2>1, <2>2, <2>3
    <3>2. CASE UNCHANGED <<modems, obj, sims, svc, configured>>
      BY <3>1, <3>2 DEF SlotIsUp
    <3>3. CASE \E list, objects : Fits(list, objects) /\ modems_changed_cb(list, objects)
      BY <3>1, <3>3, SlotsUpAfterList
    <3>. QED
      BY <1>5, <3>2, <3>3, ListStep
  <2>. QED
    BY <2>2, <2>3 DEF OrderlyInv, SlotsAreUp
<1>6. CASE get_properties_cb \/ powered_changed \/ interfaces_changed
  <2>1. ~(service_appeared_cb \/ service_vanished_cb)
    BY <1>6 DEF get_properties_cb, powered_changed, interfaces_changed, service_appeared_cb,
                service_vanished_cb, Arrives
  <2>2. InOrderly' /\ modems' = modems
    <3>1. modems' = modems
      BY <1>6 DEF get_properties_cb, powered_changed, interfaces_changed
    <3>. QED
      BY <1>6, <3>1, OrderAfterProperty DEF OrderlyInv
  <2>3. ASSUME orderly', Session' PROVE \A n \in DOMAIN modems' : SlotIsUp(n)'
    <3>1. \A n \in DOMAIN modems : SlotIsUp(n)
      BY <1>4, <2>1, <2>3
    <3>2. CASE UNCHANGED <<obj, sims, svc, configured>>
      BY <2>2, <3>1, <3>2 DEF SlotIsUp
    <3>3. CASE \E o, changed : /\ obj[wire[1].modem].there
                                 /\ TakesOver(wire[1].modem, o, changed)
      <4>1. wire[1].modem \in Modem
        BY <1>1, ArrivalShifts
      <4>. QED
        BY <2>2, <3>1, <3>3, <4>1, SlotsUpAfterProperty
    <3>. QED
      BY <1>6, <3>2, <3>3, PropertyStep
  <2>. QED
    BY <2>2, <2>3 DEF OrderlyInv, SlotsAreUp
<1>. QED
  BY <1>3, <1>5, <1>6

(* Every step keeps the order.                                             *)
LEMMA StepsKeepOrder ==
  SlotsInv /\ SlotsInv' /\ NewsInv /\ NewsInv' /\ OrderlyInv /\ [SlotsNext]_slotsVars => OrderlyInv'
<1>. SUFFICES ASSUME SlotsInv, SlotsInv', NewsInv, NewsInv', OrderlyInv, [SlotsNext]_slotsVars
              PROVE  OrderlyInv'
  OBVIOUS
<1>1. CASE UNCHANGED slotsVars
  <2>1. UNCHANGED <<modems, obj, sims, svc, configured, ofono, modem, orderly, wire, reqs>>
    BY <1>1 DEF slotsVars, daemon, world
  <2>2. /\ Present' = Present /\ (Session' <=> Session) /\ Listed' = Listed
        /\ ListIsComing' <=> ListIsComing
    BY <2>1 DEF Present, Session, Occurs, Listed, IsListed, ListedIn, ListIsComing
  <2>3. (Settled => Settled') /\ (AddedNext => AddedNext') /\ (RemovedNext => RemovedNext')
    BY <2>1, <2>2 DEF Settled, AddedNext, RemovedNext, OnlyFirstChanges, Occurs
  <2>4. InOrderly'
    BY <2>1, <2>2, <2>3 DEF OrderlyInv, InOrderly, Lowest, Followed, Outdated
  <2>5. SlotsAreUp'
    BY <2>1, <2>2 DEF OrderlyInv, SlotsAreUp, SlotIsUp
  <2>. QED
    BY <2>4, <2>5 DEF OrderlyInv
<1>. QED
  BY <1>1, DaemonKeepsOrder, EnvironmentKeepsOrder DEF SlotsNext

(* While modems come and go in order, one at a time, the list only grows   *)
(* and shrinks at its end, and the slot of a modem with power is available *)
(* (modem_prop_changed_cb, telephony.c).                                   *)
THEOREM OrderIsAlwaysKept == SlotsSpec => []OrderlyInv
<1>. QED
  BY InitOrderly, StepsKeepOrder, SlotsAlwaysMatch, NewsIsAlwaysComplete, PTL DEF SlotsSpec

(* A slot whose modem has power becomes available, with its interfaces and *)
(* its power state, as long as no modem has to move to another slot.       *)
THEOREM UnmovedSlotsAlwaysComeUp == SlotsSpec => []UnmovedSlotsComeUp
<1>1. ASSUME SlotsInv, NewsInv, OrderlyInv PROVE UnmovedSlotsComeUp
  <2>. SUFFICES ASSUME orderly, Quiet, NEW n \in DOMAIN sims, modem[sims[n].modem] = "on"
                PROVE  /\ ~sims[n].initializing /\ svc[n] /\ sims[n].interfaces
                       /\ sims[n].modem \in configured
    BY DEF UnmovedSlotsComeUp, EverySlotComesUp
  <2>1. Session /\ \A p \in Present : /\ obj[p].powered <=> modem[p] = "on"
                                      /\ obj[p].interfaces <=> modem[p] = "on"
    BY <1>1, AllIsSaid
  <2>2. /\ n \in DOMAIN modems /\ sims[n].modem = modems[n]
        /\ modems \in Seq(Modem)
    BY <1>1 DEF SlotsInv, SlotsMatch, SlotsTypeOK
  <2>3. PICK p \in Modem : p = modems[n]
    BY <2>2, ElementOfSeq, LenProperties
  <2>4. p \in Present
    BY <2>2, <2>3 DEF Present
  <2>5. obj[p].powered /\ obj[p].interfaces /\ SlotIsUp(n)
    BY <1>1, <2>1, <2>2, <2>3, <2>4 DEF OrderlyInv, SlotsAreUp
  <2>. QED
    BY <2>2, <2>3, <2>5 DEF SlotIsUp
<1>. QED
  BY <1>1, SlotsAlwaysMatch, NewsIsAlwaysComplete, OrderIsAlwaysKept, PTL
=============================================================================
