-------------------------- MODULE OfonoBaseProofs --------------------------
(***************************************************************************)
(* Proofs about OfonoBase, for any finite set of calls and any property.   *)
(* The reference count is, at every moment, the owner's reference and one  *)
(* for every call whose callback has not returned; what the code promises  *)
(* about memory and answers follows.                                       *)
(***************************************************************************)
EXTENDS OfonoBase, FiniteSetTheorems, TLAPS

(* What the count stands for.                                              *)
Counted ==
  /\ base = "none" => awaited = {} /\ ref_count = 0 /\ ~dead
  /\ base = "allocated" =>
       /\ ref_count = (IF dead THEN 0 ELSE 1) + Cardinality(awaited)
       /\ ref_count > 0
  /\ base = "freed" => awaited = {} /\ ref_count = 0 /\ dead

(* Every call is unused, waiting, at its caller's callback, or answered.   *)
Accounted ==
  /\ running # None => running \in awaited
  /\ \A c \in Call : c \in unused => c \notin awaited /\ answers[c] = 0
  /\ \A c \in Call : c \in awaited => answers[c] = (IF running = c THEN 1 ELSE 0)
  /\ \A c \in Call : c \notin unused \cup awaited => answers[c] = 1

IInv == BaseTypeOK /\ Counted /\ Accounted

-----------------------------------------------------------------------------
(* The calls in flight are finitely many.                                  *)
LEMMA PendingFinite ==
  ASSUME BaseTypeOK
  PROVE  IsFiniteSet(awaited) /\ Cardinality(awaited) \in Nat
<1>1. IsFiniteSet(Call \cup {Get})
  BY OfonoBaseAssumption, FS_AddElement
<1>. QED
  BY <1>1, FS_Subset, FS_CardinalityType DEF BaseTypeOK

(* Dropping the reference of a call in flight, or the owner's, keeps the   *)
(* count right and frees the base with the last one.                       *)
LEMMA UnrefCall ==
  ASSUME IInv, NEW c \in awaited, ofono_base_unref, awaited' = awaited \ {c}, dead' = dead
  PROVE  Counted' /\ base' \in {"none", "allocated", "freed"} /\ ref_count' \in Nat
<1>1. /\ IsFiniteSet(awaited) /\ Cardinality(awaited) \in Nat
      /\ IsFiniteSet(awaited \ {c})
      /\ Cardinality(awaited \ {c}) = Cardinality(awaited) - 1
      /\ Cardinality(awaited \ {c}) \in Nat
  BY PendingFinite, FS_RemoveElement, FS_CardinalityType DEF IInv
<1>2. base = "allocated"
  BY DEF IInv, Counted, BaseTypeOK
<1>3. ref_count \in Nat /\ ref_count = (IF dead THEN 0 ELSE 1) + Cardinality(awaited)
  BY <1>2 DEF IInv, Counted, BaseTypeOK
<1>4. CASE ref_count > 1
  BY <1>1, <1>2, <1>3, <1>4 DEF ofono_base_unref, Counted
<1>5. CASE ~(ref_count > 1)
  <2>1. dead /\ Cardinality(awaited \ {c}) = 0
    BY <1>1, <1>3, <1>5 DEF IInv, Counted, BaseTypeOK
  <2>2. awaited \ {c} = {}
    BY <1>1, <2>1, FS_EmptySet
  <2>. QED
    BY <1>1, <1>2, <1>3, <1>5, <2>1, <2>2 DEF ofono_base_unref, Counted
<1>. QED
  BY <1>4, <1>5

(* Init establishes the invariant.                                         *)
LEMMA InitHolds == BaseInit => IInv
<1>. SUFFICES ASSUME BaseInit PROVE IInv
  OBVIOUS
<1>1. BaseTypeOK
  BY DEF BaseInit, BaseTypeOK
<1>2. Counted
  BY DEF BaseInit, Counted
<1>3. Accounted
  BY DEF BaseInit, Accounted
<1>. QED
  BY <1>1, <1>2, <1>3 DEF IInv

(* Every step preserves it.                                                *)
LEMMA StepHolds == IInv /\ [BaseNext]_baseVars => IInv'
<1>. SUFFICES ASSUME IInv, [BaseNext]_baseVars
              PROVE  IInv'
  OBVIOUS
<1>. USE OfonoBaseAssumption
<1>. BaseTypeOK /\ Counted /\ Accounted
  BY DEF IInv
<1>1. CASE ofono_base_create
  <2>1. Cardinality({Get}) = 1 /\ Cardinality({}) = 0
    BY FS_Singleton, FS_EmptySet
  <2>2. BaseTypeOK'
    BY <1>1 DEF ofono_base_create, create_async, create_sync, BaseTypeOK
  <2>3. base' = "allocated" /\ ~dead' /\ ref_count' = 1 + Cardinality(awaited')
    <3>1. CASE create_async
      <4>1. base' = "allocated" /\ ~dead' /\ ref_count' = 2 /\ awaited' = {Get}
        BY <3>1 DEF create_async, Counted
      <4>. QED
        BY <4>1, <2>1
    <3>2. CASE create_sync
      BY <2>1, <3>2 DEF create_sync, Counted
    <3>. QED
      BY <1>1, <3>1, <3>2 DEF ofono_base_create
  <2>5. ref_count' > 0
    BY <1>1 DEF ofono_base_create, create_async, create_sync
  <2>6. Counted'
    BY <2>3, <2>5 DEF Counted
  <2>4. Accounted'
    BY <1>1 DEF ofono_base_create, create_async, create_sync, Accounted, Counted, BaseTypeOK
  <2>. QED
    BY <2>2, <2>4, <2>6 DEF IInv
<1>2. CASE ofono_base_set_property
  <2>1. PICK c \in unused : unused' = unused \ {c} /\ awaited' = awaited \cup {c}
    BY <1>2 DEF ofono_base_set_property
  <2>2. c \in Call /\ c \notin awaited /\ c # None
    BY DEF BaseTypeOK, Accounted
  <2>3. /\ Cardinality(awaited) \in Nat
        /\ Cardinality(awaited \cup {c}) = Cardinality(awaited) + 1
    BY <2>2, PendingFinite, FS_AddElement
  <2>4. BaseTypeOK'
    BY <1>2, <2>1, <2>2 DEF ofono_base_set_property, BaseTypeOK
  <2>5. Counted'
    <3>1. base = "allocated" /\ base' = base /\ ~dead /\ dead' = dead
      BY <1>2 DEF ofono_base_set_property
    <3>2. ref_count \in Nat /\ ref_count = 1 + Cardinality(awaited) /\ ref_count' = ref_count + 1
      BY <1>2, <3>1 DEF ofono_base_set_property, Counted, BaseTypeOK
    <3>3. ref_count' = 1 + Cardinality(awaited')
      BY <2>1, <2>3, <3>2
    <3>. QED
      BY <3>1, <3>2, <3>3 DEF Counted
  <2>6. Accounted'
    BY <1>2, <2>1, <2>2 DEF ofono_base_set_property, Accounted
  <2>. QED
    BY <2>4, <2>5, <2>6 DEF IInv
<1>3. CASE ofono_base_free
  <2>1. Cardinality(awaited) \in Nat /\ (Cardinality(awaited) = 0 <=> awaited = {})
    BY PendingFinite, FS_EmptySet
  <2>2. BaseTypeOK'
    BY <1>3 DEF ofono_base_free, ofono_base_unref, BaseTypeOK, Counted
  <2>3. Counted'
    BY <1>3, <2>1 DEF ofono_base_free, ofono_base_unref, Counted, BaseTypeOK
  <2>4. Accounted'
    BY <1>3 DEF ofono_base_free, Accounted
  <2>. QED
    BY <2>2, <2>3, <2>4 DEF IInv
<1>4. CASE set_property_cb
  <2>1. PICK c \in Call : /\ Due(c) /\ running' = c
                          /\ answers' = [answers EXCEPT ![c] = @ + 1]
                          /\ UNCHANGED <<mem, awaited, unused, known, requests, actual, signals>>
    BY <1>4 DEF set_property_cb
  <2>2. c \in awaited /\ running = None /\ c \notin unused
    BY <2>1 DEF Due, Accounted
  <2>3. BaseTypeOK'
    BY <2>1 DEF BaseTypeOK, mem
  <2>4. Counted'
    BY <2>1 DEF Counted, mem
  <2>5. Accounted'
    BY <2>1, <2>2 DEF Accounted, BaseTypeOK
  <2>. QED
    BY <2>3, <2>4, <2>5 DEF IInv
<1>5. CASE set_property_cb_return
  <2>1. running \in awaited /\ running \in Call
    BY <1>5 DEF set_property_cb_return, Accounted, BaseTypeOK
  <2>2. /\ Counted' /\ base' \in {"none", "allocated", "freed"} /\ ref_count' \in Nat
    BY <1>5, <2>1, UnrefCall DEF set_property_cb_return
  <2>3. BaseTypeOK'
    BY <1>5, <2>2 DEF set_property_cb_return, BaseTypeOK
  <2>4. Accounted'
    BY <1>5, <2>1 DEF set_property_cb_return, Accounted
  <2>. QED
    BY <2>2, <2>3, <2>4 DEF IInv
<1>6. CASE get_properties_cb
  <2>1. Get \in awaited /\ running = None
    BY <1>6 DEF get_properties_cb, Due
  <2>2. /\ Counted' /\ base' \in {"none", "allocated", "freed"} /\ ref_count' \in Nat
    BY <1>6, <2>1, UnrefCall DEF get_properties_cb
  <2>3. BaseTypeOK'
    BY <1>6, <2>2 DEF get_properties_cb, BaseTypeOK
  <2>4. Accounted'
    BY <1>6, <2>1 DEF get_properties_cb, Accounted
  <2>. QED
    BY <2>2, <2>3, <2>4 DEF IInv
<1>7. CASE property_changed_cb \/ Dropped \/ OfonoReplies \/ OfonoChanges \/ UNCHANGED baseVars
  <2>1. UNCHANGED <<base, ref_count, dead, awaited, running, unused, answers>>
    BY <1>7 DEF property_changed_cb, Dropped, OfonoReplies, OfonoChanges, baseVars, mem, bus
  <2>. QED
    BY <2>1 DEF IInv, BaseTypeOK, Counted, Accounted
<1>. QED
  BY <1>1, <1>2, <1>3, <1>4, <1>5, <1>6, <1>7 DEF BaseNext, Callback

(* The invariant holds in every behaviour.                                 *)
THEOREM Invariant == BaseSpec => []IInv
BY InitHolds, StepHolds, PTL DEF BaseSpec

(* Every variable keeps its type; in particular the count of ofonobase.c   *)
(* never drops below zero.                                                 *)
THEOREM TypeCorrect == BaseSpec => []BaseTypeOK
<1>1. IInv => BaseTypeOK
  BY DEF IInv
<1>. QED
  BY <1>1, Invariant, PTL

(* No callback of ofonobase.c touches a freed base, and ofono_base_free    *)
(* and the callbacks between them leak none.                               *)
THEOREM NoUseAfterFreeNoLeak == BaseSpec => []LastOneDrops
<1>1. ASSUME IInv PROVE LastOneDrops
  <2>1. awaited = {} => Cardinality(awaited) = 0
    BY FS_EmptySet
  <2>. QED
    BY <1>1, <2>1 DEF IInv, BaseTypeOK, Counted, LastOneDrops
<1>. QED
  BY <1>1, Invariant, PTL

(* set_property_cb answers the caller of each call once.                   *)
THEOREM OneAnswerEach == BaseSpec => []AnsweredOnce
<1>1. ASSUME IInv PROVE AnsweredOnce
  <2>. SUFFICES ASSUME NEW c \in Call
                PROVE  /\ answers[c] <= 1
                       /\ answers[c] = 1 <=> c \notin unused /\ (c \in awaited => running = c)
    BY DEF AnsweredOnce
  <2>1. CASE c \in unused
    BY <1>1, <2>1 DEF IInv, Accounted
  <2>2. CASE c \notin unused /\ c \in awaited
    BY <1>1, <2>2 DEF IInv, Accounted
  <2>3. CASE c \notin unused /\ c \notin awaited
    BY <1>1, <2>3 DEF IInv, Accounted
  <2>. QED
    BY <2>1, <2>2, <2>3
<1>. QED
  BY <1>1, Invariant, PTL

(* The owner hears nothing after ofono_base_free.                          *)
THEOREM SilentAfterFree == BaseSpec => NothingAfterFree
<1>1. ASSUME IInv, [BaseNext]_baseVars, dead
      PROVE  known' = known
  <2>1. base # "none"
    BY <1>1 DEF IInv, Counted
  <2>. QED
    BY <1>1, <2>1
       DEF BaseNext, Callback, baseVars, mem, bus, ofono_base_create, create_async, create_sync, ofono_base_set_property,
           ofono_base_free, set_property_cb, set_property_cb_return, get_properties_cb,
           property_changed_cb, Dropped, OfonoReplies, OfonoChanges
<1>2. IInv /\ [BaseNext]_baseVars => [dead => known' = known]_baseVars
  BY <1>1
<1>. QED
  BY <1>2, Invariant, PTL DEF BaseSpec, NothingAfterFree

-----------------------------------------------------------------------------
(***************************************************************************)
(* What the owner knows.  A message on the wire that will overwrite it is  *)
(* a change, or the answer of GetProperties; as ofono sends in order, the  *)
(* last of them carries what ofono has.                                    *)
(***************************************************************************)
Message == [kind: {"reply", "signal"}, call: Call \cup {Get, None}, ok: BOOLEAN, value: Value]

Tells(m) == m.kind = "signal" \/ (m.kind = "reply" /\ m.call = Get /\ m.ok)

BusOK ==
  /\ wire \in Seq(Message)
  /\ requests \in Seq([call: Call \cup {Get}, value: Value])
  /\ actual \in Value

LastIsActual ==
  \A i \in DOMAIN wire :
    Tells(wire[i]) /\ (\A j \in DOMAIN wire : Tells(wire[j]) => j <= i) => wire[i].value = actual

KnownOrComing ==
  /\ base = "none" => known = Unknown
  /\ base # "none" /\ ~dead /\ (\A i \in DOMAIN wire : ~Tells(wire[i])) => known \in {actual, Unknown}

KInv == IInv /\ BusOK /\ LastIsActual /\ KnownOrComing

(* What ofono sends last is what holds: a message that tells nothing, or   *)
(* tells the property as it is now, goes to the end of the wire.           *)
LEMMA Sent ==
  ASSUME BusOK, LastIsActual, NEW m \in Message,
         wire' = Append(wire, m), actual' \in Value,
         Tells(m) => m.value = actual', ~Tells(m) => actual' = actual
  PROVE  /\ wire' \in Seq(Message) /\ LastIsActual'
         /\ (\A i \in DOMAIN wire' : ~Tells(wire'[i])) =>
              /\ \A i \in DOMAIN wire : ~Tells(wire[i])
              /\ actual' = actual
<1>1. /\ wire \in Seq(Message) /\ wire' \in Seq(Message) /\ Len(wire) \in Nat
      /\ DOMAIN wire = 1..Len(wire) /\ DOMAIN wire' = 1..(Len(wire) + 1)
      /\ wire'[Len(wire) + 1] = m
      /\ \A i \in DOMAIN wire : i \in DOMAIN wire' /\ wire'[i] = wire[i]
  BY DEF BusOK
<1>2. LastIsActual'
  <2>. SUFFICES ASSUME NEW i \in DOMAIN wire', Tells(wire'[i]),
                       \A j \in DOMAIN wire' : Tells(wire'[j]) => j <= i
                PROVE  wire'[i].value = actual'
    BY DEF LastIsActual
  <2>1. CASE i = Len(wire) + 1
    BY <1>1, <2>1
  <2>2. CASE i # Len(wire) + 1
    <3>1. i \in DOMAIN wire /\ wire'[i] = wire[i] /\ ~ (Len(wire) + 1 <= i)
      BY <1>1, <2>2
    <3>2. ~Tells(m)
      BY <1>1, <3>1
    <3>3. wire[i].value = actual
      BY <1>1, <3>1 DEF LastIsActual
    <3>. QED
      BY <3>1, <3>2, <3>3
  <2>. QED
    BY <2>1, <2>2
<1>3. ASSUME \A i \in DOMAIN wire' : ~Tells(wire'[i])
      PROVE  /\ \A i \in DOMAIN wire : ~Tells(wire[i])
             /\ actual' = actual
  <2>1. ~Tells(m)
    BY <1>1, <1>3
  <2>. QED
    BY <1>1, <1>3, <2>1
<1>. QED
  BY <1>1, <1>2, <1>3

(* The answer to a call, and the change, in either order.                  *)
LEMMA SentTwo ==
  ASSUME BusOK, NEW s \in Message, NEW m \in Message,
         wire' = wire \o <<s, m>> \/ wire' = wire \o <<m, s>>,
         Tells(s), s.value = actual', ~Tells(m)
  PROVE  wire' \in Seq(Message) /\ LastIsActual' /\ \E i \in DOMAIN wire' : Tells(wire'[i])
<1>1. wire \in Seq(Message) /\ Len(wire) \in Nat
  BY DEF BusOK
<1>2. PICK k \in 1..2 : /\ wire' \in Seq(Message) /\ Len(wire') = Len(wire) + 2
                        /\ wire'[Len(wire) + k] = s
                        /\ k = 1 => wire'[Len(wire) + 2] = m
                        /\ k = 2 => wire'[Len(wire) + 1] = m
  <2>1. CASE wire' = wire \o <<s, m>>
    <3>1. /\ wire' \in Seq(Message) /\ Len(wire') = Len(wire) + 2
          /\ wire'[Len(wire) + 1] = s /\ wire'[Len(wire) + 2] = m
      BY <1>1, <2>1
    <3>. QED
      BY <3>1
  <2>2. CASE wire' = wire \o <<m, s>>
    <3>1. /\ wire' \in Seq(Message) /\ Len(wire') = Len(wire) + 2
          /\ wire'[Len(wire) + 1] = m /\ wire'[Len(wire) + 2] = s
      BY <1>1, <2>2
    <3>. QED
      BY <3>1
  <2>. QED
    BY <2>1, <2>2
<1>3. Len(wire) + k \in DOMAIN wire' /\ Tells(wire'[Len(wire) + k])
  BY <1>1, <1>2
<1>4. ASSUME NEW i \in DOMAIN wire', Tells(wire'[i]),
             \A j \in DOMAIN wire' : Tells(wire'[j]) => j <= i
      PROVE  wire'[i].value = actual'
  <2>1. Len(wire) + k <= i /\ i \in Nat /\ i <= Len(wire) + 2
    BY <1>2, <1>3, <1>4
  <2>2. i = Len(wire) + k
    <3>1. CASE k = 1
      <4>1. i # Len(wire) + 2
        BY <1>2, <1>4, <3>1
      <4>. QED
        BY <1>1, <2>1, <3>1, <4>1
    <3>2. CASE k = 2
      BY <1>1, <2>1, <3>2
    <3>. QED
      BY <3>1, <3>2
  <2>. QED
    BY <1>2, <2>2
<1>. QED
  BY <1>2, <1>3, <1>4 DEF LastIsActual

(* The first message is taken off the wire.                                *)
LEMMA Taken ==
  ASSUME BusOK, LastIsActual, wire # <<>>, wire' = Tail(wire), actual' = actual
  PROVE  /\ wire' \in Seq(Message) /\ LastIsActual' /\ Head(wire) \in Message
         /\ (\A i \in DOMAIN wire' : ~Tells(wire'[i])) =>
              IF Tells(Head(wire)) THEN Head(wire).value = actual
              ELSE \A i \in DOMAIN wire : ~Tells(wire[i])
<1>1. /\ wire \in Seq(Message) /\ wire' \in Seq(Message) /\ Len(wire) \in Nat \ {0}
      /\ Head(wire) = wire[1] /\ wire[1] \in Message /\ 1 \in DOMAIN wire
      /\ DOMAIN wire = 1..Len(wire) /\ DOMAIN wire' = 1..(Len(wire) - 1)
      /\ \A i \in DOMAIN wire' : i \in Nat /\ i + 1 \in DOMAIN wire /\ wire'[i] = wire[i + 1]
      /\ \A i \in DOMAIN wire : i \in Nat /\ (i = 1 \/ (i - 1 \in DOMAIN wire'
                                                        /\ wire'[i - 1] = wire[i]))
  BY DEF BusOK
<1>2. LastIsActual'
  <2>. SUFFICES ASSUME NEW i \in DOMAIN wire', Tells(wire'[i]),
                       \A j \in DOMAIN wire' : Tells(wire'[j]) => j <= i
                PROVE  wire'[i].value = actual'
    BY DEF LastIsActual
  <2>1. i \in Nat /\ i >= 1 /\ i + 1 \in DOMAIN wire /\ wire'[i] = wire[i + 1]
    BY <1>1
  <2>2. ASSUME NEW j \in DOMAIN wire, Tells(wire[j])
        PROVE  j <= i + 1
    <3>1. CASE j = 1
      BY <2>1, <3>1
    <3>2. CASE j # 1
      <4>1. j \in Nat /\ j - 1 \in DOMAIN wire' /\ wire'[j - 1] = wire[j]
        BY <1>1, <3>2
      <4>2. j - 1 <= i
        BY <2>2, <4>1
      <4>. QED
        BY <2>1, <4>1, <4>2
    <3>. QED
      BY <3>1, <3>2
  <2>3. wire[i + 1].value = actual
    BY <2>1, <2>2 DEF LastIsActual
  <2>. QED
    BY <2>1, <2>3
<1>3. ASSUME \A i \in DOMAIN wire' : ~Tells(wire'[i])
      PROVE  IF Tells(Head(wire)) THEN Head(wire).value = actual
             ELSE \A i \in DOMAIN wire : ~Tells(wire[i])
  <2>1. \A i \in DOMAIN wire : i # 1 => ~Tells(wire[i])
    BY <1>1, <1>3
  <2>2. CASE Tells(Head(wire))
    <3>1. \A j \in DOMAIN wire : Tells(wire[j]) => j <= 1
      BY <1>1, <2>1
    <3>. QED
      BY <1>1, <2>2, <3>1 DEF LastIsActual
  <2>3. CASE ~Tells(Head(wire))
    BY <1>1, <2>1, <2>3
  <2>. QED
    BY <2>2, <2>3
<1>. QED
  BY <1>1, <1>2, <1>3

(* Every step keeps that.                                                  *)
LEMMA KnownStep ==
  ASSUME KInv, IInv', [BaseNext]_baseVars
  PROVE  KInv'
<1>. USE DEF KInv
<1>. USE OfonoBaseAssumption
<1>1. CASE create_async
  <2>1. requests' \in Seq([call: Call \cup {Get}, value: Value])
    BY <1>1 DEF create_async, BusOK
  <2>. QED
    BY <1>1, <2>1 DEF create_async, BusOK, LastIsActual, KnownOrComing
<1>2. CASE create_sync
  BY <1>2 DEF create_sync, BusOK, LastIsActual, KnownOrComing
<1>3. CASE ofono_base_set_property
  <2>1. requests' \in Seq([call: Call \cup {Get}, value: Value])
    <3>1. PICK c \in unused, v \in Value : requests' = Append(requests, [call |-> c, value |-> v])
      BY <1>3 DEF ofono_base_set_property
    <3>2. [call |-> c, value |-> v] \in [call: Call \cup {Get}, value: Value]
      BY DEF IInv, BaseTypeOK
    <3>. QED
      BY <3>1, <3>2 DEF BusOK
  <2>. QED
    BY <1>3, <2>1 DEF ofono_base_set_property, BusOK, LastIsActual, KnownOrComing
<1>4. CASE ofono_base_free
  BY <1>4 DEF ofono_base_free, ofono_base_unref, bus, BusOK, LastIsActual, KnownOrComing
<1>5. CASE set_property_cb
  <2>1. PICK c \in Call : Due(c)
    BY <1>5 DEF set_property_cb
  <2>2. UNCHANGED <<mem, known, requests, actual>>
    BY <1>5 DEF set_property_cb
  <2>3. CASE dead /\ UNCHANGED wire
    BY <2>2, <2>3 DEF mem, BusOK, LastIsActual, KnownOrComing
  <2>4. CASE ~dead /\ wire # <<>> /\ Head(wire).kind = "reply" /\ Head(wire).call = c
             /\ wire' = Tail(wire)
    <3>1. ~Tells(Head(wire))
      BY <2>4 DEF Tells
    <3>2. /\ wire' \in Seq(Message) /\ LastIsActual'
          /\ (\A i \in DOMAIN wire' : ~Tells(wire'[i])) => \A i \in DOMAIN wire : ~Tells(wire[i])
      BY <2>2, <2>4, <3>1, Taken
    <3>. QED
      BY <2>2, <3>2 DEF mem, BusOK, KnownOrComing
  <2>. QED
    BY <2>1, <2>3, <2>4 DEF Due
<1>6. CASE set_property_cb_return
  <2>1. base # "none" /\ base' # "none" /\ UNCHANGED <<dead, known, bus>>
    BY <1>6 DEF set_property_cb_return, ofono_base_unref, IInv, BaseTypeOK, Counted, Accounted
  <2>. QED
    BY <2>1 DEF bus, BusOK, LastIsActual, KnownOrComing
<1>7. CASE get_properties_cb
  <2>1. /\ Get \in awaited /\ UNCHANGED <<dead, requests, actual>>
        /\ known' = IF ~dead /\ Head(wire).ok THEN Head(wire).value ELSE known
        /\ base # "none" /\ base' # "none"
    BY <1>7 DEF get_properties_cb, ofono_base_unref, Due, IInv, Counted
  <2>2. CASE dead /\ UNCHANGED wire
    BY <2>1, <2>2 DEF BusOK, LastIsActual, KnownOrComing
  <2>3. CASE ~dead /\ wire # <<>> /\ Head(wire).kind = "reply" /\ Head(wire).call = Get
             /\ wire' = Tail(wire)
    <3>1. Tells(Head(wire)) <=> Head(wire).ok
      BY <2>3 DEF Tells
    <3>2. /\ wire' \in Seq(Message) /\ LastIsActual'
          /\ (\A i \in DOMAIN wire' : ~Tells(wire'[i])) =>
               IF Tells(Head(wire)) THEN Head(wire).value = actual
               ELSE \A i \in DOMAIN wire : ~Tells(wire[i])
      BY <2>1, <2>3, Taken
    <3>. QED
      BY <2>1, <2>3, <3>1, <3>2 DEF BusOK, KnownOrComing
  <2>. QED
    BY <1>7, <2>2, <2>3 DEF get_properties_cb, Due
<1>8. CASE property_changed_cb
  <2>1. /\ base = "allocated" /\ wire # <<>> /\ Head(wire).kind = "signal" /\ wire' = Tail(wire)
        /\ known' = Head(wire).value /\ UNCHANGED <<mem, requests, actual>>
    BY <1>8 DEF property_changed_cb, Signalled
  <2>2. Tells(Head(wire))
    BY <2>1 DEF Tells
  <2>3. /\ wire' \in Seq(Message) /\ LastIsActual'
        /\ (\A i \in DOMAIN wire' : ~Tells(wire'[i])) => Head(wire).value = actual
    BY <2>1, <2>2, Taken
  <2>. QED
    BY <2>1, <2>3 DEF mem, BusOK, KnownOrComing
<1>9. CASE Dropped
  <2>1. base # "none" /\ dead /\ wire # <<>> /\ wire' = Tail(wire)
        /\ UNCHANGED <<mem, known, requests, actual>>
    BY <1>9 DEF Dropped
  <2>2. wire' \in Seq(Message) /\ LastIsActual'
    BY <2>1, Taken
  <2>. QED
    BY <2>1, <2>2 DEF mem, BusOK, KnownOrComing
<1>10. CASE OfonoReplies
  <2>. DEFINE r == Head(requests)
  <2>1. /\ requests # <<>> /\ requests' = Tail(requests) /\ UNCHANGED <<mem, known>>
        /\ \/ wire' = Append(wire, Replied(r.call, FALSE, actual)) /\ UNCHANGED actual
           \/ r.call = Get /\ wire' = Append(wire, Replied(Get, TRUE, actual)) /\ UNCHANGED actual
           \/ /\ r.call # Get /\ actual' = r.value
              /\ wire' \in {wire \o <<Signal(r.value), Replied(r.call, TRUE, r.value)>>,
                            wire \o <<Replied(r.call, TRUE, r.value), Signal(r.value)>>}
    BY <1>10 DEF OfonoReplies
  <2>2. r.call \in Call \cup {Get} /\ r.value \in Value
        /\ requests' \in Seq([call: Call \cup {Get}, value: Value])
    <3>. DEFINE S == [call: Call \cup {Get}, value: Value]
    <3>1. r \in S => r.call \in Call \cup {Get} /\ r.value \in Value
      OBVIOUS
    <3>2. requests \in Seq(S)
      BY DEF BusOK
    <3>. HIDE DEF S
    <3>3. r \in S /\ requests' \in Seq(S)
      BY <2>1, <3>2
    <3>. QED
      BY <3>1, <3>3 DEF S
  <2>. HIDE DEF r
  <2>3. CASE wire' = Append(wire, Replied(r.call, FALSE, actual)) /\ UNCHANGED actual
    <3>. DEFINE m == Replied(r.call, FALSE, actual)
    <3>1. m \in Message /\ ~Tells(m)
      BY <2>2 DEF Replied, Message, Tells, BusOK
    <3>2. wire' = Append(wire, m) /\ actual' \in Value
      BY <2>3 DEF BusOK
    <3>. HIDE DEF m
    <3>3. /\ wire' \in Seq(Message) /\ LastIsActual'
          /\ (\A i \in DOMAIN wire' : ~Tells(wire'[i])) => \A i \in DOMAIN wire : ~Tells(wire[i])
      BY <2>3, <3>1, <3>2, Sent
    <3>. QED
      BY <2>1, <2>2, <2>3, <3>2, <3>3 DEF mem, BusOK, KnownOrComing
  <2>4. CASE r.call = Get /\ wire' = Append(wire, Replied(Get, TRUE, actual)) /\ UNCHANGED actual
    <3>. DEFINE m == Replied(Get, TRUE, actual)
    <3>1. m \in Message /\ m.value = actual
      BY <2>2 DEF Replied, Message, BusOK
    <3>2. wire' = Append(wire, m) /\ actual' \in Value
      BY <2>4 DEF BusOK
    <3>. HIDE DEF m
    <3>3. /\ wire' \in Seq(Message) /\ LastIsActual'
          /\ (\A i \in DOMAIN wire' : ~Tells(wire'[i])) => \A i \in DOMAIN wire : ~Tells(wire[i])
      BY <2>4, <3>1, <3>2, Sent
    <3>. QED
      BY <2>1, <2>2, <2>4, <3>2, <3>3 DEF mem, BusOK, KnownOrComing
  <2>5. CASE /\ r.call # Get /\ actual' = r.value
             /\ wire' \in {wire \o <<Signal(r.value), Replied(r.call, TRUE, r.value)>>,
                           wire \o <<Replied(r.call, TRUE, r.value), Signal(r.value)>>}
    <3>. DEFINE s == Signal(r.value)
                m == Replied(r.call, TRUE, r.value)
    <3>1. /\ s \in Message /\ Tells(s) /\ s.value = actual'
          /\ m \in Message /\ ~Tells(m) /\ actual' \in Value
      BY <2>2, <2>5 DEF Replied, Signal, Message, Tells
    <3>2. wire' = wire \o <<s, m>> \/ wire' = wire \o <<m, s>>
      BY <2>5
    <3>. HIDE DEF m, s
    <3>3. /\ wire' \in Seq(Message) /\ LastIsActual' /\ \E i \in DOMAIN wire' : Tells(wire'[i])
      BY <3>1, <3>2, SentTwo
    <3>. QED
      BY <2>1, <2>2, <3>1, <3>3 DEF mem, BusOK, KnownOrComing
  <2>. QED
    BY <2>1, <2>3, <2>4, <2>5
<1>11. CASE OfonoChanges
  <2>1. PICK v \in Value : actual' = v /\ wire' = Append(wire, Signal(v))
    BY <1>11 DEF OfonoChanges
  <2>. DEFINE m == Signal(v)
  <2>2. m \in Message /\ Tells(m) /\ m.value = v /\ wire' = Append(wire, m)
    BY <2>1 DEF Signal, Message, Tells
  <2>3. UNCHANGED <<mem, known, requests>>
    BY <1>11 DEF OfonoChanges
  <2>. HIDE DEF m
  <2>4. /\ wire' \in Seq(Message) /\ LastIsActual'
        /\ (\A i \in DOMAIN wire' : ~Tells(wire'[i])) =>
             (\A i \in DOMAIN wire : ~Tells(wire[i])) /\ actual' = actual
    BY <2>1, <2>2, Sent
  <2>. QED
    BY <2>1, <2>3, <2>4 DEF mem, BusOK, KnownOrComing
<1>12. CASE UNCHANGED baseVars
  BY <1>12 DEF baseVars, mem, bus, BusOK, LastIsActual, KnownOrComing
<1>. QED
  BY <1>1, <1>2, <1>3, <1>4, <1>5, <1>6, <1>7, <1>8, <1>9, <1>10, <1>11, <1>12
     DEF BaseNext, Callback, ofono_base_create

(* Whenever nothing is under way the owner of the object knows the         *)
(* property as ofono has it, or was never told: whatever was set, changed, *)
(* failed and in whatever order ofono said so.                             *)
THEOREM OwnerIsCurrent == BaseSpec => []QuietMeansCurrent
<1>1. BaseInit => KInv
  <2>1. BaseInit => BusOK /\ LastIsActual /\ KnownOrComing
    BY DEF BaseInit, BusOK, LastIsActual, KnownOrComing
  <2>. QED
    BY <2>1, InitHolds DEF KInv
<1>2. KInv /\ [BaseNext]_baseVars => KInv'
  BY KnownStep, StepHolds DEF KInv
<1>3. KInv => QuietMeansCurrent
  BY DEF KInv, KnownOrComing, QuietMeansCurrent
<1>. QED
  BY <1>1, <1>2, <1>3, PTL DEF BaseSpec
=============================================================================
