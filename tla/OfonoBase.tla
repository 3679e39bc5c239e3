----------------------------- MODULE OfonoBase -----------------------------
(***************************************************************************)
(* ofonobase.c: the object behind every ofono interface.  It reads the     *)
(* properties once, follows PropertyChanged, sets properties, and has to   *)
(* outlive the D-Bus calls in flight when the interface disappears.        *)
(* One base of one interface with one property; what ofono sends arrives   *)
(* in the order sent.                                                      *)
(***************************************************************************)
EXTENDS Integers, Sequences, FiniteSets

CONSTANTS
  Call,         (* the set_property calls the owner may make               *)
  Get,          (* the GetProperties call                                  *)
  Value,        (* values of the property                                  *)
  None,         (* no call                                                 *)
  Unknown,      (* what the owner knows before it is told                  *)
  MaxSignals    (* bound: changes ofono makes on its own                   *)

ASSUME OfonoBaseAssumption ==
  /\ IsFiniteSet(Call) /\ Get \notin Call /\ None \notin Call \cup {Get}
  /\ Unknown \notin Value
  /\ MaxSignals \in Nat

VARIABLES
  base,      (* "none", "allocated", or "freed"                            *)
  ref_count, dead,
  awaited,   (* calls whose callback has not run: they point at the base   *)
  running,   (* the set_property call whose callback is at the caller's cb *)
  unused,    (* set_property calls not made yet                            *)
  answers,   (* answers[c]: how often the caller of c was called back      *)
  known,     (* the property as update_property last gave it to the owner  *)
  requests,  (* calls on their way to ofono                                *)
  wire,      (* replies and signals on their way back                      *)
  actual,    (* the property in ofono                                      *)
  signals

mem == <<base, ref_count, dead>>
bus == <<requests, wire, actual, signals>>
baseVars == <<mem, awaited, running, unused, answers, known, bus>>

BaseInit ==
  /\ base = "none" /\ ref_count = 0 /\ dead = FALSE
  /\ awaited = {} /\ running = None /\ unused = Call
  /\ answers = [c \in Call |-> 0]
  /\ known = Unknown /\ actual \in Value
  /\ requests = <<>> /\ wire = <<>> /\ signals = 0

Replied(c, ok, v) == [kind |-> "reply", call |-> c, ok |-> ok, value |-> v]
Signal(v)       == [kind |-> "signal", call |-> None, ok |-> TRUE, value |-> v]

(* The owner's calls are made when no callback is on the stack or from     *)
(* within the caller's cb: single-threaded, they cannot run in between.    *)
(* The interface has an asynchronous GetProperties ...                     *)
create_async ==
  /\ base = "none" /\ base' = "allocated"
  /\ ref_count' = 2
  /\ awaited' = {Get}
  /\ requests' = Append(requests, [call |-> Get, value |-> actual])
  /\ UNCHANGED <<dead, running, unused, answers, known, wire, actual, signals>>

(* ... or only a blocking one, which overtakes the signals on the wire.    *)
create_sync ==
  /\ base = "none" /\ base' = "allocated"
  /\ ref_count' = 1
  /\ known' \in {actual, known}          \* read, or the call failed
  /\ UNCHANGED <<dead, awaited, running, unused, answers, requests, wire, actual, signals>>

ofono_base_create == create_async \/ create_sync

\* Mutant: the call in flight does not hold a reference.
ofono_base_set_property_noref ==
  /\ base = "allocated" /\ ~dead
  /\ \E c \in unused, v \in Value :
       /\ unused' = unused \ {c}
       /\ awaited' = awaited \cup {c}
       /\ requests' = Append(requests, [call |-> c, value |-> v])
  /\ UNCHANGED <<mem, running, answers, known, wire, actual, signals>>

ofono_base_set_property ==
  /\ base = "allocated" /\ ~dead
  /\ \E c \in unused, v \in Value :
       /\ unused' = unused \ {c}
       /\ awaited' = awaited \cup {c}
       /\ requests' = Append(requests, [call |-> c, value |-> v])
  /\ ref_count' = ref_count + 1
  /\ UNCHANGED <<base, dead, running, answers, known, wire, actual, signals>>

ofono_base_unref ==
  /\ ref_count' = ref_count - 1
  /\ base' = IF ref_count > 1 THEN base ELSE "freed"

(* The signal is disconnected and the calls in flight are cancelled: their *)
(* callbacks come all the same, and find the dead flag.                    *)
ofono_base_free ==
  /\ base = "allocated" /\ ~dead
  /\ dead' = TRUE
  /\ ofono_base_unref
  /\ UNCHANGED <<awaited, running, unused, answers, known, bus>>

(* A call's callback is due when its reply is here, or when it has been    *)
(* cancelled; the reply of a cancelled call is dropped.                    *)
Due(c) ==
  /\ running = None /\ c \in awaited
  /\ \/ dead /\ UNCHANGED wire
     \/ /\ ~dead /\ wire # <<>> /\ Head(wire).kind = "reply" /\ Head(wire).call = c
        /\ wire' = Tail(wire)

\* Mutant: the answer is not given when the interface is gone.
set_property_cb_drops ==
  \E c \in Call :
    /\ Due(c)
    /\ running' = c
    /\ answers' = IF dead THEN answers ELSE [answers EXCEPT ![c] = @ + 1]
    /\ UNCHANGED <<mem, awaited, unused, known, requests, actual, signals>>

\* Mutant: having answered that the interface is gone it goes on.
set_property_cb_goes_on ==
  \E c \in Call :
    /\ Due(c)
    /\ running' = c
    /\ answers' = [answers EXCEPT ![c] = @ + (IF dead THEN 2 ELSE 1)]
    /\ UNCHANGED <<mem, awaited, unused, known, requests, actual, signals>>

(* Up to the caller's cb, which may use or free the base in turn.          *)
set_property_cb ==
  \E c \in Call :
    /\ Due(c)
    /\ running' = c
    /\ answers' = [answers EXCEPT ![c] = @ + 1]
    /\ UNCHANGED <<mem, awaited, unused, known, requests, actual, signals>>

(* The rest of it.                                                         *)
set_property_cb_return ==
  /\ running # None
  /\ running' = None
  /\ awaited' = awaited \ {running}
  /\ ofono_base_unref
  /\ UNCHANGED <<dead, unused, answers, known, bus>>

get_properties_cb ==
  /\ Due(Get)
  /\ known' = IF ~dead /\ Head(wire).ok THEN Head(wire).value ELSE known
  /\ awaited' = awaited \ {Get}
  /\ ofono_base_unref
  /\ UNCHANGED <<dead, running, unused, answers, requests, actual, signals>>

Signalled ==
  /\ running = None
  /\ wire # <<>> /\ Head(wire).kind = "signal"
  /\ wire' = Tail(wire)

\* Mutant: a change is taken for the echo of our own call and left out.
property_changed_cb_echo ==
  /\ Signalled /\ base = "allocated" /\ ~dead
  /\ known' = IF awaited = {} THEN Head(wire).value ELSE known
  /\ UNCHANGED <<mem, awaited, running, unused, answers, requests, actual, signals>>

property_changed_cb ==
  /\ Signalled /\ base = "allocated" /\ ~dead
  /\ known' = Head(wire).value
  /\ UNCHANGED <<mem, awaited, running, unused, answers, requests, actual, signals>>

(* What arrives for nobody: the signal is not connected, or the call was   *)
(* cancelled.                                                              *)
Dropped ==
  /\ running = None /\ base # "none" /\ dead /\ wire # <<>>
  /\ wire' = Tail(wire)
  /\ UNCHANGED <<mem, awaited, running, unused, answers, known, requests, actual, signals>>

(* ofono takes a call, which may fail, and says what it has changed before *)
(* or after it replies.                                                    *)
OfonoReplies ==
  /\ requests # <<>>
  /\ requests' = Tail(requests)
  /\ LET r == Head(requests)
     IN  \/ /\ wire' = Append(wire, Replied(r.call, FALSE, actual))
            /\ UNCHANGED actual
         \/ /\ r.call = Get
            /\ wire' = Append(wire, Replied(Get, TRUE, actual))
            /\ UNCHANGED actual
         \/ /\ r.call # Get
            /\ actual' = r.value
            /\ wire' \in {wire \o <<Signal(r.value), Replied(r.call, TRUE, r.value)>>,
                          wire \o <<Replied(r.call, TRUE, r.value), Signal(r.value)>>}
  /\ UNCHANGED <<mem, awaited, running, unused, answers, known, signals>>

OfonoChanges ==
  /\ signals < MaxSignals
  /\ signals' = signals + 1
  /\ \E v \in Value \ {actual} : actual' = v /\ wire' = Append(wire, Signal(v))
  /\ UNCHANGED <<mem, awaited, running, unused, answers, known, requests>>

Callback ==
  set_property_cb \/ set_property_cb_return \/ get_properties_cb \/ property_changed_cb

BaseNext ==
  \/ ofono_base_create \/ ofono_base_set_property \/ ofono_base_free
  \/ Callback \/ Dropped
  \/ OfonoReplies \/ OfonoChanges

BaseSpec == BaseInit /\ [][BaseNext]_baseVars

(* The main loop dispatches what is due, ofono answers its calls.          *)
BaseFairness == WF_baseVars(Callback) /\ WF_baseVars(OfonoReplies)

-----------------------------------------------------------------------------
(* Every variable keeps its type.                                          *)
BaseTypeOK ==
  /\ base \in {"none", "allocated", "freed"}
  /\ ref_count \in Nat /\ dead \in BOOLEAN
  /\ awaited \subseteq Call \cup {Get}
  /\ running \in Call \cup {None}
  /\ unused \subseteq Call
  /\ answers \in [Call -> Nat]

(* "Keep the base alive for as long as a call can still call back and let  *)
(* the last one drop it": the memory is released once the owner has let go *)
(* and no callback is left that has not returned, and not before.          *)
LastOneDrops == base = "freed" <=> dead /\ awaited = {}

(* No caller of set_property is answered twice, nor after its call was     *)
(* forgotten; "still answer the caller" is EveryCallIsAnswered.            *)
AnsweredOnce ==
  \A c \in Call :
    /\ answers[c] <= 1
    /\ answers[c] = 1 <=> c \notin unused /\ (c \in awaited => running = c)

(* When nothing is under way the owner knows the property as ofono has it, *)
(* provided it was ever told: a failed GetProperties is not repeated.      *)
QuietMeansCurrent ==
  base = "allocated" /\ ~dead /\ running = None /\ requests = <<>> /\ wire = <<>>
    => known \in {actual, Unknown}

(* The owner hears nothing of an interface it has let go.                  *)
NothingAfterFree == [][dead => known' = known]_baseVars

(* Every set_property is answered, also when the interface disappears with *)
(* the call in flight.                                                     *)
EveryCallIsAnswered == []<>(\A c \in Call : c \in unused \/ answers[c] = 1)
=============================================================================
