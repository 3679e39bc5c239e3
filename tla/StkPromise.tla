----------------------------- MODULE StkPromise -----------------------------
(***************************************************************************)
(* What the SIM toolkit bookkeeping promises ofono, and nothing of how: a  *)
(* call that came in gets one reply, one ofono takes for that method, and  *)
(* the bookkeeping is not given up while a call still waits.               *)
(***************************************************************************)
EXTENDS StkTypes, Sequences

CONSTANTS Token,     (* D-Bus method invocations of the agent              *)
          Requests,  (* the requests they may carry                        *)
          Replies,   (* the replies that can be sent                       *)
          NoRequest  (* asked[t] before the invocation arrives             *)

VARIABLES open,      (* requests are still taken                           *)
          asked,     (* asked[t]: the request invocation t carries         *)
          wire       (* wire[t]: the replies sent to invocation t          *)

promiseVars == <<open, asked, wire>>

Init ==
  /\ open = TRUE
  /\ asked = [t \in Token |-> NoRequest]
  /\ wire = [t \in Token |-> <<>>]

Waiting(t) == asked[t] # NoRequest /\ wire[t] = <<>>

Arrive(t) ==
  /\ open
  /\ asked[t] = NoRequest
  /\ \E r \in Requests : asked' = [asked EXCEPT ![t] = r]
  /\ UNCHANGED <<open, wire>>

Reply(t) ==
  /\ Waiting(t)
  /\ \E r \in Replies :
       /\ OfonoAccepts(asked[t], r)
       /\ wire' = [wire EXCEPT ![t] = <<r>>]
  /\ UNCHANGED <<open, asked>>

Close ==
  /\ open
  /\ \A t \in Token : ~Waiting(t)
  /\ open' = FALSE
  /\ UNCHANGED <<asked, wire>>

Next == Close \/ \E t \in Token : Arrive(t) \/ Reply(t)

SafeSpec == Init /\ [][Next]_promiseVars

Spec == SafeSpec /\ \A t \in Token : WF_promiseVars(Reply(t))
=============================================================================
