------------------------------ MODULE WanData ------------------------------
(***************************************************************************)
(* What the two halves of struct ofono_wan_data (wan.c) share: WanSet sets *)
(* it by what ConnMan reports, WanStatus reports it to the subscribers.    *)
(***************************************************************************)
EXTENDS Integers, FiniteSets

VARIABLE
  wan_disabled    (* the current cellular service is not to be used        *)
=============================================================================
