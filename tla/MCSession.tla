----------------------------- MODULE MCSession ------------------------------
(***************************************************************************)
(* Session with small topic tables for TLC: two publishers around a        *)
(* subscriber, so that index order and id order differ, and a second       *)
(* subscriber whose QoS the agent refuses; and a subscriber and a          *)
(* publisher for the runs with faults.                                     *)
(***************************************************************************)
EXTENDS Session, TLC

Table4 == 0 :> 127 @@ 1 :> 1 @@ 2 :> 128 @@ 3 :> 0
Qos4 == 0 :> 0 @@ 1 :> 255 @@ 2 :> 1 @@ 3 :> 5

Table2 == 0 :> 0 @@ 1 :> 127
Qos2 == 0 :> 0 @@ 1 :> 5
QosRejected == 0 :> 0 @@ 1 :> 6
=============================================================================
