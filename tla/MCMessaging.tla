---------------------------- MODULE MCMessaging -----------------------------
(* The api server asks the device manager twice for the same thing and     *)
(* sends the stream manager two messages; the device manager passes on     *)
(* a message of a peer gateway, under the name of no service.              *)
EXTENDS Messaging, TLC

CONSTANTS api, ssm, dev, q1, q2, m1, m2, peer

MCHome == [c \in Calls |-> IF c = peer THEN dev ELSE api]
MCSender == [c \in Calls |-> IF c = peer THEN "ble-controller" ELSE api]
MCRecipient == [c \in Calls |-> IF c \in {q1, q2} THEN dev ELSE ssm]
MCEvent == [c \in Calls |-> IF c \in {q1, q2} THEN "get-devices" ELSE "register-topic"]
=============================================================================
