---------------------------- MODULE DeviceStream ----------------------------
(***************************************************************************)
(* What the device manager promises of a device's readings: whatever it    *)
(* does internally, the readings a handler delivers for a device leave on  *)
(* the platform's MQTT topic once each and in the order received, and the  *)
(* only readings that never leave are those held back when the process     *)
(* died.                                                                   *)
(*                                                                         *)
(* A reading is the position it was received at: the k-th reading of a     *)
(* device is k.                                                            *)
(***************************************************************************)
EXTENDS Naturals, Sequences

CONSTANT Devices   \* the device ids

VARIABLES
  received,     \* device -> how many readings the handlers have delivered
  backlog,      \* device -> readings held back, oldest first
  published,    \* device -> readings published, in publication order
  lost          \* device -> readings held back when the process died

vars == <<received, backlog, published, lost>>

Elements(s) == {s[i] : i \in DOMAIN s}

Init ==
  /\ received  = [d \in Devices |-> 0]
  /\ backlog   = [d \in Devices |-> <<>>]
  /\ published = [d \in Devices |-> <<>>]
  /\ lost      = [d \in Devices |-> {}]

Receive(d) == received' = [received EXCEPT ![d] = @ + 1]

(* A reading may overtake nothing: it passes only when nothing is held.    *)
Pass(d) ==
  /\ backlog[d] = <<>>
  /\ Receive(d)
  /\ published' = [published EXCEPT ![d] = Append(@, received[d] + 1)]
  /\ UNCHANGED <<backlog, lost>>

Hold(d) ==
  /\ Receive(d)
  /\ backlog' = [backlog EXCEPT ![d] = Append(@, received[d] + 1)]
  /\ UNCHANGED <<published, lost>>

Drain(d) ==
  /\ published' = [published EXCEPT ![d] = @ \o backlog[d]]
  /\ backlog' = [backlog EXCEPT ![d] = <<>>]
  /\ UNCHANGED <<received, lost>>

Die ==
  /\ lost' = [d \in Devices |-> lost[d] \union Elements(backlog[d])]
  /\ backlog' = [d \in Devices |-> <<>>]
  /\ UNCHANGED <<received, published>>

Next ==
  \/ \E d \in Devices : Pass(d) \/ Hold(d) \/ Drain(d)
  \/ Die

Spec == Init /\ [][Next]_vars

-----------------------------------------------------------------------------
TypeOK ==
  /\ received  \in [Devices -> Nat]
  /\ backlog   \in [Devices -> Seq(Nat)]
  /\ published \in [Devices -> Seq(Nat)]
  /\ lost      \in [Devices -> SUBSET Nat]

Increasing(s) == \A i, j \in DOMAIN s : i < j => s[i] < s[j]

Below(s, t) == \A x \in Elements(s), y \in Elements(t) : x < y

(* Readings of a device are published once each and in the order the       *)
(* handler delivered them.                                                 *)
InOrder == \A d \in Devices : Increasing(published[d])

(* Every reading received is published, still held, or was lost when the   *)
(* process died: none vanishes, and none that was lost is published.       *)
Conserved ==
  \A d \in Devices :
    /\ Elements(published[d]) \union Elements(backlog[d]) \union lost[d]
         = 1 .. received[d]
    /\ lost[d] \intersect Elements(published[d]) = {}

(* The inductive form: what is held continues what was published, and what *)
(* was lost is apart from both.                                            *)
Ordered ==
  \A d \in Devices :
    /\ Increasing(published[d])
    /\ Increasing(backlog[d])
    /\ Below(published[d], backlog[d])

Apart ==
  \A d \in Devices :
    /\ lost[d] \intersect Elements(published[d]) = {}
    /\ lost[d] \intersect Elements(backlog[d]) = {}

Complete ==
  \A d \in Devices :
    Elements(published[d]) \union Elements(backlog[d]) \union lost[d]
      = 1 .. received[d]

IInv == TypeOK /\ Ordered /\ Apart /\ Complete
=============================================================================
