---------------------------- MODULE PacketChannel ----------------------------
(***************************************************************************)
(* What OTTDProtocol and Client promise of one direction of a connection:  *)
(* each packet that was sent is received, once, whole and in order,        *)
(* however TCP cuts the bytes.                                             *)
(***************************************************************************)
EXTENDS Naturals, Sequences

CONSTANT Packets

VARIABLES sent, received

Init == sent = <<>> /\ received = <<>>

Send == \E p \in Packets : sent' = Append(sent, p) /\ UNCHANGED received

Receive ==
  /\ Len(received) < Len(sent)
  /\ received' = Append(received, sent[Len(received) + 1])
  /\ UNCHANGED sent

Next == Send \/ Receive
Spec == Init /\ [][Next]_<<sent, received>>
FairSpec == Spec /\ WF_<<sent, received>>(Receive)
=============================================================================
