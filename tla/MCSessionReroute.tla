-------------------------- MODULE MCSessionReroute --------------------------
(* Small instances of SessionReroute for TLC. *)
EXTENDS SessionReroute, TLC

CONSTANTS k1, k2, b1, b2

OneBridge == {b1}
TwoBridges == {b1, b2}
TwoClients == (b1 :> {k1}) @@ (b2 :> {k1, k2})
TwoKeys == {k1, k2}
FirstKey == [b \in Bridges |-> {k1}]
NoKeys == {}
SecondKey == {k2}
AnyPayload == SUBSET Keys
====
