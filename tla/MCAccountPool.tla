---------------------------- MODULE MCAccountPool ----------------------------
(* Small instances of AccountPool for TLC. *)
EXTENDS AccountPool, TLC

CONSTANTS a1, a2, c1, c2

TwoAccounts == {a1, a2}
OneClient == {c1}
TwoClients == {c1, c2}
AnyKind == [c \in Clients |-> Kinds]
AnyAccountAndClient == Permutations(Accounts) \cup Permutations(Clients)

\* The awaits at which a dropped request is accounted for.
SafePoints == {"select", "sticky", "choose", "leased", "settling", "streaming"}
AcquiredToo == SafePoints \cup {"acquired"}
====
