--------------------------- MODULE MCRequestLedger ---------------------------
(* Small instances of RequestLedger for TLC, with one model and small amounts. *)
EXTENDS RequestLedger, TLC

CONSTANTS a1, a2

TwoAccounts == {a1, a2}
Card == "sol" :> [input |-> 2, cached |-> 1, written |-> 3, output |-> 5]

Of(input, cached, written, output) ==
    [model |-> "sol",
     usage |-> [input |-> input, cached |-> cached, written |-> written, output |-> output]]

\* An exact request, one in long context that did not report its writes, and one whose
\* counters contradict each other.
ThreeRequests == {Of(3, 1, 1, 1), Of(5, 1, None, 1), Of(1, 1, 0, 0)}

ThreeOldLogs ==
    {<<[account |-> a1, request |-> r], [account |-> a2, request |-> s],
       [account |-> a1, request |-> t]>> : r, s, t \in {Of(5, 1, None, 1), Of(1, 1, 0, 0)}}
=============================================================================
