--------------------------- MODULE MCSmartRouting ---------------------------
(* A small instance of SmartRouting for TLC. *)
EXTENDS SmartRouting, TLC

CONSTANTS a1, a2

TwoAccounts == {a1, a2}
ByAge == a1 :> 1 @@ a2 :> 2

Of(used, length, left) == [used |-> used, length |-> length, left |-> left]

\* Nothing; a short window ahead of its pace; a long and a full one; a window without times.
FourReports ==
    {{}, {Of(60, 2, 2)}, {Of(20, 4, 2), Of(100, 2, 1)}, {Of(50, None, None)}}
=============================================================================
