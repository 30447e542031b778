--------------------------- MODULE MCTokenRefresh ---------------------------
(* A small instance of TokenRefresh for TLC. *)
EXTENDS TokenRefresh, TLC

CONSTANTS w1, w2, l1, l2

TwoWorkers == {w1, w2}
OneRequest == {w1}
TwoLocks == {l1, l2}
=============================================================================
