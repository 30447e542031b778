--------------------------- MODULE MCSessionRoutes ---------------------------
(* Small instances of SessionRoutes for TLC. *)
EXTENDS SessionRoutes, TLC

CONSTANTS k1, k2, k3, a1, a2, q1

TwoKeys == {k1, k2}
ThreeKeys == {k1, k2, k3}
NoSessionIds == {}
OneAccount == {a1}
TwoAccounts == {a1, a2}
NoneOrOneLive == {{}, OneAccount}
NoneLive == {{}}
OneRequest == {q1}
NoRequests == {}

\* What a retry does to the tables a command can do too, so leaving the scheduler
\* out loses no reachable table contents; neither does leaving out the restart,
\* which is then the end of the one request.
SpecWithoutRetries ==
    Init /\ [][\/ RequestStep
               \/ CommandStep
               \/ EnvironmentStep]_vars

\* One client of session k1, whose responses add more keys to its tree than one
\* command may name, and an operator who rebalances it.
LongSession ==
    /\ Init
    /\ affinity = [k \in Keys |-> NoAffinity]
    /\ [][\/ \E q \in Requests :
              \/ Resolve(q, {k1})
              \/ Select(q)
              \/ \E k \in Keys \ {k1} : Bind(q, {k})
          \/ Command(k1, {k1}, "rebalance", NoAccount, {})
          \/ RetryStep
          \/ EligibilityChanges]_vars
    /\ Fairness

TwoKeySymmetry == Permutations(TwoKeys) \cup Permutations(TwoAccounts)
=============================================================================
