------------------------------- MODULE MCSuite -------------------------------
(* The suite runs TLC checks: which tests are selected, in which order.   *)
EXTENDS Suite

\* Every test the model covers (the benchmarks and the disabled test aside).
AllTests == {TestNames[i] : i \in 1..Len(TestNames)}
=============================================================================
