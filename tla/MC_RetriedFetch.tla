-------------------------- MODULE MC_RetriedFetch --------------------------
(* A small instance of the retry loop for TLC: a tick is 50 ms.            *)
EXTENDS RetriedFetch

Policy(attempts, base, max) == [attempts |-> attempts, base |-> base, max |-> max]

\* retry.Default.
DefaultPolicy == Policy(3, 1, 4)

\* A policy of zeroes, a cap below its base, and more patience than its budget allows.
ManyPolicies == {DefaultPolicy, Policy(0, 0, 0), Policy(2, 2, 1), Policy(4, 1, 2)}

\* A provider has 800 ms; calls under the other policies are in a hurry.
BudgetOf == [cfg \in ManyPolicies |-> IF cfg = DefaultPolicy THEN 16 ELSE 5]
=============================================================================
