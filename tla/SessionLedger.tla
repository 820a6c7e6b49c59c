---- MODULE SessionLedger ----
\* What the state file promises its users (src/docs/architecture.md, ADR-1):
\* sessions take effect one after the other, each on top of all the others.
EXTENDS Naturals

CONSTANT Proc    \* the ce-gke processes
VARIABLE ledger  \* how many sessions of each process are in the state file

Init == ledger = [p \in Proc |-> 0]

\* A session of p takes effect, and no other session loses its own.
Commit(p) == ledger' = [ledger EXCEPT ![p] = @ + 1]

Next == \E p \in Proc : Commit(p)

Spec == Init /\ [][Next]_ledger

====
