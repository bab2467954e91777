------------------------------ MODULE MCLedger ------------------------------
(* Values of the constants for TLC runs of AllocationLedger.               *)
EXTENDS AllocationLedger, TLC

CONSTANTS r1, r2, cny, usd

AllCny == [r \in Receivables |-> cny]
PerReceivable == (r1 :> cny) @@ [r \in Receivables \ {r1} |-> usd]

LedgerSymmetry == Permutations(Receipts) \cup Permutations(Allocations)
                    \cup Permutations(Keys) \cup Permutations(Users)

CreditSymmetry == Permutations(Allocations) \cup Permutations(Keys)
                    \cup Permutations(Users) \cup Permutations(Workers)
=============================================================================
