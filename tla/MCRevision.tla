----------------------------- MODULE MCRevision -----------------------------
(* Values of the constants for TLC runs of ContractRevision: a baseline of  *)
(* one installment; a second version that lowers it and adds another, and   *)
(* one that does not add up; and a third version that drops the first.      *)
EXTENDS ContractRevision, TLC

MCTerms(a, b) == [i \in Installments |-> IF i = 1 THEN a ELSE b]

T(x, due) == [amount |-> x, due |-> due]

Baseline == [id |-> 1, version |-> 1, amount |-> 2,
             terms |-> MCTerms(T(2, 1), NoTerm)]
Lowered == [id |-> 2, version |-> 2, amount |-> 2,
            terms |-> MCTerms(T(1, 2), T(1, 1))]
Unbalanced == [id |-> 3, version |-> 2, amount |-> 2,
               terms |-> MCTerms(T(1, 1), NoTerm)]
Replaced == [id |-> 4, version |-> 3, amount |-> 2,
             terms |-> MCTerms(NoTerm, T(2, 1))]

MCEvents == {Baseline, Lowered, Unbalanced, Replaced}

\* Every event is refused once the contract is at its last version: what the
\* requests do to the plans from there on is not explored.
BeforeLastVersion == stream # 3

DeliverySymmetry == Permutations(Deliveries)
=============================================================================
