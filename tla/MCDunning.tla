------------------------------ MODULE MCDunning ------------------------------
(* Values of the constants for TLC runs of Dunning.                          *)
EXTENDS Dunning

AnyOf(S) == CHOOSE x \in S : TRUE
AllFromOne == [k \in Policies |-> 1]
OnlyRank == [k \in Policies |-> 0]
AllToTwo == [k \in Policies |-> 2]
\* Before the plan is confirmed, and once the receivable is overdue.
BeforeAndAfter == {<<"PENDING", 0>>, <<"OPEN", 1>>}
OneCollector == [k \in Policies |-> AnyOf(Users)]
==============================================================================
