------------------------------ MODULE MCInvoice -----------------------------
(* Values of the constants for TLC runs of InvoiceIssue.                   *)
EXTENDS InvoiceIssue, TLC

CONSTANTS q1

MCCommands == Attempts
\* Every type of result, with sequences that contradict the order of the events.
AnyResult == [type : ResultTypes, seq : {1, 2}]
TwoEach == [v \in Receivables |-> 2]
\* The first request goes to the tax adapter, the others are issued by hand.
TaxThenManual == [q \in Requests |-> IF q = q1 THEN {"TAX_ADAPTER"} ELSE {"MANUAL"}]

InvoiceSymmetry == Permutations(Users)
=============================================================================
