----------------------------- MODULE MCRedFlush -----------------------------
(* Values of the constants for TLC runs of RedFlush.                       *)
EXTENDS RedFlush, TLC

MCCommands == Attempts \cup Flushes
FlushSymmetry == Permutations(Users) \cup Permutations(Flushes)
\* Every type of result, with sequences that contradict the order of the events.
AnyResult == [type : ResultTypes, seq : {1, 2}]
\* "Unknown" is not the last word: a definite result can always follow it.
SettlingResult == AnyResult \ {[type |-> "unknown", seq |-> 2]}
TwoEach == [v \in Receivables |-> 2]
TaxOnly == [q \in Requests |-> {"TAX_ADAPTER"}]
\* The invoices to flush are issued by hand, before the deployment is switched
\* to the tax adapter: the queue carries the commands of red flushes only.
ManualOnly == [q \in Requests |-> {"MANUAL"}]
=============================================================================
