------------------------------ MODULE MCImport ------------------------------
(* Values of the constants for TLC runs of ContractImport.                 *)
EXTENDS ContractImport

OneEach == [r \in Receivables |-> 1]
\* The owner is handed over, and reassigned.
HandOver == {[version |-> 1, user |-> "u1", active |-> TRUE],
             [version |-> 2, user |-> "u2", active |-> TRUE]}
=============================================================================
