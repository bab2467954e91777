------------------------------ MODULE MCExport ------------------------------
(* Values of the constants for TLC runs of ReportExport.                   *)
EXTENDS ReportExport

MCUploads == Jobs \X (1 .. MaxGenerations)

\* With and without the gateway; a gateway that is required but not set up
\* fails every job before it has done anything.
MCConfigs == {[mode |-> "dual", gateway |-> TRUE], [mode |-> "required", gateway |-> TRUE],
              [mode |-> "dual", gateway |-> FALSE]}
=============================================================================
