------------------------- MODULE MCEstimateHelper -------------------------
(* Model values for the estimate: two valid forms and one invalid, two      *)
(* files to pick.                                                           *)
EXTENDS EstimateHelper
CONSTANTS short, long, bad, file1, file2
Fields == {short, long, bad}
TwoFiles == {file1, file2}
=============================================================================
