---------------------------- MODULE MCHostedJobs ----------------------------
(* Model values for the crop jobs of the hosted service.                   *)
EXTENDS HostedJobs
CONSTANTS k1, k2, k3
TwoKeys == {k1, k2}
ThreeKeys == {k1, k2, k3}
=============================================================================
