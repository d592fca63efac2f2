-------------------------- MODULE MCDownloadBudget --------------------------
(* Two sessions behind one address, one of them also behind another.       *)
EXTENDS DownloadBudget
CONSTANTS g1, g2, g3, s1, s2, ip1, ip2
ThreeThreads == {g1, g2, g3}
FourKeys == {s1, s2, ip1, ip2}
Callers == {{s1, ip1}, {s2, ip1}, {s2, ip2}}
=============================================================================
