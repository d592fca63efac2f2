--------------------------- MODULE MCHostedCache ---------------------------
(* Small instances of HostedCache for TLC.                                 *)
EXTENDS HostedCache

CONSTANTS watch, operator, w1, w2, q1

\* One request that needs every file of the oldest cycle.
OldRequest == {[cycle |-> 1, need |-> Grid]}

\* A request of one file and a request of two files of the only cycle.
TwoRequests == {[cycle |-> 1, need |-> {<<1, 0>>}],
                [cycle |-> 1, need |-> Grid]}
=============================================================================
