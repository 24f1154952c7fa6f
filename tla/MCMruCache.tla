---------------------------- MODULE MCMruCache ----------------------------
(* MruCache with four keys, capacities 0 to 3, and resize arguments that    *)
(* reach zero, a negative size and a truncated division.                    *)
EXTENDS MruCache

MCDesiredMiB == {-64, 0, 64, 130, 192}
MCAverageMiB == {0, 64}
=============================================================================
