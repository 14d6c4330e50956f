---------------------------- MODULE MCBusManager ----------------------------
(* Small instances of BusManager: two interfaces, a few busIds and jobs.     *)
EXTENDS BusManager, TLC

CONSTANTS i1, i2, x, y, j1, j2

Symmetry == Permutations(Ifaces) \cup Permutations(BusIds) \cup Permutations(JobIds)
=============================================================================
