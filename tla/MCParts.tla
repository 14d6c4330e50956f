------------------------------ MODULE MCParts ------------------------------
(* Small instances of Parts: three messages of up to two bytes, good or not,  *)
(* in every cut; two buses with two ids each, two threads and a map for half  *)
(* the keys; batches longer than the ring, a ring longer than the viewport;   *)
(* three signals, room for two series and two entries, and a window that may  *)
(* be shorter than the time that passes.                                      *)
EXTENDS Parts, TLC

CONSTANTS bus1, bus2

TwoFilters == {{"match", "other"}, {"match"}}

OneDbc == {<<"speed", "temp">>}

OneSelection == {{"fuel"}}

Decodes == {<<>>, <<"speed">>, <<"temp", "fuel">>}

(* The pause and the filter vary in the part they are of.                     *)
MCInit == PartsInit /\ (part # "trace" => ~paused /\ filter = {"match"})

MCSpec == MCInit /\ [][PartsNext]_partsVars

BusSymmetry == Permutations({bus1, bus2})
=============================================================================
