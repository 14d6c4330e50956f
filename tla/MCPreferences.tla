--------------------------- MODULE MCPreferences ---------------------------
(* A small instance of Preferences: three interfaces, one of them down, two   *)
(* DBC files, room for two hints, and what a first launch may find on disk.   *)
EXTENDS Preferences

CONSTANTS vcan0, vcan1, can0, sample, mux, usual, other, speed, engine

Hint(name, path) == [name |-> name, dbcPath |-> path]

(* A file edited by hand, with names, a signal and settings that are none or  *)
(* come twice, more hints and jobs than the caps; and one in which hardly any *)
(* field is what it should be.                                                *)
Files ==
    {[lastBusName |-> vcan1, lastDbcPath |-> Malformed,
      buses |-> <<Malformed, Hint(vcan0, sample), Hint(Malformed, mux),
                  Hint(vcan0, NoPath), Hint(vcan1, Malformed), Hint(can0, mux)>>,
      trace |-> Malformed,
      graph |-> [windowSec |-> Malformed, selected |-> <<Malformed, speed, speed>>],
      txRaw |-> Malformed, txDbc |-> other,
      cyclicJobs |-> <<Malformed, engine, engine>>],
     [lastBusName |-> Malformed, lastDbcPath |-> mux, buses |-> Malformed,
      trace |-> other, graph |-> Malformed, txRaw |-> other, txDbc |-> Malformed,
      cyclicJobs |-> Malformed]}
=============================================================================
