------------------------------ MODULE MCRxPump ------------------------------
(* Two buses that share a batch: on the first a cyclic job sends beside the   *)
(* recv thread, one-shot sends go to either.                                  *)
EXTENDS RxPump

CONSTANTS b1, b2, loop, recv1, recv2, job1

InOrderOpened == <<b1, b2>>

FeedsOf ==
    [t \in {loop, recv1, recv2, job1} |->
        CASE t \in {recv1, job1} -> {b1} [] t = recv2 -> {b2} [] t = loop -> {b1, b2}]

FramesOf == [t \in {loop, recv1, recv2, job1} |-> IF t \in {recv1, job1} THEN 2 ELSE 1]
=============================================================================
