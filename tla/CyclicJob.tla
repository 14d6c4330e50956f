----------------------------- MODULE CyclicJob -----------------------------
(***************************************************************************)
(* The schedule of one cyclic job: CyclicJob._run and next_cyclic_deadline  *)
(* of engine/can_engine/tx.py (and nextCyclicDeadline of                    *)
(* shared/txFormat.ts).  Time counts in units of the monotonic clock; it    *)
(* may advance between any two steps, so a send, a lock or the machine may  *)
(* hold the job up for any time.  The rounding of floats is left out.       *)
(***************************************************************************)
EXTENDS Integers

CONSTANTS
    Period,     \* period_s
    Horizon     \* bound: the clock

ASSUME CyclicJobBounds == Period \in Nat \ {0} /\ Horizon \in Nat

VARIABLES
    now,        \* time.monotonic()
    pc,         \* where the thread is
    scheduled,  \* the slot of the send that is due, or was last
    stopped,    \* the stop event
    sends,      \* history: frames sent
    lastSlot,   \* history: the slot of the last send; -Period before the first
    lastEnd     \* history: when the last deadline was computed

vars == <<now, pc, scheduled, stopped, sends, lastSlot, lastEnd>>

(* Mutant of next_cyclic_deadline: the missed periods are made up for. *)
CatchUp(at, slot) == slot + Period

(* The next slot of the grid, or the first after `at` if that has passed. *)
next_cyclic_deadline(at, slot) ==
    IF at <= slot + Period THEN slot + Period
    ELSE slot + ((at - slot) \div Period + 1) * Period

Init ==
    /\ now = 0 /\ pc = "check" /\ scheduled = 0 /\ stopped = FALSE
    /\ sends = 0 /\ lastSlot = -Period /\ lastEnd = 0

Advance ==
    /\ now < Horizon
    /\ now' = now + 1
    /\ UNCHANGED <<pc, scheduled, stopped, sends, lastSlot, lastEnd>>

Stop ==
    /\ stopped' = TRUE
    /\ UNCHANGED <<now, pc, scheduled, sends, lastSlot, lastEnd>>

Check ==
    /\ pc = "check"
    /\ pc' = IF stopped THEN "done" ELSE "send"
    /\ UNCHANGED <<now, scheduled, stopped, sends, lastSlot, lastEnd>>

(* Sent or failed, the job goes on. *)
Send ==
    /\ pc = "send"
    /\ pc' = "plan"
    /\ sends' = sends + 1 /\ lastSlot' = scheduled
    /\ UNCHANGED <<now, scheduled, stopped, lastEnd>>

Plan ==
    /\ pc = "plan"
    /\ pc' = "wait"
    /\ scheduled' = next_cyclic_deadline(now, scheduled)
    /\ lastEnd' = now
    /\ UNCHANGED <<now, stopped, sends, lastSlot>>

(* A delay that is over does not look at the event; the loop's head does. *)
Wait ==
    /\ pc = "wait"
    /\ pc' = IF now < scheduled THEN "done" ELSE "check"
    /\ now < scheduled => stopped
    /\ UNCHANGED <<now, scheduled, stopped, sends, lastSlot, lastEnd>>

Next == Advance \/ Stop \/ Check \/ Send \/ Plan \/ Wait

Spec == Init /\ [][Next]_vars

-----------------------------------------------------------------------------
(* The sends keep to the grid and never burst: a send is not before its slot, *)
(* no slot has two, there are no more of them than slots gone by, and after   *)
(* an overrun the next slot is not one that has passed (tx.py:209, "skip      *)
(* missed ticks (stretch) instead of bursting").                              *)
OneSendPerSlot ==
    /\ scheduled % Period = 0
    /\ sends > 0 => lastSlot <= now
    /\ pc \in {"wait", "check", "send"} => lastSlot < scheduled /\ lastEnd <= scheduled
    /\ pc = "send" => scheduled <= now
    /\ sends <= now \div Period + 1

=============================================================================
