---------------------------- MODULE RateTracker ----------------------------
(***************************************************************************)
(* The inter-arrival time of a frame: engine/can_engine/rate.py.  The recv  *)
(* thread of every bus, the cyclic jobs and the asyncio thread stamp their  *)
(* frames first and then observe them under the tracker's lock, so the      *)
(* stamps of a key may come in any order.                                   *)
(***************************************************************************)
EXTENDS Integers, Sequences, SequencesExt, FiniteSets, Arrays

CONSTANTS
    Buses,      \* bus ids
    Ids,        \* can_id with is_eff
    Threads,    \* what stamps frames
    Never,      \* prev: None
    KeyMax,     \* RATE_KEY_MAX
    MaxTime     \* bound: timestamps

Keys == Buses \X Ids

VARIABLES
    last,       \* the dict _last in its order: <<key, ts>>, oldest first
    clock,      \* ts_us of now
    held,       \* the frame a thread has stamped and not observed: <<key, ts>>
    reported,   \* the last answer: its key, its rate and what it should be
    previous,   \* history: the stamp observed last of each key since it was cleared
    others      \* history: the other keys observed since then

vars == <<last, clock, held, reported, previous, others>>

Stored == {entry[1] : entry \in ToSet(last)}
StampOf(key) == (CHOOSE entry \in ToSet(last) : entry[1] = key)[2]
Without(key) == Filtered(last, {i \in DOMAIN last : last[i][1] # key})

(* Mutant of Remember: a key that is there keeps its place. *)
KeepPlace(key, ts) ==
    IF key \in Stored
    THEN [i \in DOMAIN last |-> IF last[i][1] = key THEN <<key, ts>> ELSE last[i]]
    ELSE Append(IF Len(last) >= KeyMax THEN Tail(last) ELSE last, <<key, ts>>)

(* The key moves to the end; if it is new and the map is full, the first goes.*)
Remember(key, ts) ==
    LET rest == Without(key)
    IN  Append(IF key \notin Stored /\ Len(rest) >= KeyMax THEN Tail(rest) ELSE rest,
               <<key, ts>>)

Init ==
    /\ last = <<>> /\ clock = 1
    /\ held = [t \in Threads |-> <<>>]
    /\ reported = <<>>
    /\ previous = [key \in Keys |-> Never]
    /\ others = [key \in Keys |-> {}]

Advance == clock < MaxTime /\ clock' = clock + 1
           /\ UNCHANGED <<last, held, reported, previous, others>>

Stamp(t) ==
    /\ held[t] = <<>>
    /\ \E key \in Keys : held' = [held EXCEPT ![t] = <<key, clock>>]
    /\ UNCHANGED <<last, clock, reported, previous, others>>

(* observe, under the lock. *)
Observe(t) ==
    /\ held[t] # <<>>
    /\ LET key  == held[t][1]
           ts   == held[t][2]
       IN  /\ last' = Remember(key, ts)
           /\ reported' = [rate    |-> IF key \in Stored THEN ts - StampOf(key) ELSE Never,
                           exact   |-> IF previous[key] = Never THEN Never
                                       ELSE ts - previous[key],
                           between |-> others[key]]
           /\ previous' = [previous EXCEPT ![key] = ts]
           /\ others' = [k \in Keys |-> IF k = key THEN {} ELSE others[k] \cup {key}]
    /\ held' = [held EXCEPT ![t] = <<>>]
    /\ UNCHANGED clock

(* clear_bus: the bus is closed; a frame stamped before may come later. *)
ClearBus(b) ==
    /\ last' = Filtered(last, {i \in DOMAIN last : last[i][1][1] # b})
    /\ previous' = [key \in Keys |-> IF key[1] = b THEN Never ELSE previous[key]]
    /\ others' = [key \in Keys |-> IF key[1] = b THEN {} ELSE others[key]]
    /\ UNCHANGED <<clock, held, reported>>

Next ==
    \/ Advance
    \/ \E t \in Threads : Stamp(t) \/ Observe(t)
    \/ \E b \in Buses : ClearBus(b)

Spec == Init /\ [][Next]_vars

-----------------------------------------------------------------------------
(* The rate of a frame is the time since the frame of the same key observed   *)
(* before it, however the threads interleave.  It is null for the first one,  *)
(* and after that only if as many other keys as the map holds came between:   *)
(* the map is full of newer ones, and never over its cap (rate.py:28, "The    *)
(* key map is bounded"; rate.py:42).                                          *)
RateIsOfTheKey ==
    /\ Len(last) <= KeyMax /\ Cardinality(Stored) = Len(last)
    /\ reported # <<>> =>
          /\ reported.rate # Never => reported.rate = reported.exact
          /\ reported.rate = Never =>
                reported.exact = Never \/ Cardinality(reported.between) >= KeyMax

=============================================================================
