------------------------------ MODULE TraceLog ------------------------------
(***************************************************************************)
(* What the Trace view promises, with no ring in sight: the newest frames   *)
(* received since the last clear, each under a number that is never used    *)
(* again, the count of those that had to go, and in the viewport the newest *)
(* ones the filter lets through.                                            *)
(***************************************************************************)
EXTENDS Naturals, Sequences, SequencesExt, Arrays

CONSTANTS
    Frames,     \* the frames a batch may carry
    Filters,    \* the queries: the sets of frames they match
    Capacity,   \* TRACE_RING_CAPACITY
    Budget,     \* TRACE_VISIBLE_ROW_BUDGET
    MaxBatch    \* bound: frames of a batch

VARIABLES
    rows,       \* the frames kept, oldest first: [seq, frame]
    next,       \* the number of the next frame
    lost,       \* frames that had to go since the last clear
    filter,     \* the query
    window      \* the rows of the viewport

vars == <<rows, next, lost, filter, window>>

Newest(s, n) == SubSeq(s, IF Len(s) > n THEN Len(s) - n + 1 ELSE 1, Len(s))

Visible(kept, query) ==
    Newest(Filtered(kept, {i \in DOMAIN kept : kept[i].frame \in query}), Budget)

Init ==
    /\ rows = <<>> /\ next = 1 /\ lost = 0
    /\ filter \in Filters /\ window = <<>>

Receive ==
    \E received \in SeqOf(Frames, MaxBatch) :
        LET all == rows \o [i \in 1..Len(received) |-> [seq |-> next + i - 1,
                                                       frame |-> received[i]]]
        IN  /\ rows' = Newest(all, Capacity)
            /\ next' = next + Len(received)
            /\ lost' = lost + Len(all) - Len(rows')
            /\ UNCHANGED filter

Clear ==
    /\ rows' = <<>> /\ lost' = 0
    /\ UNCHANGED <<next, filter>>

Search == filter' \in Filters /\ UNCHANGED <<rows, next, lost>>

Next == (Receive \/ Clear \/ Search) /\ window' = Visible(rows', filter')

Spec == Init /\ [][Next]_vars

=============================================================================
