----------------------------- MODULE TraceRing -----------------------------
(***************************************************************************)
(* The Trace view's frames: the ring of shared/traceRing.ts, the pause of   *)
(* shared/traceControl.ts, the filter and the viewport of                   *)
(* shared/traceFilter.ts and shared/tracePaint.ts, and the state around     *)
(* them in renderer/src/trace/useTraceModel.ts.                             *)
(*                                                                          *)
(* A frame is whatever tells frames apart for a query, and a query the set  *)
(* of frames it matches.  The rows a user has expanded and the time of the  *)
(* first paint are left out.                                                *)
(***************************************************************************)
EXTENDS Naturals, Sequences, SequencesExt, Arrays

CONSTANTS
    Frames,     \* the frames a batch may carry
    Filters,    \* the queries: the sets of frames they match
    Free,       \* a slot nothing was written to
    Capacity,   \* TRACE_RING_CAPACITY
    Budget,     \* TRACE_VISIBLE_ROW_BUDGET
    MaxBatch,   \* bound: frames of a batch
    MaxSeq      \* bound: frames appended

VARIABLES
    slots, head, size, nextSeq,     \* FrameRing
    uiDropped, engineDropped,       \* the two counts of the toolbar
    paused, filter

ring == <<slots, head, size, nextSeq>>
vars == <<ring, uiDropped, engineDropped, paused, filter>>

EmptyRing == [slots |-> [slot \in 0..(Capacity - 1) |-> Free], head |-> 0,
              size |-> 0, nextSeq |-> 1, dropped |-> 0]

(* Mutant of AppendFrame: the head stays when the oldest frame goes. *)
KeepHead(r, frame) ==
    [r EXCEPT !.dropped = IF r.size = Capacity THEN @ + 1 ELSE @,
              !.slots[(r.head + r.size) % Capacity] = [seq |-> r.nextSeq, frame |-> frame],
              !.nextSeq = @ + 1,
              !.size = IF r.size = Capacity THEN Capacity ELSE @ + 1]

(* A full ring gives up its oldest frame first. *)
AppendFrame(r, frame) ==
    LET full == r.size = Capacity
        h    == IF full THEN (r.head + 1) % Capacity ELSE r.head
        n    == IF full THEN r.size - 1 ELSE r.size
    IN  [slots   |-> [r.slots EXCEPT ![(h + n) % Capacity] =
                                          [seq |-> r.nextSeq, frame |-> frame]],
         head    |-> h,
         size    |-> n + 1,
         nextSeq |-> r.nextSeq + 1,
         dropped |-> IF full THEN r.dropped + 1 ELSE r.dropped]

append(frames) ==
    LET after[n \in 0..Len(frames)] ==
          IF n = 0
          THEN [slots |-> slots, head |-> head, size |-> size, nextSeq |-> nextSeq,
                dropped |-> 0]
          ELSE AppendFrame(after[n - 1], frames[n])
    IN  after[Len(frames)]

at(index) == slots[(head + index) % Capacity]

(* An empty query matches without looking. *)
collectMatchingIndices ==
    LET indices == [i \in 1..size |-> i - 1]
    IN  IF filter = Frames THEN indices
        ELSE Filtered(indices, {i \in 1..size : at(indices[i]).frame \in filter})

(* The viewport with the scroll lock on. *)
paintVisibleWindow ==
    LET indices == collectMatchingIndices
        count   == Len(indices)
        start   == IF count > Budget THEN count - Budget ELSE 0
    IN  [row \in 1..(count - start) |-> at(indices[start + row])]

Init ==
    /\ slots = EmptyRing.slots /\ head = 0 /\ size = 0 /\ nextSeq = 1
    /\ uiDropped = 0 /\ engineDropped = 0
    /\ paused \in BOOLEAN /\ filter \in Filters

(* An rx.batch.  Pause keeps its frames out of the ring, not its drop count. *)
appendBatch(frames, dropped) ==
    /\ nextSeq + Len(frames) <= MaxSeq + 1
    /\ engineDropped' = dropped
    /\ IF paused \/ frames = <<>>
       THEN UNCHANGED <<ring, uiDropped>>
       ELSE LET after == append(frames)
            IN  /\ slots' = after.slots /\ head' = after.head
                /\ size' = after.size /\ nextSeq' = after.nextSeq
                /\ uiDropped' = uiDropped + after.dropped
    /\ UNCHANGED <<paused, filter>>

(* FrameRing.clear: the slots and the numbering stay. *)
ClearRing ==
    /\ head' = 0 /\ size' = 0
    /\ UNCHANGED <<slots, nextSeq>>

clear ==
    /\ ClearRing /\ uiDropped' = 0
    /\ UNCHANGED <<engineDropped, paused, filter>>

(* The engine is gone. *)
reset ==
    /\ ClearRing /\ uiDropped' = 0 /\ engineDropped' = 0
    /\ UNCHANGED <<paused, filter>>

setPaused(on) ==
    /\ paused' = on
    /\ UNCHANGED <<ring, uiDropped, engineDropped, filter>>

setFilter(query) ==
    /\ filter' = query
    /\ UNCHANGED <<ring, uiDropped, engineDropped, paused>>

Next ==
    \/ \E frames \in SeqOf(Frames, MaxBatch), dropped \in 0..1 : appendBatch(frames, dropped)
    \/ clear \/ reset
    \/ \E on \in BOOLEAN : setPaused(on)
    \/ \E query \in Filters : setFilter(query)

Spec == Init /\ [][Next]_vars

-----------------------------------------------------------------------------
(* The ring is the log of the newest frames: oldest first, none missing or    *)
(* shown twice across a wrap or a batch longer than the ring, each loss       *)
(* counted once, a number never used for two frames, and the viewport the     *)
(* newest matching rows (traceRing.ts:16, "Append overwrites the oldest       *)
(* slot"; tracePaint.ts, paintVisibleWindow).                                 *)
Log == INSTANCE TraceLog WITH
    rows   <- [row \in 1..size |-> at(row - 1)],
    next   <- nextSeq,
    lost   <- uiDropped,
    window <- paintVisibleWindow

KeepsTheLog == Log!Spec

=============================================================================
