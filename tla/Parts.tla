------------------------------- MODULE Parts -------------------------------
(***************************************************************************)
(* The parts that run in one thread or under one lock and share nothing: the*)
(* schedule of a cyclic job, the rate tracker, main's decoder, the ring of  *)
(* the Trace view and the store of the Graph view.  A behaviour is one of   *)
(* one of them, chosen at the start; the others stay in their initial       *)
(* states.                                                                  *)
(***************************************************************************)
EXTENDS CyclicJob, Sequences

CONSTANTS
    Buses,                                \* bus ids
    None,                                 \* no slot, no bin, no rate
    MaxFrame, MaxMessages,                \* of FrameDecoder
    Ids, Threads, KeyMax, StampTime,      \* of RateTracker
    Frames, Filters, Capacity, Budget, TraceBatch, MaxSeq,  \* of TraceRing
    Signals, AnyBus, Windows, Interval, SeriesMax, CatalogMax, Dbcs, Remembered,
    Live, Late, GraphBatch, GraphTime, MaxCalls             \* of GraphStore

ASSUME DecoderBounds == MaxFrame \in Nat /\ MaxMessages \in Nat

ASSUME RateBounds == KeyMax \in Nat \ {0} /\ StampTime \in Nat /\ None \notin Int

ASSUME TraceBounds ==
    /\ {Capacity, Budget} \subseteq Nat \ {0}
    /\ TraceBatch \in Nat /\ MaxSeq \in Nat

ASSUME GraphBounds ==
    /\ AnyBus \notin Buses
    /\ {Interval, SeriesMax, CatalogMax} \subseteq Nat \ {0}
    /\ Windows \subseteq Nat \ {0} /\ Windows # {}
    /\ Dbcs \subseteq Seq(Signals) /\ Live \subseteq Seq(Signals)
    /\ \A dbc \in Dbcs : \A i, j \in DOMAIN dbc : dbc[i] = dbc[j] => i = j
    /\ Remembered \subseteq SUBSET Signals
    /\ {Late, GraphBatch, GraphTime, MaxCalls} \subseteq Nat

VARIABLES
    part,       \* the part that runs
    sent, wire, buffer, dispatched, closed,
    last, clock, held, reported, previous, others,
    slots, head, size, nextSeq, uiDropped, engineDropped, paused, filter,
    frozen, pausedNow, window, activeBus, selected, series, catalog, nowTs, points, calls

cyclicVars  == vars
decoderVars == <<sent, wire, buffer, dispatched, closed>>
rateVars    == <<last, clock, held, reported, previous, others>>
traceVars   == <<slots, head, size, nextSeq, uiDropped, engineDropped, paused, filter>>
graphVars   == <<frozen, pausedNow, window, activeBus, selected, series, catalog, nowTs,
                 points, calls>>
partsVars   == <<part, cyclicVars, decoderVars, rateVars, traceVars, graphVars>>

Decoder == INSTANCE FrameDecoder

Rate == INSTANCE RateTracker WITH Never <- None, MaxTime <- StampTime

Trace == INSTANCE TraceRing WITH Free <- None, MaxBatch <- TraceBatch

Graph == INSTANCE GraphStore WITH
    Keys <- Signals, NoBin <- None, MaxBatch <- GraphBatch, MaxTime <- GraphTime,
    paused <- frozen

PartsInit ==
    /\ part \in {"cyclic", "decoder", "rate", "trace", "graph"}
    /\ Init /\ Decoder!Init /\ Rate!Init /\ Trace!Init /\ Graph!Init

PartsNext ==
    \/ /\ part = "cyclic" /\ Next
       /\ UNCHANGED <<part, decoderVars, rateVars, traceVars, graphVars>>
    \/ /\ part = "decoder" /\ Decoder!Next
       /\ UNCHANGED <<part, cyclicVars, rateVars, traceVars, graphVars>>
    \/ /\ part = "rate" /\ Rate!Next
       /\ UNCHANGED <<part, cyclicVars, decoderVars, traceVars, graphVars>>
    \/ /\ part = "trace" /\ Trace!Next
       /\ UNCHANGED <<part, cyclicVars, decoderVars, rateVars, graphVars>>
    \/ /\ part = "graph" /\ Graph!Next
       /\ UNCHANGED <<part, cyclicVars, decoderVars, rateVars, traceVars>>

PartsSpec == PartsInit /\ [][PartsNext]_partsVars

-----------------------------------------------------------------------------
(* The properties of the parts, stated and explained in their modules.        *)
StreamIsDecoded == Decoder!StreamIsDecoded
RateIsOfTheKey == Rate!RateIsOfTheKey
SeriesShowTheWindow == Graph!SeriesShowTheWindow
PlottedAreKept == Graph!PlottedAreKept
KeepsTheLog == Trace!KeepsTheLog

=============================================================================
