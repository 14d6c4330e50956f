----------------------------- MODULE GraphStore -----------------------------
(***************************************************************************)
(* The Graph view's samples: the store of shared/graphStore.ts with the     *)
(* decimation of shared/graphDecimate.ts and the bounds of                  *)
(* shared/graphWindow.ts, driven by renderer/src/graph/useGraphModel.ts.    *)
(*                                                                          *)
(* A signal is a key; a frame of a bus carries the signals its decode has.  *)
(* The value of a sample is the time it was taken.  Colours, the message    *)
(* and error counts, the live rate and the demo are left out.  Time counts  *)
(* in sampling intervals of one unit or more.                               *)
(***************************************************************************)
EXTENDS Integers, Sequences, SequencesExt, FiniteSets, Arrays

CONSTANTS
    Keys,        \* signals: message and name
    Buses,       \* bus ids
    AnyBus,      \* activeBusId: null
    NoBin,       \* binStartUs: null
    Windows,     \* GRAPH_WINDOWS_SEC
    Interval,    \* graphSampleIntervalUs
    SeriesMax,   \* GRAPH_SERIES_MAX
    CatalogMax,  \* GRAPH_CATALOG_MAX
    Dbcs,        \* the DBCs: their signals in order, each once
    Remembered,  \* instance: selections of a session before
    Live,        \* instance: the signals of a frame's decode, in its order
    Late,        \* instance: how far a frame may lag behind the newest
    MaxBatch,    \* bound: frames of a batch
    MaxTime,     \* bound: timestamps
    MaxCalls     \* bound: what the user and the application do

VARIABLES
    paused, pausedNow,    \* frozen while paused
    window,               \* windowSec
    activeBus,            \* activeBusId
    selected,             \* the keys plotted
    series,               \* the map of buffers in its order: [key, samples, binStart]
    catalog,              \* the map of entries in its order: [key, seen]
    nowTs,                \* nowUs
    points,               \* history: every point of a series the window still shows
    calls                 \* bound

store == [series |-> series, catalog |-> catalog, now |-> nowTs, points |-> points]
vars  == <<paused, pausedNow, window, activeBus, selected, series, catalog, nowTs, points, calls>>

KeysOf(map) == {map[i].key : i \in DOMAIN map}
Get(map, key) == CHOOSE entry \in ToSet(map) : entry.key = key
Without(map, key) == Filtered(map, {i \in DOMAIN map : map[i].key # key})

(* Map.set: a key that is there keeps its place. *)
Put(map, entry) ==
    IF entry.key \in KeysOf(map)
    THEN [i \in DOMAIN map |-> IF map[i].key = entry.key THEN entry ELSE map[i]]
    ELSE Append(map, entry)

capacityBound == window \div Interval + 2

plotNow == IF paused THEN pausedNow ELSE nowTs

-----------------------------------------------------------------------------
(* SeriesBuffer *)

shouldReplaceLastSample(binStart, ts) == binStart # NoBin /\ ts - binStart < Interval

(* Mutant of AppendSample: the bin moves with every sample. *)
SlidingBin(buffer, ts) ==
    LET n == Len(buffer.samples)
    IN  IF n > 0 /\ ts < buffer.samples[n] THEN buffer
        ELSE IF shouldReplaceLastSample(buffer.binStart, ts)
             THEN [buffer EXCEPT !.samples[n] = ts, !.binStart = ts]
             ELSE [buffer EXCEPT !.samples = Append(@, ts), !.binStart = ts]

(* The latest sample of an interval wins; one older than the last is dropped. *)
AppendSample(buffer, ts) ==
    LET n == Len(buffer.samples)
    IN  IF n > 0 /\ ts < buffer.samples[n] THEN buffer
        ELSE IF shouldReplaceLastSample(buffer.binStart, ts)
             THEN [buffer EXCEPT !.samples[n] = ts]
             ELSE [buffer EXCEPT !.samples = Append(@, ts), !.binStart = ts]

(* The samples before `start` go, then the oldest above the bound. *)
Trim(buffer, start, bound) ==
    LET old    == Cardinality({i \in DOMAIN buffer.samples :
                                 \A j \in 1..i : buffer.samples[j] < start})
        recent == SubSeq(buffer.samples, old + 1, Len(buffer.samples))
        extra  == IF Len(recent) > bound THEN Len(recent) - bound ELSE 0
        kept   == SubSeq(recent, extra + 1, Len(recent))
    IN  [buffer EXCEPT !.samples = kept, !.binStart = IF kept = <<>> THEN NoBin ELSE @]

Points(st, start) == {p \in st.points : p.ts >= start}

(* trimAll, for the window of `size` at the time `now`. *)
TrimAll(st, now, size) ==
    LET start == now - size
        bound == size \div Interval + 2
    IN  [st EXCEPT !.series = [i \in DOMAIN @ |-> Trim(@[i], start, bound)],
                   !.points = Points(st, start)]

(* Mutant of EvictIdleSeries: the oldest goes, selected or not. *)
EvictOldestSeries(st) ==
    [st EXCEPT !.series = Tail(@), !.points = {p \in @ : p.key # Head(st.series).key}]

(* The first series nobody plots goes; if all are plotted, none. *)
EvictIdleSeries(st) ==
    LET idle == {i \in DOMAIN st.series : st.series[i].key \notin selected}
    IN  IF idle = {} THEN st
        ELSE LET key == st.series[CHOOSE i \in idle : \A j \in idle : i <= j].key
             IN  [st EXCEPT !.series = Without(@, key),
                            !.points = {p \in @ : p.key # key}]

(* First an entry of the DBC that was never seen, then any nobody plots. *)
EvictIdleCatalog(st) ==
    LET idle  == {i \in DOMAIN st.catalog : st.catalog[i].key \notin selected}
        fresh == {i \in idle : ~st.catalog[i].seen}
        from  == IF fresh # {} THEN fresh ELSE idle
    IN  IF from = {} THEN st
        ELSE [st EXCEPT !.catalog =
                Without(@, @[CHOOSE i \in from : \A j \in from : i <= j].key)]

CatalogKey(st, key) ==
    LET room == IF key \notin KeysOf(st.catalog) /\ Len(st.catalog) >= CatalogMax
                THEN EvictIdleCatalog(st) ELSE st
    IN  IF key \notin KeysOf(room.catalog) /\ Len(room.catalog) >= CatalogMax
        THEN room
        ELSE [room EXCEPT !.catalog = Put(@, [key |-> key, seen |-> TRUE])]

SampleKey(st, key, frame) ==
    LET room == IF key \notin KeysOf(st.series) /\ Len(st.series) >= SeriesMax
                THEN EvictIdleSeries(st) ELSE st
        buffer == IF key \in KeysOf(room.series) THEN Get(room.series, key)
                  ELSE [key |-> key, samples |-> <<>>, binStart |-> NoBin]
        n == Len(buffer.samples)
    IN  IF key \notin KeysOf(room.series) /\ Len(room.series) >= SeriesMax
        THEN room
        ELSE [room EXCEPT
                !.series = Put(@, AppendSample(buffer, frame.ts)),
                !.points = IF n > 0 /\ frame.ts < buffer.samples[n] THEN @
                           ELSE @ \cup {[key |-> key, bus |-> frame.bus, ts |-> frame.ts]}]

(* ingestFrame: the frames of other buses than the active one do not count. *)
IngestFrame(st, frame) ==
    IF activeBus # AnyBus /\ frame.bus # activeBus THEN st
    ELSE LET seen == [st EXCEPT !.now = IF frame.ts > @ THEN frame.ts ELSE @]
             keys == frame.signals
             listed[n \in 0..Len(keys)] ==
               IF n = 0 THEN seen ELSE CatalogKey(listed[n - 1], keys[n])
             sampled[n \in 0..Len(keys)] ==
               IF n = 0 THEN listed[Len(keys)]
               ELSE SampleKey(sampled[n - 1], keys[n], frame)
         IN  sampled[Len(keys)]

Become(st) ==
    /\ series' = st.series /\ catalog' = st.catalog
    /\ nowTs' = st.now /\ points' = st.points

-----------------------------------------------------------------------------
Init ==
    /\ paused = FALSE /\ pausedNow = 0
    /\ window = CHOOSE size \in Windows : \A other \in Windows : size <= other
    /\ activeBus = AnyBus /\ selected = {}
    /\ series = <<>> /\ catalog = <<>> /\ nowTs = 0 /\ points = {}
    /\ calls = 0

(* An rx.batch; pause discards its frames. *)
appendBatch(frames) ==
    /\ UNCHANGED <<paused, pausedNow, window, activeBus, selected>>
    /\ IF paused \/ frames = <<>> THEN UNCHANGED <<series, catalog, nowTs, points>>
       ELSE LET after[n \in 0..Len(frames)] ==
                  IF n = 0 THEN store ELSE IngestFrame(after[n - 1], frames[n])
                last == after[Len(frames)]
            IN  Become(TrimAll(last, last.now, window))

setPaused(on) ==
    /\ paused' = on
    /\ pausedNow' = IF on THEN plotNow ELSE 0
    /\ UNCHANGED <<window, activeBus, selected, series, catalog, nowTs, points>>

setWindowSec(size) ==
    /\ window' = size
    /\ Become(TrimAll(store, plotNow, size))
    /\ UNCHANGED <<paused, pausedNow, activeBus, selected>>

ClearedSeries ==
    [i \in DOMAIN series |-> [series[i] EXCEPT !.samples = <<>>, !.binStart = NoBin]]

(* Another bus: its samples, its catalog and its selection start empty. *)
setActiveBus(bus) ==
    /\ bus # activeBus
    /\ activeBus' = bus
    /\ series' = ClearedSeries /\ points' = {}
    /\ catalog' = <<>> /\ selected' = {}
    /\ UNCHANGED <<paused, pausedNow, window, nowTs>>

clearSamples ==
    /\ series' = ClearedSeries /\ points' = {}
    /\ UNCHANGED <<paused, pausedNow, window, activeBus, selected, catalog, nowTs>>

(* The DBC's entries first; of the others those seen or plotted stay. *)
applyDbcCatalog(dbc) ==
    LET Seen(key) == key \in KeysOf(catalog) /\ Get(catalog, key).seen
        fresh == [i \in DOMAIN dbc |-> [key |-> dbc[i], seen |-> Seen(dbc[i])]]
        others == Filtered(catalog, {i \in DOMAIN catalog :
                     /\ catalog[i].key \notin ToSet(dbc)
                     /\ catalog[i].seen \/ catalog[i].key \in selected})
    IN  /\ catalog' = fresh \o others
        /\ UNCHANGED <<paused, pausedNow, window, activeBus, selected, series, nowTs, points>>

(* The picker's box of an entry. *)
toggleSelected(key) ==
    /\ key \in KeysOf(catalog)
    /\ selected' = IF key \in selected THEN selected \ {key} ELSE selected \cup {key}
    /\ UNCHANGED <<paused, pausedNow, window, activeBus, series, catalog, nowTs, points>>

(* The selection of the last session, on a connect or a load. *)
setSelected(keys) ==
    /\ selected' = keys
    /\ UNCHANGED <<paused, pausedNow, window, activeBus, series, catalog, nowTs, points>>

(* The engine is gone: window, pause and selection stay. *)
resetLive ==
    /\ activeBus' = AnyBus
    /\ series' = <<>> /\ catalog' = <<>> /\ nowTs' = 0 /\ points' = {}
    /\ UNCHANGED <<paused, pausedNow, window, selected>>

(* A frame may be older than the newest: the threads of a bus stamp before    *)
(* they queue.                                                                *)
Frame == [bus : Buses, signals : Live, ts : 1..MaxTime]

Timely(frames) ==
    \A i \in DOMAIN frames : frames[i].ts >= nowTs - Late

Receive ==
    \E frames \in SeqOf(Frame, MaxBatch) : Timely(frames) /\ appendBatch(frames)

Call ==
    \/ \E on \in BOOLEAN : setPaused(on)
    \/ \E size \in Windows : setWindowSec(size)
    \/ \E bus \in Buses \cup {AnyBus} : setActiveBus(bus)
    \/ \E dbc \in Dbcs : applyDbcCatalog(dbc)
    \/ \E key \in Keys : toggleSelected(key)
    \/ \E keys \in Remembered : setSelected(keys)
    \/ clearSamples \/ resetLive

Next ==
    \/ Receive /\ UNCHANGED calls
    \/ Call /\ calls < MaxCalls /\ calls' = calls + 1

Spec == Init /\ [][Next]_vars

-----------------------------------------------------------------------------
(* The plot shows the window and no more: of every point of the active bus    *)
(* that a series was given in the window, it has one less than an interval    *)
(* later (the latest of its bin), in order, about one for each interval, and  *)
(* the bound on samples never takes one the window should show                *)
(* (graphDecimate.ts:2, "at most one sample per interval (latest wins)";      *)
(* graphStore.ts, SeriesBuffer, trimAll, setActiveBus; docs of the caps in    *)
(* graphWindow.ts:15).                                                        *)
SeriesShowTheWindow ==
    /\ Len(series) <= SeriesMax
    /\ activeBus # AnyBus => \A p \in points : p.bus = activeBus
    /\ \A i \in DOMAIN series :
          LET samples == series[i].samples
              given   == {p.ts : p \in {q \in points : q.key = series[i].key}}
          IN  /\ Len(samples) <= capacityBound
              /\ ToSet(samples) \subseteq given
              /\ \A j \in 1..(Len(samples) - 1) : samples[j] < samples[j + 1]
              /\ \A j \in 1..(Len(samples) - 2) : samples[j + 2] - samples[j] > Interval
              /\ \A ts \in given :
                    \E j \in DOMAIN samples : ts <= samples[j] /\ samples[j] < ts + Interval

(* A flood of other signals, a DBC that is loaded, a window that shrinks or a *)
(* clear takes neither the series nor the picker's entry of a signal that is  *)
(* plotted; only another bus or the loss of the engine does (graphStore.ts,   *)
(* evictIdleSeries, evictIdleCatalog, applyDbcCatalog).                       *)
PlottedAreKept ==
    [][\/ resetLive
       \/ activeBus' # activeBus
       \/ \A key \in selected \cap selected' :
             /\ key \in KeysOf(series) => key \in KeysOf(series')
             /\ key \in KeysOf(catalog) => key \in KeysOf(catalog')]_vars

=============================================================================
