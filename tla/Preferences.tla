---------------------------- MODULE Preferences ----------------------------
(***************************************************************************)
(* What the window remembers over a restart: shared/persist.ts, the effects *)
(* and handlers of App.tsx that read and write the snapshot, and the store  *)
(* of electron/main/userStore.ts.                                           *)
(*                                                                          *)
(* A snapshot has the last bus, the last DBC path, a hint (name, DBC path)  *)
(* for each remembered bus, the most recent first, the settings of the      *)
(* Trace view, the window and the selected signals of the Graph view, the   *)
(* two drafts of the Transmit screen and the definitions of its cyclic      *)
(* jobs.  Which settings those are does not matter here; every DBC lists    *)
(* every signal.  A button's answer follows its click at once; module       *)
(* Renderer has what happens between the two.  Time counts in the interval  *)
(* of rx.batch events.                                                      *)
(***************************************************************************)
EXTENDS Naturals, Sequences, SequencesExt, FiniteSets, Arrays

CONSTANTS
    Names,          \* the interfaces listed
    Up,             \* the interfaces that are up; the others are listed too
    Paths,          \* DBC paths
    NoPath,         \* dbcPath: null
    Keep,           \* dbcPath: undefined
    DefaultName,    \* DEFAULT_PERSIST.lastBusName
    DefaultPath,    \* DEFAULT_PERSIST.lastDbcPath
    Settings,       \* of the Trace view, of the drafts, of the Graph window
    DefaultSetting, \* the one of DEFAULT_PERSIST
    Malformed,      \* what is missing or not of its type
    Signals,        \* signals the Graph view can plot
    Definitions,    \* definitions of cyclic jobs
    Absent,         \* no file
    Partial,        \* a file that is not JSON, or whose JSON is no object
    InitialFiles,   \* what the first launch may find
    MaxBuses,       \* PERSIST_MAX_BUSES
    MaxSelected,    \* PERSIST_MAX_SELECTED
    MaxJobs,        \* PERSIST_MAX_JOBS
    Debounce,       \* PERSIST_DEBOUNCE_MS in batch intervals
    MaxPending,     \* bound: snapshots on their way to main
    MaxSteps,       \* bound: what the user and the engine do
    MaxExits,       \* bound: ends of the application
    MaxFaults,      \* bound: file operations that fail
    MaxEvents       \* bound: the three together

PersistedBusHint == [name : Names, dbcPath : Paths \cup {NoPath}]
PersistedGraphPrefs == [windowSec : Settings, selected : Seq(Signals)]

(* What a file may have where an S belongs. *)
Given(S) == S \cup {Malformed}

ASSUME PreferencesBounds ==
    /\ Up \subseteq Names /\ DefaultName \in Names /\ DefaultPath \in Paths
    /\ {NoPath, Keep} \cap Paths = {} /\ NoPath # Keep
    /\ DefaultSetting \in Settings /\ Absent # Partial
    /\ Malformed \notin Names \cup Paths \cup {NoPath} \cup Settings \cup Signals \cup Definitions
    /\ Malformed \notin PersistedBusHint \cup PersistedGraphPrefs
    /\ Malformed \notin Seq(Given(PersistedBusHint)) \cup Seq(Signals) \cup Seq(Definitions)
    /\ {MaxBuses, MaxSelected, MaxJobs, Debounce, MaxPending} \subseteq Nat \ {0}
    /\ MaxSteps \in Nat /\ MaxExits \in Nat /\ MaxFaults \in Nat /\ MaxEvents \in Nat

VARIABLES
    \* the window
    live,        \* the window is there and restored
    remembered,  \* the header's hints
    opened,      \* the open buses, in the order they were opened: [name, dbc]
    selected,    \* selectedBus
    dbcPath,     \* the DBC path field
    trace,       \* filter, paused and scrollLock of the Trace view
    graph,       \* windowSec and the selected signals of the Graph view
    draft,       \* the Raw send panel's fields
    dbcDraft,    \* the DBC pack panel's fields
    jobs,        \* the definitions in the cyclic jobs table
    persistRef,  \* the snapshot last built or read
    timer,       \* intervals until the debounce fires; 0: not armed
    \* main
    outbox,      \* snapshots on their way to main
    stage,       \* where the synchronous save is
    tmp, file,   \* the two files
    \* history and bounds
    stored,      \* what the last rename or the user put in the file
    renameFailed,\* a rename has failed
    steps, exits, faults

headerVars == <<remembered, opened, selected, dbcPath>>
screenVars == <<trace, graph, draft, dbcDraft, jobs>>
windowVars == <<live, headerVars, screenVars, persistRef, timer>>
diskVars   == <<stage, tmp, file, stored, renameFailed>>
vars == <<windowVars, outbox, diskVars, steps, exits, faults>>

PersistSnapshot ==
    [lastBusName : Names, lastDbcPath : Paths, buses : Seq(PersistedBusHint),
     trace : Settings, graph : PersistedGraphPrefs, txRaw : Settings, txDbc : Settings,
     cyclicJobs : Seq(Definitions)]

(* A file with a JSON object: what main puts there, or the user, who may get  *)
(* any field, hint, signal or job wrong.                                      *)
RawBusHint == [name : Given(Names), dbcPath : Given(Paths \cup {NoPath})]
RawGraphPrefs == [windowSec : Given(Settings), selected : Given(Seq(Given(Signals)))]
RawSnapshot ==
    [lastBusName : Given(Names), lastDbcPath : Given(Paths),
     buses : Given(Seq(Given(RawBusHint))),
     trace : Given(Settings), graph : Given(RawGraphPrefs),
     txRaw : Given(Settings), txDbc : Given(Settings),
     cyclicJobs : Given(Seq(Given(Definitions)))]

ASSUME PreferencesFiles ==
    /\ {Absent, Partial} \cap RawSnapshot = {}
    /\ InitialFiles \subseteq {Absent, Partial} \cup RawSnapshot

DEFAULT_PERSIST ==
    [lastBusName |-> DefaultName, lastDbcPath |-> DefaultPath, buses |-> <<>>,
     trace |-> DefaultSetting,
     graph |-> [windowSec |-> DefaultSetting, selected |-> <<>>],
     txRaw |-> DefaultSetting, txDbc |-> DefaultSetting, cyclicJobs |-> <<>>]

UpTo(max, s) == SubSeq(s, 1, IF Len(s) < max THEN Len(s) ELSE max)

FirstOf(buses) == UpTo(MaxBuses, buses)

NamesOf(buses) == {buses[i].name : i \in DOMAIN buses}

PathOf(buses, name) ==
    IF name \in NamesOf(buses)
    THEN (CHOOSE hint \in ToSet(buses) : hint.name = name).dbcPath
    ELSE NoPath

(* clampString, clampInt and asBool: what is missing or not of its type gives *)
(* way to the default.                                                        *)
ValueOr(default, raw) == IF raw = Malformed THEN default ELSE raw

Coerced(raw) == ValueOr(DefaultSetting, raw)

sanitizeTrace(raw) == Coerced(raw)

sanitizeRawDraft(raw) == Coerced(raw)

sanitizeDbcDraft(raw) == Coerced(raw)

(* The positions of the items that are well formed: what is no array has none.*)
WellFormed(raw) == {i \in DOMAIN ValueOr(<<>>, raw) : raw[i] # Malformed}

(* A signal counts once. *)
sanitizeGraph(raw) ==
    LET keys   == raw.selected
        firsts == {i \in WellFormed(keys) : \A j \in 1..(i - 1) : keys[j] # keys[i]}
    IN  IF raw = Malformed THEN DEFAULT_PERSIST.graph
        ELSE [windowSec |-> Coerced(raw.windowSec),
              selected  |-> UpTo(MaxSelected, Filtered(keys, firsts))]

(* The first definitions that are well formed. *)
jobsToDefinitions(raw) == UpTo(MaxJobs, Filtered(raw, WellFormed(raw)))

(* A hint needs a name; a path that is none is null. *)
sanitizeBusHint(raw) ==
    IF raw = Malformed \/ raw.name = Malformed THEN Malformed
    ELSE [name |-> raw.name, dbcPath |-> ValueOr(NoPath, raw.dbcPath)]

HintsOf(raw) == [i \in DOMAIN ValueOr(<<>>, raw) |-> sanitizeBusHint(raw[i])]

(* Mutant of sanitizeBuses: a name is kept as often as the file has it. *)
KeepDuplicates(raw) == FirstOf(Filtered(HintsOf(raw), WellFormed(HintsOf(raw))))

(* Of several hints for a name the first counts. *)
sanitizeBuses(raw) ==
    LET hints  == HintsOf(raw)
        firsts == {i \in WellFormed(hints) :
                     \A j \in 1..(i - 1) :
                         hints[j] # Malformed => hints[j].name # hints[i].name}
    IN  FirstOf(Filtered(hints, firsts))

(* A file that is missing or corrupt reads as the defaults. *)
sanitizePersist(raw) ==
    IF raw = Absent \/ raw = Partial THEN DEFAULT_PERSIST
    ELSE [raw EXCEPT !.lastBusName = ValueOr(DefaultName, @),
                     !.lastDbcPath = ValueOr(DefaultPath, @),
                     !.buses = sanitizeBuses(@),
                     !.trace = sanitizeTrace(@), !.graph = sanitizeGraph(@),
                     !.txRaw = sanitizeRawDraft(@), !.txDbc = sanitizeDbcDraft(@),
                     !.cyclicJobs = jobsToDefinitions(@)]

(* The hint of `name` moves to the front. *)
upsertBusHint(buses, name, path) ==
    LET hint == [name |-> name,
                 dbcPath |-> IF path = Keep THEN PathOf(buses, name) ELSE path]
    IN  FirstOf(<<hint>> \o Filtered(buses, {i \in DOMAIN buses : buses[i].name # name}))

(* The path of a bus without one is the last path of any bus. *)
dbcPathForBus(snapshot, name) ==
    LET path == PathOf(snapshot.buses, name)
    IN  IF path = NoPath THEN snapshot.lastDbcPath ELSE path

SnapshotOf(buses) ==
    sanitizePersist([lastBusName |-> selected, lastDbcPath |-> dbcPath, buses |-> buses,
                     trace |-> trace, graph |-> graph, txRaw |-> draft, txDbc |-> dbcDraft,
                     cyclicJobs |-> jobs])

(* Mutant of buildPersistSnapshot: the open buses are left out. *)
BuildFromHints == SnapshotOf(upsertBusHint(remembered, selected, Keep))

(* The open buses are put before the remembered ones, with the path of the    *)
(* DBC each has loaded now.                                                   *)
WithOpened(hints, list) ==
    LET after[n \in 0..Len(list)] ==
          IF n = 0 THEN hints
          ELSE upsertBusHint(after[n - 1], list[n].name, list[n].dbc)
    IN  after[Len(list)]

buildPersistSnapshot ==
    SnapshotOf(upsertBusHint(WithOpened(remembered, opened), selected, Keep))

-----------------------------------------------------------------------------
hydratePrefs(snapshot) ==
    /\ trace' = snapshot.trace /\ graph' = snapshot.graph
    /\ draft' = snapshot.txRaw /\ dbcDraft' = snapshot.txDbc
    /\ jobs' = snapshot.cyclicJobs

(* The window's state after a launch that reads `snapshot`. *)
Hydrate(snapshot) ==
    /\ live' = TRUE
    /\ remembered' = snapshot.buses
    /\ opened' = <<>>
    /\ selected' = snapshot.lastBusName
    /\ dbcPath' = dbcPathForBus(snapshot, snapshot.lastBusName)
    /\ hydratePrefs(snapshot)
    /\ persistRef' = snapshot
    /\ timer' = Debounce

Init ==
    /\ file \in InitialFiles
    /\ stored = file /\ tmp = Absent /\ stage = "idle" /\ outbox = <<>>
    /\ live = FALSE /\ opened = <<>> /\ timer = 0
    /\ remembered = DEFAULT_PERSIST.buses
    /\ selected = DefaultName /\ dbcPath = DefaultPath
    /\ trace = DefaultSetting /\ graph = DEFAULT_PERSIST.graph
    /\ draft = DefaultSetting /\ dbcDraft = DefaultSetting /\ jobs = <<>>
    /\ persistRef = DEFAULT_PERSIST
    /\ renameFailed = FALSE /\ steps = 0 /\ exits = 0 /\ faults = 0

(* getPersist *)
Launch ==
    /\ ~live
    /\ Hydrate(sanitizePersist(file))
    /\ UNCHANGED <<outbox, diskVars, steps, exits, faults>>

MoreEvents == steps + exits + faults < MaxEvents

(* Mutant of Changed: what changed is not among the effect's dependencies. *)
NotArmed ==
    /\ live /\ steps < MaxSteps /\ MoreEvents
    /\ steps' = steps + 1
    /\ UNCHANGED <<live, persistRef, timer, outbox, diskVars, exits, faults>>

(* Every step of the window that changes what the effect depends on arms its  *)
(* timer again.                                                               *)
Changed ==
    /\ live /\ steps < MaxSteps /\ MoreEvents
    /\ steps' = steps + 1
    /\ timer' = Debounce
    /\ UNCHANGED <<live, persistRef, outbox, diskVars, exits, faults>>

OpenedPath(name) ==
    LET at == {i \in DOMAIN opened : opened[i].name = name /\ opened[i].dbc # NoPath}
    IN  IF at = {} THEN NoPath ELSE opened[CHOOSE i \in at : TRUE].dbc

(* The bus the graph follows: the selected one, if it is open. *)
ActiveBus(list, name) == NamesOf(list) \cap {name}

(* The effect on opened, selectedBus and windowSec: another bus clears the    *)
(* selected signals, and with a DBC loaded those of the last snapshot are     *)
(* selected again.                                                            *)
GraphEffect(list, name, size) ==
    LET loaded == \E i \in DOMAIN list : list[i].name = name /\ list[i].dbc # NoPath
        kept   == IF ActiveBus(list, name) = ActiveBus(opened, selected)
                  THEN graph.selected ELSE <<>>
    IN  graph' = [windowSec |-> size,
                  selected  |-> IF loaded /\ persistRef.graph.selected # <<>>
                                THEN persistRef.graph.selected ELSE kept]

selectHeaderBus(name) ==
    /\ name # selected /\ Changed
    /\ selected' = name
    /\ dbcPath' = IF OpenedPath(name) # NoPath THEN OpenedPath(name)
                  ELSE dbcPathForBus(persistRef, name)
    /\ GraphEffect(opened, name, graph.windowSec)
    /\ UNCHANGED <<remembered, opened, trace, draft, dbcDraft, jobs>>

(* The field is edited, or the file dialog fills it. *)
EditDbcPath(path) ==
    /\ path # dbcPath /\ Changed
    /\ dbcPath' = path
    /\ UNCHANGED <<remembered, opened, selected, screenVars>>

openNamed(name) ==
    /\ name \in Up \ NamesOf(opened) /\ Changed
    /\ opened' = Append(opened, [name |-> name, dbc |-> NoPath])
    /\ selected' = name
    /\ remembered' = upsertBusHint(remembered, name, Keep)
    /\ dbcPath' = dbcPathForBus(persistRef, name)
    /\ GraphEffect(opened', name, graph.windowSec)
    /\ UNCHANGED <<trace, draft, dbcDraft, jobs>>

(* The selected bus if it is open, else the first one shown. *)
headerTargetBus ==
    IF selected \in NamesOf(opened) THEN selected ELSE opened[1].name

(* The Load button, which needs the selected bus open, or Enter in the path   *)
(* field, which needs any.  The catalog is hydrated whichever bus it is for.  *)
loadNamedDbc ==
    /\ opened # <<>> /\ Changed
    /\ opened' = [i \in DOMAIN opened |->
                    IF opened[i].name = headerTargetBus
                    THEN [opened[i] EXCEPT !.dbc = dbcPath] ELSE opened[i]]
    /\ remembered' = upsertBusHint(remembered, headerTargetBus, dbcPath)
    /\ graph' = [graph EXCEPT !.selected =
                    IF persistRef.graph.selected # <<>> THEN persistRef.graph.selected ELSE @]
    /\ UNCHANGED <<selected, dbcPath, trace, draft, dbcDraft, jobs>>

closeNamed ==
    /\ selected \in NamesOf(opened) /\ Changed
    /\ opened' = Filtered(opened, {i \in DOMAIN opened : opened[i].name # selected})
    /\ selected' = IF opened' = <<>> THEN selected ELSE opened'[1].name
    /\ GraphEffect(opened', selected', graph.windowSec)
    /\ UNCHANGED <<remembered, dbcPath, trace, draft, dbcDraft, jobs>>

(* The engine is gone: the buses close, the preferences stay. *)
EngineDisconnected ==
    /\ opened # <<>> /\ Changed
    /\ opened' = <<>>
    /\ UNCHANGED <<remembered, selected, dbcPath, screenVars>>

(* The Trace view: filter, pause or scroll lock. *)
EditTrace(setting) ==
    /\ setting # trace /\ Changed
    /\ trace' = setting
    /\ UNCHANGED <<headerVars, graph, draft, dbcDraft, jobs>>

(* A field of the Raw send panel; the bus field follows the selected bus.     *)
setDraft(setting) ==
    /\ setting # draft /\ Changed
    /\ draft' = setting
    /\ UNCHANGED <<headerVars, trace, graph, dbcDraft, jobs>>

(* A field of the DBC pack panel, which starts over with another catalog.     *)
setDbcDraft(setting) ==
    /\ setting # dbcDraft /\ Changed
    /\ dbcDraft' = setting
    /\ UNCHANGED <<headerVars, trace, graph, draft, jobs>>

setWindowSec(size) ==
    /\ size # graph.windowSec /\ Changed
    /\ GraphEffect(opened, selected, size)
    /\ UNCHANGED <<headerVars, trace, draft, dbcDraft, jobs>>

(* The picker lists what a loaded DBC has. *)
toggleSelected(key) ==
    /\ \E i \in DOMAIN opened : opened[i].dbc # NoPath
    /\ Changed
    /\ graph' = [graph EXCEPT !.selected =
                   IF key \in ToSet(@) THEN Filtered(@, {i \in DOMAIN @ : @[i] # key})
                   ELSE Append(@, key)]
    /\ UNCHANGED <<headerVars, trace, draft, dbcDraft, jobs>>

(* A job that is stopped keeps its row. *)
startCyclic(job) ==
    /\ opened # <<>> /\ Changed
    /\ jobs' = Append(jobs, job)
    /\ UNCHANGED <<headerVars, trace, graph, draft, dbcDraft>>

(* An rx.batch while the graph is not paused: publish gives graph.selected a  *)
(* new identity, so the effect arms its timer again although nothing changed. *)
RxBatch ==
    /\ live /\ opened # <<>>
    /\ timer' = Debounce
    /\ UNCHANGED <<live, headerVars, screenVars, persistRef,
                   outbox, diskVars, steps, exits, faults>>

Tick ==
    /\ live /\ timer > 1
    /\ timer' = timer - 1
    /\ UNCHANGED <<live, headerVars, screenVars, persistRef,
                   outbox, diskVars, steps, exits, faults>>

(* Mutant of Fire: the snapshot is a state the effect depends on. *)
FireArms ==
    /\ live /\ timer = 1 /\ Len(outbox) < MaxPending
    /\ timer' = Debounce
    /\ persistRef' = buildPersistSnapshot
    /\ outbox' = Append(outbox, persistRef')
    /\ UNCHANGED <<live, headerVars, screenVars, diskVars, steps, exits, faults>>

(* The debounce fires: the snapshot is kept and sent to main. *)
Fire ==
    /\ live /\ timer = 1 /\ Len(outbox) < MaxPending
    /\ timer' = 0
    /\ persistRef' = buildPersistSnapshot
    /\ outbox' = Append(outbox, persistRef')
    /\ UNCHANGED <<live, headerVars, screenVars, diskVars, steps, exits, faults>>

-----------------------------------------------------------------------------
(* UserStore.save in main: each file operation is a step, because the process *)
(* may end between two of them.                                               *)

Fault == faults < MaxFaults /\ MoreEvents /\ faults' = faults + 1

Writer(from, to) == live /\ stage = from /\ stage' = to

(* The save ends, or throws. *)
SaveEnds == outbox' = Tail(outbox)

(* Mutant of WriteTmp: the file itself is written. *)
WriteInPlace ==
    /\ outbox # <<>> /\ Writer("idle", "written")
    /\ file' = Partial
    /\ UNCHANGED <<windowVars, outbox, tmp, stored, renameFailed, steps, exits, faults>>

(* writeFileSync creates the temporary file, then fills it. *)
WriteTmp ==
    /\ outbox # <<>> /\ Writer("idle", "written")
    /\ tmp' = Partial
    /\ UNCHANGED <<windowVars, outbox, file, stored, renameFailed, steps, exits, faults>>

FillTmp ==
    /\ Writer("written", "rename")
    /\ tmp' = sanitizePersist(Head(outbox))
    /\ UNCHANGED <<windowVars, outbox, file, stored, renameFailed, steps, exits, faults>>

(* The disk is full: save throws. *)
FillFails ==
    /\ Writer("written", "idle") /\ Fault /\ SaveEnds
    /\ UNCHANGED <<windowVars, tmp, file, stored, renameFailed, steps, exits>>

Rename ==
    /\ \E from \in {"rename", "again"} : Writer(from, "idle")
    /\ file' = tmp /\ stored' = tmp /\ tmp' = Absent
    /\ SaveEnds
    /\ UNCHANGED <<windowVars, renameFailed, steps, exits, faults>>

(* The rename is refused: the old file is removed and the rename tried again. *)
RenameFails ==
    /\ Writer("rename", "unlink") /\ Fault
    /\ renameFailed' = TRUE
    /\ UNCHANGED <<windowVars, outbox, tmp, file, stored, steps, exits>>

Unlink ==
    /\ Writer("unlink", "again")
    /\ file' \in {Absent, file}
    /\ UNCHANGED <<windowVars, outbox, tmp, stored, renameFailed, steps, exits, faults>>

(* What refused the first rename may refuse the second: one fault. *)
RenameFailsAgain ==
    /\ Writer("again", "idle") /\ SaveEnds
    /\ UNCHANGED <<windowVars, tmp, file, stored, renameFailed, steps, exits, faults>>

(* The application quits or is killed, wherever the save is. *)
Exit ==
    /\ live /\ exits < MaxExits /\ MoreEvents
    /\ exits' = exits + 1
    /\ live' = FALSE /\ opened' = <<>> /\ timer' = 0
    /\ remembered' = DEFAULT_PERSIST.buses
    /\ selected' = DefaultName /\ dbcPath' = DefaultPath
    /\ hydratePrefs(DEFAULT_PERSIST)
    /\ persistRef' = DEFAULT_PERSIST
    /\ outbox' = <<>> /\ stage' = "idle"
    /\ UNCHANGED <<tmp, file, stored, renameFailed, steps, faults>>

-----------------------------------------------------------------------------
Window ==
    \/ Launch
    \/ \E name \in Names : selectHeaderBus(name) \/ openNamed(name)
    \/ \E path \in Paths : EditDbcPath(path)
    \/ loadNamedDbc \/ closeNamed \/ EngineDisconnected
    \/ \E setting \in Settings :
          \/ EditTrace(setting) \/ setWindowSec(setting)
          \/ setDraft(setting) \/ setDbcDraft(setting)
    \/ \E key \in Signals : toggleSelected(key)
    \/ \E job \in Definitions : startCyclic(job)
    \/ RxBatch \/ Tick \/ Fire

Save == WriteTmp \/ FillTmp \/ Rename \/ Unlink

Next == Window \/ Save \/ FillFails \/ RenameFails \/ RenameFailsAgain \/ Exit

Spec == Init /\ [][Next]_vars

(* A Tick, a Fire or the end of the window: no other step takes one off. *)
Countdown ==
    /\ live /\ timer > 0 /\ (timer = 1 => Len(outbox) < MaxPending)
    /\ timer' = timer - 1

(* Timers fire and main works off its messages. *)
FairSpec == Spec /\ WF_timer(Countdown) /\ WF_vars(Save)

-----------------------------------------------------------------------------
(* Besides the types: hints are searched by name, so in the header, in the    *)
(* snapshot and in what a launch reads, whatever is wrong in the file, a bus  *)
(* has one hint at most, and there are at most MaxBuses (persist.ts,          *)
(* sanitizePersist and upsertBusHint).                                        *)
TypeOK ==
    /\ live \in BOOLEAN /\ renameFailed \in BOOLEAN
    /\ remembered \in Seq(PersistedBusHint)
    /\ opened \in Seq([name : Names, dbc : Paths \cup {NoPath}])
    /\ selected \in Names /\ dbcPath \in Paths
    /\ {trace, draft, dbcDraft} \subseteq Settings
    /\ graph \in PersistedGraphPrefs /\ jobs \in Seq(Definitions)
    /\ persistRef \in PersistSnapshot
    /\ \A buses \in {remembered, persistRef.buses, sanitizePersist(file).buses} :
         /\ Len(buses) <= MaxBuses
         /\ Cardinality(NamesOf(buses)) = Len(buses)
    /\ Cardinality(ToSet(graph.selected)) = Len(graph.selected)
    /\ timer \in 0..Debounce
    /\ outbox \in Seq(PersistSnapshot)
    /\ stage \in {"idle", "written", "rename", "unlink", "again"}
    /\ steps \in 0..MaxSteps /\ exits \in 0..MaxExits /\ faults \in 0..MaxFaults

(* The snapshot is what the window would build now. *)
SnapshotIsCurrent == persistRef = buildPersistSnapshot

(* Once the debounce has fired the snapshot is what the window would build    *)
(* now: every change armed it.  It has every open bus with the DBC loaded,    *)
(* unless more buses are open than it may have hints, the next launch reads   *)
(* it as it is, and when no save is on the way either it is in the file,      *)
(* unless a file operation failed (App.tsx, the dependencies of the effect;   *)
(* persist.ts, buildPersistSnapshot; userStore.ts, save).                     *)
OpenIsStored ==
    live /\ timer = 0 =>
        /\ SnapshotIsCurrent
        /\ sanitizePersist(persistRef) = persistRef
        /\ Cardinality(NamesOf(opened) \cup {selected}) <= MaxBuses =>
             \A i \in DOMAIN opened :
                 /\ opened[i].name \in NamesOf(persistRef.buses)
                 /\ PathOf(persistRef.buses, opened[i].name) = opened[i].dbc
        /\ outbox = <<>> /\ faults = 0 => file = persistRef

(* "Atomic write: temp file + rename": wherever the process ends, the file is *)
(* the one before the save or the one after it -- unless a rename was refused,*)
(* when the old file may be gone.                                             *)
FileIsWhole ==
    /\ file = Partial => file = stored
    /\ file # stored => renameFailed

(* A change is on its way to the file. *)
Saving == timer > 0 \/ outbox # <<>>

(* If batches do not come for ever, the timer fires and main works off its    *)
(* saves, whatever fails: with OpenIsStored, a change reaches the file unless *)
(* a file operation fails, which nothing tries again (App.tsx, the debounce). *)
SavedWhenQuiet == []<><<RxBatch>>_vars \/ (Saving ~> ~Saving)

(* What the window holds is not in the file. *)
Unsaved == live /\ file # buildPersistSnapshot

(* README: the application "remembers last-used bus names, per-bus DBC        *)
(* paths": a path that the snapshot has for a bus is not dropped while the    *)
(* bus is remembered.                                                         *)
PathsAreKept ==
    [][\A name \in NamesOf(persistRef.buses) \cap NamesOf(persistRef'.buses) :
         PathOf(persistRef.buses, name) # NoPath
             => PathOf(persistRef'.buses, name) # NoPath]_persistRef

(* GraphScreen: "Last window and selected names are remembered": what the     *)
(* window holds is in the file in the end.                                    *)
ChangesAreSaved == Unsaved ~> ~Unsaved

=============================================================================
