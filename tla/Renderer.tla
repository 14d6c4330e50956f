------------------------------ MODULE Renderer ------------------------------
(***************************************************************************)
(* What the window shows against what the engine does: the React state of   *)
(* electron/renderer/src (App.tsx, useTransmitModel.ts and the guards of    *)
(* the header and Transmit buttons), the bridge that carries its calls, and *)
(* the engine's buses and cyclic jobs.                                      *)
(*                                                                          *)
(* Every button starts a call and the handler goes on when the answer is    *)
(* delivered, with the state it read at the click.  The engine answers in   *)
(* order; an answer may come too late (the 8 s timer of main) or never (the *)
(* engine dies), and answers and status events reach the window in order.   *)
(* A bus, a job and a loaded DBC are named by the call that made them; an   *)
(* effect runs with the event that changed its dependencies.                *)
(***************************************************************************)
EXTENDS Integers, Sequences, SequencesExt, FiniteSetsExt, Arrays

CONSTANTS
    Names,        \* interfaces the machine may have
    NoName,       \* no interface
    LastBusName,  \* the selection restored from the store
    Hydrated,     \* the number of cyclic definitions restored from the store
    MaxCalls,     \* bound: calls the user makes
    MaxCrashes    \* bound: deaths of the engine

ASSUME RendererBounds ==
    /\ NoName \notin Names /\ LastBusName \in Names
    /\ MaxCalls \in Nat /\ MaxCrashes \in Nat /\ Hydrated \in Nat

VARIABLES
    \* the engine and main
    up,         \* the supervisor's status.connected
    buses,      \* the engine's open buses: [bus -> [name, dbc]]
    jobs,       \* the engine's cyclic jobs: [job -> bus]
    queue,      \* calls sent to the engine and not handled yet
    inbox,      \* answers and status events on their way to the window
    \* the window
    info,       \* info.connected
    opened,     \* the buses the header shows
    selected,   \* selectedBus
    connecting, \* the Connect button waits
    rows,       \* the cyclic jobs table
    active,     \* the graph's activeBusId
    picker,     \* the buses whose DBC entries the graph's picker lists
    \* history and bounds
    lost,       \* calls answered by the timer of main, or failed when half done
    calls,      \* calls made
    crashes     \* deaths of the engine

engineVars == <<up, buses, jobs>>
graphVars  == <<active, picker>>
windowVars == <<info, opened, selected, connecting, rows, graphVars>>
vars == <<engineVars, queue, inbox, windowVars, lost, calls, crashes>>

NoBus  == 0
Ids    == 1..MaxCalls
Kinds  == {"list", "open", "close", "load", "start", "stop"}

(* A call: `target` is its bus or job, `name` what the handler keeps of the   *)
(* state at the click, `live` whether main still waits for its answer.        *)
Calls == [kind : Kinds, id : 0..MaxCalls, target : 0..MaxCalls,
          name : Names \cup {NoName}, live : BOOLEAN]

Messages == [kind : Kinds \cup {"status"}, ok : BOOLEAN, gone : BOOLEAN,
             id : 0..MaxCalls, target : 0..MaxCalls, name : Names \cup {NoName}]

OpenedBus    == [bus : Ids, name : Names, dbc : 0..MaxCalls]
CyclicJobRow == [id : Int, bus : 0..MaxCalls, running : BOOLEAN]

Nothing == [x \in {} |-> NoBus]

(* Job ids are positive, definition ids negative. *)
cyclicJobDefinitionId(index) == -index

Init ==
    /\ up = FALSE /\ buses = Nothing /\ jobs = Nothing
    /\ queue = <<>> /\ inbox = <<>>
    /\ info = FALSE /\ opened = <<>> /\ connecting = FALSE
    /\ selected = LastBusName
    /\ rows = [i \in 1..Hydrated |->
                 [id |-> cyclicJobDefinitionId(i), bus |-> NoBus, running |-> FALSE]]
    /\ active = NoBus /\ picker = {}
    /\ lost = {} /\ calls = 0 /\ crashes = 0

-----------------------------------------------------------------------------
(* The bridge: a call becomes a request of the supervisor's client; what it   *)
(* returns or throws becomes one answer.                                      *)

Answer(c, ok, gone) ==
    [kind |-> c.kind, ok |-> ok, gone |-> gone,
     id |-> c.id, target |-> c.target, name |-> c.name]

Lose(c) == [kind |-> c.kind, id |-> c.id, target |-> c.target]

Fails(c) == Answer(c, FALSE, FALSE)

Status(connected) ==
    [kind |-> "status", ok |-> connected, gone |-> FALSE,
     id |-> 0, target |-> 0, name |-> NoName]

(* A call made when main has no engine is refused at once. *)
Request(c, messages) ==
    IF up THEN queue' = Append(queue, c) /\ inbox' = messages
          ELSE inbox' = Append(messages, Fails(c)) /\ UNCHANGED queue

(* A button's handler: the call gets the next id. *)
Call(kind, target, name) ==
    /\ calls < MaxCalls
    /\ calls' = calls + 1
    /\ Request([kind |-> kind, id |-> calls + 1, target |-> target,
                name |-> name, live |-> TRUE], inbox)
    /\ UNCHANGED <<engineVars, info, opened, selected, rows, graphVars, lost, crashes>>

-----------------------------------------------------------------------------
(* The window's buttons. *)

BusesShown == {opened[i].bus : i \in DOMAIN opened}
NamesShown == {opened[i].name : i \in DOMAIN opened}

(* opened.find: the first bus shown under a name. *)
FindOpened(list, name) ==
    LET at == {i \in DOMAIN list : list[i].name = name}
    IN  IF at = {} THEN NoBus ELSE list[Min(at)].bus

Without(list, bus) == Filtered(list, {i \in DOMAIN list : list[i].bus # bus})

remainingSelectedBus(list, bus, name) ==
    LET remaining == Without(list, bus)
    IN  CASE \E i \in DOMAIN remaining : remaining[i].name = name -> name
          [] remaining = <<>> -> name
          [] OTHER -> remaining[1].name

(* Mutant: the picker survives a change of bus. *)
KeepPicker(list, name, entries) ==
    LET bus == FindOpened(list, name)
    IN  /\ active' = bus
        /\ picker' = entries \cup {item.bus : item \in
                       {i \in ToSet(list) : i.bus = bus /\ i.dbc # 0}}

(* Mutant: with no open bus selected the graph stays on the last one. *)
StayOnBus(list, name, entries) ==
    LET bus == FindOpened(list, name)
    IN  /\ active' = IF bus = NoBus THEN active ELSE bus
        /\ picker' = IF bus = active THEN entries ELSE {}

(* The effect on opened and selectedBus: the graph follows the selected bus,  *)
(* and a loaded DBC fills the picker.  Entries of another DBC stay while they *)
(* are selected or were seen.                                                 *)
GraphEffect(list, name, entries) ==
    LET bus     == FindOpened(list, name)
        present == IF bus = active THEN entries ELSE {}
        loaded  == \E i \in DOMAIN list : list[i].bus = bus /\ list[i].dbc # 0
    IN  /\ active' = bus
        /\ IF loaded
           THEN \E kept \in SUBSET (present \ {bus}) : picker' = {bus} \cup kept
           ELSE picker' = present

(* The list of buses, or a chip, which is offered without an engine too. *)
SelectHeaderBus(name) ==
    /\ name # selected
    /\ selected' = name
    /\ GraphEffect(opened, name, picker)
    /\ UNCHANGED <<engineVars, queue, inbox, info, opened, connecting, rows,
                   lost, calls, crashes>>

(* Connect: connectDisabled is FALSE. *)
HeaderConnect ==
    /\ info /\ ~connecting /\ selected \notin NamesShown
    /\ connecting' = TRUE
    /\ Call("open", NoBus, selected)

(* Disconnect: the selection after the close is computed from this render. *)
HeaderDisconnect ==
    /\ info /\ selected \in NamesShown
    /\ LET bus == FindOpened(opened, selected)
       IN  Call("close", bus, remainingSelectedBus(opened, bus, selected))
    /\ UNCHANGED connecting

headerTargetBus ==
    IF selected \in NamesShown THEN FindOpened(opened, selected) ELSE opened[1].bus

(* Load, or Enter in the path field, which asks for the engine only: with the *)
(* selected bus not open the DBC goes to the first bus shown.                 *)
HeaderLoadDbc ==
    /\ info /\ opened # <<>>
    /\ Call("load", headerTargetBus, NoName)
    /\ UNCHANGED connecting

(* Start of the Raw send or DBC pack panel, which target any shown bus. *)
StartCyclic ==
    /\ info
    /\ \E bus \in BusesShown : Call("start", bus, NoName)
    /\ UNCHANGED connecting

StopJob ==
    /\ info
    /\ \E i \in DOMAIN rows : rows[i].running /\ Call("stop", rows[i].id, NoName)
    /\ UNCHANGED connecting

-----------------------------------------------------------------------------
(* The engine takes the calls in order; the answer of a call that main gave   *)
(* up on is dropped.                                                          *)

Taken(ok, gone) ==
    /\ queue' = Tail(queue)
    /\ inbox' = IF Head(queue).live THEN Append(inbox, Answer(Head(queue), ok, gone))
                ELSE inbox
    /\ UNCHANGED <<up, windowVars, lost, calls, crashes>>

(* The call takes effect and is answered with an error all the same.          *)
HalfDone ==
    LET c == Head(queue)
    IN  /\ queue' = Tail(queue)
        /\ inbox' = IF c.live THEN Append(inbox, Fails(c)) ELSE inbox
        /\ lost' = lost \cup {Lose(c)}
        /\ UNCHANGED <<up, windowVars, calls, crashes>>

NextCall(kind) == queue # <<>> /\ Head(queue).kind = kind

NamesOpen == {buses[b].name : b \in DOMAIN buses}

HandleList == NextCall("list") /\ Taken(TRUE, FALSE) /\ UNCHANGED <<buses, jobs>>

(* These calls may fail and change nothing; an open does when its interface   *)
(* is open already.                                                           *)
HandleFails ==
    /\ queue # <<>> /\ Head(queue).kind \in {"list", "open", "load", "start"}
    /\ Taken(FALSE, FALSE)
    /\ UNCHANGED <<buses, jobs>>

HandleOpen ==
    /\ NextCall("open") /\ Head(queue).name \notin NamesOpen
    /\ buses' = [b \in DOMAIN buses \cup {Head(queue).id} |->
                   IF b = Head(queue).id THEN [name |-> Head(queue).name, dbc |-> 0]
                   ELSE buses[b]]
    /\ Taken(TRUE, FALSE)
    /\ UNCHANGED jobs

(* Closing a bus stops its jobs.  The registries are emptied first: when the  *)
(* shutdown of the interface raises, the answer is close_failed.              *)
HandleClose ==
    /\ NextCall("close")
    /\ LET bus == Head(queue).target
           known == bus \in DOMAIN buses
       IN  /\ buses' = [b \in DOMAIN buses \ {bus} |-> buses[b]]
           /\ jobs' = [j \in {k \in DOMAIN jobs : jobs[k] # bus} |-> jobs[j]]
           /\ Taken(known, ~known) \/ (known /\ HalfDone)

(* The DBC is stored before its catalog is sent: when the message is too      *)
(* large, the answer is an error.                                             *)
HandleLoad ==
    /\ NextCall("load") /\ Head(queue).target \in DOMAIN buses
    /\ buses' = [buses EXCEPT ![Head(queue).target].dbc = Head(queue).id]
    /\ Taken(TRUE, FALSE) \/ HalfDone
    /\ UNCHANGED jobs

HandleStart ==
    /\ NextCall("start") /\ Head(queue).target \in DOMAIN buses
    /\ jobs' = [j \in DOMAIN jobs \cup {Head(queue).id} |->
                  IF j = Head(queue).id THEN Head(queue).target ELSE jobs[j]]
    /\ Taken(TRUE, FALSE)
    /\ UNCHANGED buses

HandleStop ==
    /\ NextCall("stop")
    /\ LET job == Head(queue).target
       IN  /\ jobs' = [j \in DOMAIN jobs \ {job} |-> jobs[j]]
           /\ Taken(job \in DOMAIN jobs, job \notin DOMAIN jobs)
    /\ UNCHANGED buses

(* The 8 s timers fire in the order of the calls. *)
Timeout ==
    /\ \E i \in DOMAIN queue :
         /\ queue[i].live /\ \A j \in 1..(i - 1) : ~queue[j].live
         /\ queue' = [queue EXCEPT ![i].live = FALSE]
         /\ inbox' = Append(inbox, Fails(queue[i]))
         /\ lost' = lost \cup {Lose(queue[i])}
    /\ UNCHANGED <<engineVars, windowVars, calls, crashes>>

(* The engine dies with its buses and jobs: the status goes out first, then   *)
(* the rejected calls in their order.                                         *)
Crash ==
    /\ up /\ crashes < MaxCrashes
    /\ crashes' = crashes + 1
    /\ up' = FALSE /\ buses' = Nothing /\ jobs' = Nothing /\ queue' = <<>>
    /\ LET waiting == Filtered(queue, {i \in DOMAIN queue : queue[i].live})
       IN  inbox' = inbox \o <<Status(FALSE)>> \o [i \in DOMAIN waiting |-> Fails(waiting[i])]
    /\ UNCHANGED <<windowVars, lost, calls>>

(* engine.hello of the next engine. *)
Respawn ==
    /\ ~up
    /\ up' = TRUE
    /\ inbox' = Append(inbox, Status(TRUE))
    /\ UNCHANGED <<buses, jobs, queue, windowVars, lost, calls, crashes>>

-----------------------------------------------------------------------------
(* The window receives the next message. *)

Receive(kind) == inbox # <<>> /\ Head(inbox).kind = kind /\ inbox' = Tail(inbox)

Elsewhere == UNCHANGED <<engineVars, queue, lost, calls, crashes>>

Stopped(row) == [row EXCEPT !.running = FALSE]

(* Mutant of reset: every stopped row is renamed as the first one. *)
RenameFirst ==
    [i \in DOMAIN rows |->
       [Stopped(rows[i]) EXCEPT !.id = IF rows[i].running THEN -1 ELSE @]]

(* useTransmitModel.reset: what ran is remembered as a definition. *)
ResetRows ==
    [i \in DOMAIN rows |->
       [Stopped(rows[i]) EXCEPT
          !.id = IF rows[i].running THEN cyclicJobDefinitionId(i) ELSE @]]

(* Mutant of Disconnected: the header keeps its buses. *)
DisconnectedKeeps ==
    /\ Receive("status") /\ ~Head(inbox).ok
    /\ info' = FALSE
    /\ rows' = IF info THEN ResetRows ELSE rows
    /\ UNCHANGED <<opened, selected, connecting, graphVars>> /\ Elsewhere

(* The engine is gone: the window forgets its buses. *)
Disconnected ==
    /\ Receive("status") /\ ~Head(inbox).ok
    /\ info' = FALSE
    /\ IF info
       THEN opened' = <<>> /\ rows' = ResetRows /\ active' = NoBus /\ picker' = {}
       ELSE UNCHANGED <<opened, rows, graphVars>>
    /\ UNCHANGED <<selected, connecting>> /\ Elsewhere

(* The engine is there: the window lists the interfaces. *)
Connected ==
    /\ inbox # <<>> /\ Head(inbox).kind = "status" /\ Head(inbox).ok
    /\ info' = TRUE
    /\ Request([kind |-> "list", id |-> 0, target |-> 0,
                name |-> selected, live |-> TRUE], Tail(inbox))
    /\ UNCHANGED <<engineVars, opened, selected, connecting, rows, graphVars,
                   lost, calls, crashes>>

(* refreshList: a selection that is neither listed nor remembered gives way   *)
(* to the first interface listed.                                             *)
ListAnswered ==
    /\ Receive("list")
    /\ \/ UNCHANGED <<selected, graphVars>>
       \/ /\ Head(inbox).ok
          /\ \E first \in Names \ {Head(inbox).name} :
               selected' = first /\ GraphEffect(opened, first, picker)
    /\ UNCHANGED <<info, opened, connecting, rows>> /\ Elsewhere

(* openNamed, after the await. *)
OpenAnswered ==
    /\ Receive("open")
    /\ connecting' = FALSE
    /\ LET m    == Head(inbox)
           list == Append(opened, [bus |-> m.id, name |-> m.name, dbc |-> 0])
       IN  IF m.ok
           THEN opened' = list /\ selected' = m.name /\ GraphEffect(list, m.name, picker)
           ELSE UNCHANGED <<opened, selected, graphVars>>
    /\ UNCHANGED <<info, rows>> /\ Elsewhere

(* useTransmitModel.markBusClosed *)
RowsWithout(bus) ==
    [i \in DOMAIN rows |-> IF rows[i].bus = bus THEN Stopped(rows[i]) ELSE rows[i]]

(* closeNamed, after the await. *)
CloseAnswered ==
    /\ Receive("close")
    /\ LET m    == Head(inbox)
           list == Without(opened, m.target)
       IN  IF m.ok
           THEN /\ opened' = list /\ selected' = m.name
                /\ rows' = RowsWithout(m.target)
                /\ GraphEffect(list, m.name, picker)
           ELSE UNCHANGED <<opened, selected, rows, graphVars>>
    /\ UNCHANGED <<info, connecting>> /\ Elsewhere

(* Mutant of loadNamedDbc: the DBC is noted for the bus selected now. *)
NoteForSelected(m) ==
    [i \in DOMAIN opened |->
       IF opened[i].name = selected THEN [opened[i] EXCEPT !.dbc = m.id] ELSE opened[i]]

WithDbc(m) ==
    [i \in DOMAIN opened |->
       IF opened[i].bus = m.target THEN [opened[i] EXCEPT !.dbc = m.id] ELSE opened[i]]

(* loadNamedDbc, after the await: the catalog goes to the graph whichever bus *)
(* the graph shows by now, then the effect runs.                              *)
LoadAnswered ==
    /\ Receive("load")
    /\ LET m == Head(inbox)
       IN  IF m.ok
           THEN /\ opened' = WithDbc(m)
                /\ \E kept \in SUBSET (picker \ {m.target}) :
                     GraphEffect(WithDbc(m), selected, {m.target} \cup kept)
           ELSE UNCHANGED <<opened, graphVars>>
    /\ UNCHANGED <<info, selected, connecting, rows>> /\ Elsewhere

StartAnswered ==
    /\ Receive("start")
    /\ rows' = IF Head(inbox).ok
               THEN Append(rows, [id |-> Head(inbox).id, bus |-> Head(inbox).target,
                                  running |-> TRUE])
               ELSE rows
    /\ UNCHANGED <<info, opened, selected, connecting, graphVars>> /\ Elsewhere

(* stopJob, after the await: job_not_found stops the row too. *)
StopAnswered ==
    /\ Receive("stop")
    /\ rows' = [i \in DOMAIN rows |->
                  IF rows[i].id = Head(inbox).target /\ (Head(inbox).ok \/ Head(inbox).gone)
                  THEN Stopped(rows[i]) ELSE rows[i]]
    /\ UNCHANGED <<info, opened, selected, connecting, graphVars>> /\ Elsewhere

-----------------------------------------------------------------------------
User == \/ \E name \in Names : SelectHeaderBus(name)
        \/ HeaderConnect \/ HeaderDisconnect \/ HeaderLoadDbc
        \/ StartCyclic \/ StopJob

Engine == \/ HandleList \/ HandleFails \/ HandleOpen \/ HandleClose
          \/ HandleLoad \/ HandleStart \/ HandleStop

Deliver == \/ Disconnected \/ Connected \/ ListAnswered \/ OpenAnswered
           \/ CloseAnswered \/ LoadAnswered \/ StartAnswered \/ StopAnswered

Next == User \/ Engine \/ Timeout \/ Crash \/ Respawn \/ Deliver

Spec == Init /\ [][Next]_vars

-----------------------------------------------------------------------------
TypeOK ==
    /\ up \in BOOLEAN /\ info \in BOOLEAN /\ connecting \in BOOLEAN
    /\ DOMAIN buses \subseteq Ids
    /\ \A b \in DOMAIN buses : buses[b] \in [name : Names, dbc : 0..MaxCalls]
    /\ DOMAIN jobs \subseteq Ids /\ \A j \in DOMAIN jobs : jobs[j] \in DOMAIN buses
    /\ queue \in Seq(Calls) /\ inbox \in Seq(Messages)
    /\ opened \in Seq(OpenedBus) /\ selected \in Names
    /\ rows \in Seq(CyclicJobRow)
    /\ active \in {NoBus} \cup BusesShown /\ picker \subseteq Ids
    /\ lost \subseteq [kind : Kinds, id : 0..MaxCalls, target : Int]
    /\ calls \in 0..MaxCalls /\ crashes \in 0..MaxCrashes

(* What is on its way to the window, or was lost: given up on by main, or     *)
(* answered with an error after it took effect.                               *)
Falling == \E m \in ToSet(inbox) : m.kind = "status" /\ ~m.ok

Announced(kind, id) ==
    \E m \in ToSet(inbox) : m.kind = kind /\ m.id = id /\ m.ok
Settled(kind, target) ==
    \E m \in ToSet(inbox) : m.kind = kind /\ m.target = target /\ (m.ok \/ m.gone)
Lost(kind, target) == \E c \in lost : c.kind = kind /\ c.target = target
LostCall(kind, id) == \E c \in lost : c.kind = kind /\ c.id = id

(* A bus the header shows is open in the engine, unless the news of its end   *)
(* is on the way or its close was lost (given up on by main, or close_failed):*)
(* then it is shown until the engine disconnects, closeNamed returning on an  *)
(* error.                                                                     *)
ShownIsOpen ==
    \A bus \in BusesShown :
        \/ bus \in DOMAIN buses
        \/ Falling \/ Settled("close", bus) \/ Lost("close", bus)

(* A bus the engine has open is shown, unless its answer is on the way or was *)
(* lost: then nothing in the window can close it.                             *)
OpenIsShown ==
    \A bus \in DOMAIN buses :
        \/ bus \in BusesShown
        \/ Announced("open", bus) \/ LostCall("open", bus)

(* The header shows the buses the engine has open, once each and under names  *)
(* of their own: opened is searched by name (App.tsx, openNamed, closeNamed   *)
(* and the status event).                                                     *)
ShownMirrorsOpen ==
    /\ ShownIsOpen /\ OpenIsShown
    /\ \A i, j \in DOMAIN opened : opened[i].name = opened[j].name => i = j

(* A row that says Running is a job the engine runs, unless the news of its   *)
(* end is on the way or was lost.                                             *)
RunningIsLive ==
    \A i \in DOMAIN rows : rows[i].running =>
        \/ rows[i].id \in DOMAIN jobs
        \/ Falling
        \/ Settled("stop", rows[i].id) \/ Lost("stop", rows[i].id)
        \/ Settled("close", rows[i].bus) \/ Lost("close", rows[i].bus)

(* Every job the engine runs has a row with a Stop button, unless its answer  *)
(* is on the way or was lost: reset, markBusClosed and job_not_found never    *)
(* stop the row of a live job.                                                *)
LiveIsRunning ==
    \A job \in DOMAIN jobs :
        \/ \E i \in DOMAIN rows : rows[i].id = job /\ rows[i].running
        \/ Announced("start", job) \/ LostCall("start", job)

(* The table of cyclic jobs shows what the engine sends, and each row has an  *)
(* id of its own: rows are updated by id (useTransmitModel.ts, startCyclic,   *)
(* stopJob, markBusClosed and reset).                                         *)
RowsMirrorJobs ==
    /\ RunningIsLive /\ LiveIsRunning
    /\ \A i, j \in DOMAIN rows : rows[i].id = rows[j].id => i = j

(* The catalog the Transmit panel offers for a bus is that of the DBC the     *)
(* engine packs with on that bus, unless the answer of the load of that DBC   *)
(* is on its way or was lost: the next load that is answered repairs it.      *)
DbcShownIsLoaded ==
    \A i \in DOMAIN opened :
        LET bus == opened[i].bus
        IN  bus \in DOMAIN buses =>
              \/ opened[i].dbc = buses[bus].dbc
              \/ Announced("load", buses[bus].dbc) \/ LostCall("load", buses[bus].dbc)

(* README: "Switching the active bus swaps that bus's DBC catalog": after a   *)
(* switch the picker has nothing of another bus.                              *)
SwitchSwapsCatalog ==
    [][active' # active => picker' \subseteq {active'}]_vars

=============================================================================
