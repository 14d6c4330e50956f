----------------------------- MODULE BusManager -----------------------------
(***************************************************************************)
(* The control plane of the engine: can_engine/bus.py (BusManager), with    *)
(* the cyclic jobs of can_engine/tx.py, the recv threads of can_engine/rx.py *)
(* and the per-bus stores they share (rates, DBC bindings).                 *)
(*                                                                          *)
(* Request handlers run one at a time on the asyncio thread, and only the   *)
(* asyncio thread changes the registries.  One recv thread per bus and one  *)
(* thread per cyclic job run beside it, read the registries and write the   *)
(* rate table.  Handlers that wait for a thread, or that a thread can       *)
(* observe half done, are split at those points.  A request the handler     *)
(* refuses (unknown id, bad payload, interface down) changes nothing and is *)
(* a guard here.  The contents of a receive queue are in module RxPump.     *)
(***************************************************************************)
EXTENDS FiniteSets

CONSTANTS
    Ifaces,         \* the SocketCAN interfaces that are up
    BusIds,         \* the busIds (uuid4) that opens will draw, each at most once
    JobIds,         \* the job_ids that starts will draw, each at most once
    None,           \* no interface, no bus, no job
    JoinMayTimeOut  \* TRUE: a thread may outlive the 1 s join of stop()

ASSUME JoinAssumption == JoinMayTimeOut \in BOOLEAN
ASSUME NoneAssumption == None \notin Ifaces \cup BusIds \cup JobIds

VARIABLES
    buses,      \* keys of _buses; _names has the same keys
    pumps,      \* keys of _pumps
    locks,      \* keys of _send_locks
    dbc,        \* busIds with a DBC bound (DbcStore)
    rates,      \* busIds with a key in the rate table (RateTracker)
    iface,      \* iface[b]: the interface b was opened on
    socket,     \* socket[b]: the python-can bus object
    queued,     \* the buses whose pump has frames queued
    rpc,        \* rpc[b]: where b's recv thread is
    rstop,      \* the buses whose recv thread has been told to stop
    jobs,       \* keys of CyclicScheduler._jobs
    jobBus,     \* jobBus[j]: the bus of job j's TxSpec
    jpc,        \* jpc[j]: where job j's thread is
    jstop,      \* the jobs that have been told to stop
    lpc,        \* where the asyncio thread is in its handler
    task,       \* the handler it is in
    target,     \* the bus that handler works on
    victims,    \* the jobs that handler still has to stop
    joining     \* the job whose thread it is joining

registryVars == <<buses, pumps, locks, dbc, iface, socket>>
recvVars     == <<rpc, rstop>>
jobVars      == <<jobs, jobBus, jpc, jstop>>
loopVars     == <<lpc, task, target, victims, joining>>
vars == <<buses, pumps, locks, dbc, rates, iface, socket, queued, rpc, rstop,
          jobs, jobBus, jpc, jstop, lpc, task, target, victims, joining>>

Init ==
    /\ buses = {} /\ pumps = {} /\ locks = {} /\ dbc = {} /\ rates = {}
    /\ iface = [b \in BusIds |-> None]
    /\ socket = [b \in BusIds |-> "none"]
    /\ queued = {}
    /\ rpc = [b \in BusIds |-> "none"]
    /\ rstop = {}
    /\ jobs = {}
    /\ jobBus = [j \in JobIds |-> None]
    /\ jpc = [j \in JobIds |-> "none"]
    /\ jstop = {}
    /\ lpc = "idle" /\ task = "none" /\ target = None
    /\ victims = {} /\ joining = None

-----------------------------------------------------------------------------
(* Handlers of the asyncio thread *)

Handling == lpc = "idle" /\ task # "exit"

(* Mutant of Open: without the iface_already_open check. *)
OpenTwice(b, i) ==
    /\ Handling
    /\ socket[b] = "none"
    /\ buses' = buses \cup {b}
    /\ pumps' = pumps \cup {b}
    /\ locks' = locks \cup {b}
    /\ iface' = [iface EXCEPT ![b] = i]
    /\ socket' = [socket EXCEPT ![b] = "open"]
    /\ rpc' = [rpc EXCEPT ![b] = "loop"]
    /\ UNCHANGED <<dbc, rates, queued, rstop, jobVars, loopVars>>

(* bus.open: a fresh busId is registered everywhere, then the recv thread     *)
(* starts.  The interface must not be open under another busId.               *)
Open(b, i) ==
    /\ Handling
    /\ socket[b] = "none"
    /\ \A c \in buses : iface[c] # i
    /\ buses' = buses \cup {b}
    /\ pumps' = pumps \cup {b}
    /\ locks' = locks \cup {b}
    /\ iface' = [iface EXCEPT ![b] = i]
    /\ socket' = [socket EXCEPT ![b] = "open"]
    /\ rpc' = [rpc EXCEPT ![b] = "loop"]
    /\ UNCHANGED <<dbc, rates, queued, rstop, jobVars, loopVars>>

LoadDbc(b) ==
    /\ Handling
    /\ b \in buses
    /\ dbc' = dbc \cup {b}
    /\ UNCHANGED <<buses, pumps, locks, iface, socket, rates, queued, recvVars,
                   jobVars, loopVars>>

ClearDbc(b) ==
    /\ Handling
    /\ b \in buses
    /\ dbc' = dbc \ {b}
    /\ UNCHANGED <<buses, pumps, locks, iface, socket, rates, queued, recvVars,
                   jobVars, loopVars>>

(* A frame is rated, decoded and enqueued; a full queue gives up one.  A      *)
(* thread that outlived close does so on a pump nobody drains any more.  At   *)
(* RATE_KEY_MAX a new key evicts the oldest: it may be the last one of any    *)
(* bus.                                                                       *)
RateAndEnqueue(b) ==
    /\ \/ rates' = rates \cup {b}
       \/ \E c \in rates : rates' = (rates \ {c}) \cup {b}
    /\ queued' = queued \cup ({b} \cap pumps)

(* The send lock of a bus is held exactly by a job thread that is sending.    *)
LockFree(b) == \A j \in JobIds : ~(jpc[j] = "send" /\ jobBus[j] = b)

(* tx.send: wait for the send lock of the bus ... *)
TxSend(b) ==
    /\ Handling
    /\ b \in buses
    /\ lpc' = "tx_lock" /\ task' = "send" /\ target' = b
    /\ UNCHANGED <<registryVars, rates, queued, recvVars, jobVars, victims, joining>>

(* ... then send and echo, or fail in send.  The echo updates the rate table. *)
TxSendLocked ==
    /\ lpc = "tx_lock"
    /\ LockFree(target)
    /\ RateAndEnqueue(target) \/ UNCHANGED <<rates, queued>>
    /\ lpc' = "idle" /\ task' = "none" /\ target' = None
    /\ UNCHANGED <<registryVars, recvVars, jobVars, victims, joining>>

(* tx.cyclic.start: the job is registered and its thread started. *)
StartCyclic(j, b) ==
    /\ Handling
    /\ jpc[j] = "none"
    /\ b \in buses
    /\ jobs' = jobs \cup {j}
    /\ jobBus' = [jobBus EXCEPT ![j] = b]
    /\ jpc' = [jpc EXCEPT ![j] = "loop"]
    /\ UNCHANGED <<registryVars, rates, queued, recvVars, jstop, loopVars>>

(* tx.cyclic.stop: the job leaves the map, then its thread is stopped. *)
StopCyclic(j) ==
    /\ Handling
    /\ j \in jobs
    /\ jobs' = jobs \ {j}
    /\ victims' = {j}
    /\ lpc' = "stop_jobs" /\ task' = "stop"
    /\ UNCHANGED <<registryVars, rates, queued, recvVars, jobBus, jpc, jstop, target,
                   joining>>

(* Mutant of CloseFirst: stop_bus without the filter by busId. *)
CloseFirstStopsAll(b) ==
    /\ victims' = jobs
    /\ jobs' = {}
    /\ target' = b
    /\ lpc' = "stop_jobs"
    /\ UNCHANGED <<registryVars, rates, queued, recvVars, jobBus, jpc, jstop,
                   joining>>

(* bus.close: first CyclicScheduler.stop_bus takes the bus's jobs ... *)
CloseFirst(b) ==
    /\ victims' = {j \in jobs : jobBus[j] = b}
    /\ jobs' = jobs \ victims'
    /\ target' = b
    /\ lpc' = "stop_jobs"
    /\ UNCHANGED <<registryVars, rates, queued, recvVars, jobBus, jpc, jstop,
                   joining>>

(* A bus that is closed already goes through the same steps, which still      *)
(* clear its rates, before the answer is bus_not_found.                       *)
Close(b) ==
    /\ Handling
    /\ socket[b] # "none"
    /\ CloseFirst(b)
    /\ task' = "close"

(* ... and stops them one after the other: set the event, then join. *)
StopJob(j) ==
    /\ lpc = "stop_jobs"
    /\ joining = None
    /\ j \in victims
    /\ jstop' = jstop \cup {j}
    /\ joining' = j
    /\ UNCHANGED <<registryVars, rates, queued, recvVars, jobs, jobBus, jpc, lpc, task,
                   target, victims>>

(* Mutant of JobJoined: the event is set but the thread is not joined. *)
JobNotJoined ==
    /\ lpc = "stop_jobs"
    /\ joining # None
    /\ victims' = victims \ {joining}
    /\ joining' = None
    /\ UNCHANGED <<registryVars, rates, queued, recvVars, jobVars, lpc, task, target>>

JobJoined ==
    /\ lpc = "stop_jobs"
    /\ joining # None
    /\ jpc[joining] = "dead"
    /\ victims' = victims \ {joining}
    /\ joining' = None
    /\ UNCHANGED <<registryVars, rates, queued, recvVars, jobVars, lpc, task, target>>

(* Mutant of StopDone: close_all returns after stop_all. *)
StopDoneForgetsExit ==
    /\ lpc = "stop_jobs"
    /\ task = "stop" \/ (task = "exit" /\ target = None)
    /\ victims = {}
    /\ lpc' = "idle"
    /\ task' = "none"
    /\ UNCHANGED <<registryVars, rates, queued, recvVars, jobVars, target, victims,
                   joining>>

(* tx.cyclic.stop, and close_all's stop_all, end with the last job. *)
StopDone ==
    /\ lpc = "stop_jobs"
    /\ task = "stop" \/ (task = "exit" /\ target = None)
    /\ victims = {}
    /\ lpc' = "idle"
    /\ task' = IF task = "exit" THEN "exit" ELSE "none"
    /\ UNCHANGED <<registryVars, rates, queued, recvVars, jobVars, target, victims,
                   joining>>

(* Mutant of ClosePump: the queue is not dropped with its pump. *)
ClosePumpKeepsQueue ==
    /\ lpc = "stop_jobs"
    /\ target # None
    /\ victims = {}
    /\ pumps' = pumps \ {target}
    /\ rstop' = rstop \cup {target}
    /\ lpc' = IF target \in pumps THEN "join_pump" ELSE "clear"
    /\ UNCHANGED <<buses, locks, dbc, iface, socket, rates, queued, rpc, jobVars, task,
                   target, victims, joining>>

(* close: pop the pump, if it is there, and tell its thread to stop ... *)
ClosePump ==
    /\ lpc = "stop_jobs"
    /\ target # None
    /\ victims = {}
    /\ pumps' = pumps \ {target}
    /\ queued' = queued \ {target}
    /\ rstop' = rstop \cup {target}
    /\ lpc' = IF target \in pumps THEN "join_pump" ELSE "clear"
    /\ UNCHANGED <<buses, locks, dbc, iface, socket, rates, rpc, jobVars, task,
                   target, victims, joining>>

(* Mutant of PumpJoined: the recv thread is told to stop but not joined. *)
PumpNotJoined ==
    /\ lpc = "join_pump"
    /\ lpc' = "clear"
    /\ UNCHANGED <<registryVars, rates, queued, recvVars, jobVars, task, target, victims,
                   joining>>

(* ... join it ... *)
PumpJoined ==
    /\ lpc = "join_pump"
    /\ rpc[target] = "dead"
    /\ lpc' = "clear"
    /\ UNCHANGED <<registryVars, rates, queued, recvVars, jobVars, task, target, victims,
                   joining>>

(* The joins of stop() give up after 1 s; the thread lives on. *)
JoinTimesOut ==
    /\ JoinMayTimeOut
    /\ \/ /\ lpc = "stop_jobs" /\ joining # None
          /\ victims' = victims \ {joining}
          /\ joining' = None
          /\ UNCHANGED lpc
       \/ /\ lpc = "join_pump"
          /\ lpc' = "clear"
          /\ UNCHANGED <<victims, joining>>
    /\ UNCHANGED <<registryVars, rates, queued, recvVars, jobVars, task, target>>

(* Mutant of CloseClear: the rates are kept. *)
CloseKeepsRates ==
    /\ lpc = "clear"
    /\ dbc' = dbc \ {target}
    /\ lpc' = "unregister"
    /\ UNCHANGED <<buses, pumps, locks, iface, socket, rates, queued, recvVars, jobVars, task,
                   target, victims, joining>>

(* ... forget the DBC and the rates ... *)
CloseClear ==
    /\ lpc = "clear"
    /\ dbc' = dbc \ {target}
    /\ rates' = rates \ {target}
    /\ lpc' = "unregister"
    /\ UNCHANGED <<buses, pumps, locks, iface, socket, queued, recvVars, jobVars, task,
                   target, victims, joining>>

(* The handler is over; close_all goes on with the next bus. *)
CloseReturns ==
    /\ lpc' = "idle"
    /\ task' = IF task = "exit" THEN "exit" ELSE "none"
    /\ target' = None

(* ... drop the bus from the registries (bus_not_found if it was not there) ... *)
CloseUnregister ==
    /\ lpc = "unregister"
    /\ buses' = buses \ {target}
    /\ locks' = locks \ {target}
    /\ IF target \in buses THEN lpc' = "shutdown" /\ UNCHANGED <<task, target>>
                            ELSE CloseReturns
    /\ UNCHANGED <<pumps, dbc, iface, socket, rates, queued, recvVars, jobVars,
                   victims, joining>>

(* ... and shut the socket down.  A failing shutdown is answered close_failed *)
(* (ignored by close_all); the bus stays out of the registries.               *)
CloseShutdown ==
    /\ lpc = "shutdown"
    /\ \E s \in {"shut", "leaked"} : socket' = [socket EXCEPT ![target] = s]
    /\ CloseReturns
    /\ UNCHANGED <<buses, pumps, locks, dbc, iface, rates, queued, recvVars, jobVars,
                   victims, joining>>

(* serve() ends: close_all stops every job, then closes every bus. *)
Exit ==
    /\ Handling
    /\ task' = "exit"
    /\ victims' = jobs
    /\ jobs' = {}
    /\ lpc' = "stop_jobs"
    /\ UNCHANGED <<registryVars, rates, queued, recvVars, jobBus, jpc, jstop, target,
                   joining>>

ExitClose(b) ==
    /\ lpc = "idle" /\ task = "exit"
    /\ b \in buses
    /\ CloseFirst(b)
    /\ UNCHANGED task

(* rx_flush_loop: a drain that finds frames sends them; one that finds none   *)
(* sends nothing.  What is over the batch limit, or arrives meanwhile, stays  *)
(* queued.                                                                    *)
DrainRx ==
    /\ Handling
    /\ queued \cap pumps # {}
    /\ queued' \in SUBSET queued
    /\ UNCHANGED <<registryVars, rates, recvVars, jobVars, loopVars>>

-----------------------------------------------------------------------------
(* The recv thread of bus b *)

RecvCheck(b) ==
    /\ rpc[b] = "loop"
    /\ rpc' = [rpc EXCEPT ![b] = IF b \in rstop THEN "dead" ELSE "recv"]
    /\ UNCHANGED <<registryVars, rates, queued, rstop, jobVars, loopVars>>

(* recv() returns a message, or times out or fails. *)
RecvReturns(b) ==
    /\ rpc[b] = "recv"
    /\ rpc' = [rpc EXCEPT ![b] = IF socket[b] # "shut" THEN "frame" ELSE "loop"]
       \/ rpc' = [rpc EXCEPT ![b] = "loop"]
    /\ UNCHANGED <<registryVars, rates, queued, rstop, jobVars, loopVars>>

RecvFrame(b) ==
    /\ rpc[b] = "frame"
    /\ RateAndEnqueue(b)
    /\ rpc' = [rpc EXCEPT ![b] = "loop"]
    /\ UNCHANGED <<registryVars, rstop, jobVars, loopVars>>

Recv(b) == RecvCheck(b) \/ RecvReturns(b) \/ RecvFrame(b)

-----------------------------------------------------------------------------
(* The thread of cyclic job j: CyclicJob._run calling BusManager._send_spec *)

JobGoTo(j, label) ==
    /\ jpc' = [jpc EXCEPT ![j] = label]
    /\ UNCHANGED <<registryVars, recvVars, jobs, jobBus, jstop, loopVars>>

(* Mutant of JobCheck: the loop does not look at the event. *)
JobIgnoresStop(j) ==
    /\ jpc[j] = "loop"
    /\ JobGoTo(j, "lookup")
    /\ UNCHANGED <<rates, queued>>

JobCheck(j) ==
    /\ jpc[j] = "loop"
    /\ JobGoTo(j, IF j \in jstop THEN "dead" ELSE "lookup")
    /\ UNCHANGED <<rates, queued>>

(* _buses.get: a bus that is gone raises bus_not_found, which _run swallows. *)
JobLookup(j) ==
    /\ jpc[j] = "lookup"
    /\ JobGoTo(j, IF jobBus[j] \in buses THEN "lock" ELSE "wait")
    /\ UNCHANGED <<rates, queued>>

(* Take the send lock; a lock that was popped meanwhile is not taken. *)
JobLock(j) ==
    /\ jpc[j] = "lock"
    /\ jobBus[j] \in locks => LockFree(jobBus[j])
    /\ JobGoTo(j, "send")
    /\ UNCHANGED <<rates, queued>>

(* bus.send, which fails on a socket that was shut down. *)
JobSend(j) ==
    /\ jpc[j] = "send"
    /\ \/ socket[jobBus[j]] # "shut" /\ JobGoTo(j, "echo")
       \/ JobGoTo(j, "wait")
    /\ UNCHANGED <<rates, queued>>

(* _echo_tx gives up when the pump is gone ... *)
JobEcho(j) ==
    /\ jpc[j] = "echo"
    /\ JobGoTo(j, IF jobBus[j] \in pumps /\ jobBus[j] \in buses THEN "rate" ELSE "wait")
    /\ UNCHANGED <<rates, queued>>

(* ... and else rates and enqueues the echo on the pump it looked up. *)
JobRate(j) ==
    /\ jpc[j] = "rate"
    /\ RateAndEnqueue(jobBus[j])
    /\ JobGoTo(j, "wait")

(* The wait for the next deadline ends, or the stop event cuts it short. *)
JobWait(j) ==
    /\ jpc[j] = "wait"
    /\ \/ JobGoTo(j, "loop")
       \/ j \in jstop /\ JobGoTo(j, "dead")
    /\ UNCHANGED <<rates, queued>>

Job(j) ==
    \/ JobCheck(j) \/ JobLookup(j) \/ JobLock(j) \/ JobSend(j)
    \/ JobEcho(j) \/ JobRate(j) \/ JobWait(j)

-----------------------------------------------------------------------------
(* The requests a client may send at any time *)
Request ==
    \/ \E b \in BusIds, i \in Ifaces : Open(b, i)
    \/ \E b \in BusIds : LoadDbc(b) \/ ClearDbc(b) \/ TxSend(b) \/ Close(b)
    \/ \E j \in JobIds, b \in BusIds : StartCyclic(j, b)
    \/ \E j \in JobIds : StopCyclic(j)
    \/ Exit

(* The rest of a handler that has begun *)
Continue ==
    \/ TxSendLocked
    \/ \E j \in JobIds : StopJob(j)
    \/ JobJoined \/ StopDone
    \/ ClosePump \/ PumpJoined \/ CloseClear \/ CloseUnregister \/ CloseShutdown
    \/ \E b \in BusIds : ExitClose(b)

(* serve() has returned and the process ends. *)
Terminated ==
    /\ task = "exit" /\ lpc = "idle" /\ buses = {}
    /\ UNCHANGED vars

Next ==
    \/ Request
    \/ Continue
    \/ JoinTimesOut
    \/ Terminated
    \/ DrainRx
    \/ \E b \in BusIds : Recv(b)
    \/ \E j \in JobIds : Job(j)

(* The threads are scheduled and a handler that has begun runs on.  Requests  *)
(* come from the client: no fairness, and none for the timeouts of the joins, *)
(* which are not needed for a handler to return.  A thread that wants the     *)
(* send lock gets it in the end although others take it in between (strong    *)
(* fairness).                                                                 *)
Fairness ==
    /\ WF_vars(Continue) /\ SF_vars(TxSendLocked)
    /\ \A b \in BusIds : WF_vars(Recv(b))
    /\ \A j \in JobIds : WF_vars(Job(j)) /\ SF_vars(JobLock(j))

Spec == Init /\ [][Next]_vars

FairSpec == Spec /\ Fairness

-----------------------------------------------------------------------------
(* Properties *)

TypeOK ==
    /\ buses \subseteq BusIds /\ pumps \subseteq BusIds /\ locks \subseteq BusIds
    /\ dbc \subseteq BusIds /\ rates \subseteq BusIds
    /\ iface \in [BusIds -> Ifaces \cup {None}]
    /\ socket \in [BusIds -> {"none", "open", "shut", "leaked"}]
    /\ queued \subseteq pumps
    /\ rpc \in [BusIds -> {"none", "loop", "recv", "frame", "dead"}]
    /\ rstop \subseteq BusIds
    /\ jobs \subseteq JobIds /\ jstop \subseteq JobIds /\ victims \subseteq JobIds
    /\ jobBus \in [JobIds -> BusIds \cup {None}]
    /\ jpc \in [JobIds -> {"none", "loop", "lookup", "lock", "send", "echo", "rate",
                           "wait", "dead"}]
    /\ lpc \in {"idle", "tx_lock", "stop_jobs", "join_pump", "clear", "unregister",
                "shutdown"}
    /\ task \in {"none", "send", "stop", "close", "exit"}
    /\ target \in BusIds \cup {None}
    /\ joining \in victims \cup {None}

(* Two live sockets never share an interface (bus.py:229, iface_already_open, *)
(* with the order in which close unregisters and shuts down): a close that is *)
(* still under way has not freed the interface for another open.              *)
OneSocketPerIface ==
    \A b, c \in BusIds :
        b # c /\ socket[b] = "open" /\ socket[c] = "open" => iface[b] # iface[c]

(* close tears a bus down only after its threads have ended (bus.py:368-384,  *)
(* stop_bus and pump.stop before shutdown): no thread uses a socket that was  *)
(* shut down, and none is left behind.  Needs the joins to complete.          *)
ClosedIsSilent ==
    \A b \in BusIds :
        socket[b] \in {"shut", "leaked"} =>
            /\ rpc[b] = "dead"
            /\ \A j \in JobIds : jobBus[j] = b => jpc[j] = "dead"

(* Between handlers the registries agree: whatever is kept for a bus is kept  *)
(* for an open one (bus.py, every registry is filled by open and emptied by   *)
(* close; docs/ipc.md on rates and DBC bindings).  A close that raced a job's *)
(* echo or the recv thread leaves no key behind.                              *)
RegistriesAgree ==
    lpc = "idle" =>
        /\ buses = pumps /\ buses = locks
        /\ dbc \subseteq buses
        /\ rates \subseteq buses
        /\ \A j \in jobs : jobBus[j] \in buses
        /\ \A b \in BusIds : b \in buses <=> socket[b] = "open"

(* Once tx.cyclic.stop, or a close, has dealt with a job, the job's thread    *)
(* has ended: a job that sends is in the map or is still being stopped        *)
(* (tx.py, stop and stop_bus).                                                *)
StoppedJobIsSilent ==
    \A j \in JobIds : jpc[j] \notin {"none", "dead"} => j \in jobs \cup victims

OthersAreLeftAlone ==
    \A b \in BusIds :
        lpc # "idle" /\ target # None /\ target # b =>
            /\ b \in buses <=> b \in buses'
            /\ b \in pumps <=> b \in pumps'
            /\ b \in dbc <=> b \in dbc'
            /\ b \in rates \ rates' => lpc' = lpc \/ lpc = "tx_lock"
            /\ b \in rstop <=> b \in rstop'
            /\ socket'[b] = socket[b]
            /\ \A j \in JobIds : jobBus[j] = b =>
                  (j \in jobs <=> j \in jobs') /\ (j \in jstop <=> j \in jstop')

(* What is kept for a bus changes only by a request for that bus: closing one *)
(* bus leaves the jobs, DBC, socket and recv thread of the others alone       *)
(* (bus.py, close and stop_bus filter by busId).  The rate table has one cap  *)
(* for all buses, so a frame that a thread receives or echoes meanwhile, or   *)
(* the echo of tx.send, may evict another bus's key (rate.py:42-43); no step  *)
(* of a close, stop or exit does.                                             *)
BusesAreIsolated == [][OthersAreLeftAlone]_vars

(* Every handler returns: no close, stop or send waits for ever on a thread   *)
(* or on a send lock, not even if no join ever times out (bus.py and tx.py);  *)
(* and the exit closes every bus (server.py, serve; bus.py, close_all).       *)
HandlersFinish ==
    /\ lpc # "idle" ~> lpc = "idle"
    /\ task = "exit" ~> \A b \in BusIds : socket[b] # "open"
=============================================================================
