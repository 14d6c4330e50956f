-------------------------- MODULE EngineSupervisor --------------------------
(***************************************************************************)
(* How the Electron main process keeps one engine running and connected:    *)
(* electron/main/engineSupervisor.ts, with the connection part of           *)
(* electron/main/engineClient.ts.                                           *)
(*                                                                          *)
(* Node runs one callback at a time, so every callback is one action.  The  *)
(* callbacks of superseded launches still arrive: each carries the          *)
(* generation it was created for.  A launch is known by its generation,     *)
(* which also names its child process, its connect loop and its client.     *)
(* The engine processes are the environment; what goes wrong with them is   *)
(* counted in `faults`.  Nothing here relies on the length of a delay.      *)
(***************************************************************************)
EXTENDS Integers

CONSTANTS
    None,           \* no child, no client
    MaxFaults,      \* bound: things that go wrong
    SpawnMayFail,   \* TRUE: spawn may emit 'error' (no such program, no process left)
    BadFrames       \* TRUE: the engine may send a frame that main cannot decode

(* Every fault costs at most one launch, and stop() takes one generation. *)
Gens == 1..(MaxFaults + 2)

ASSUME FaultAssumption ==
    /\ MaxFaults \in Nat
    /\ SpawnMayFail \in BOOLEAN
    /\ BadFrames \in BOOLEAN
ASSUME NoneAssumption == None \notin Int

VARIABLES
    generation, \* of the latest launch, or of stop()
    child,      \* this.child
    client,     \* this.client
    connected,  \* status.connected
    timer,      \* restartTimer is armed
    stopping,   \* stop() was called
    proc,       \* proc[g]: the child process
    termed,     \* the children that were sent SIGTERM
    exitSeen,   \* the children whose 'exit' was delivered
    conn,       \* conn[g]: the connect loop
    sock,       \* sock[g]: the socket of the client that loop attached
    faults      \* how often something went wrong

statusVars == <<generation, connected, timer, stopping>>
procVars   == <<proc, exitSeen>>
vars == <<generation, child, client, connected, timer, stopping,
          proc, termed, exitSeen, conn, sock, faults>>

Alive(g) == proc[g] \in {"up", "listening"}

Init ==
    /\ generation = 0
    /\ child = None /\ client = None
    /\ connected = FALSE /\ timer = FALSE /\ stopping = FALSE
    /\ proc = [g \in Gens |-> "none"]
    /\ termed = {} /\ exitSeen = {}
    /\ conn = [g \in Gens |-> "none"]
    /\ sock = [g \in Gens |-> "none"]
    /\ faults = 0

Fault == faults < MaxFaults /\ faults' = faults + 1

(* The socket of client c is destroyed by this process: no 'close' follows.   *)
Destroyed(c) == IF c = None THEN sock ELSE [sock EXCEPT ![c] = "closed"]

TeardownClient == client' = None /\ sock' = Destroyed(client)

(* Mutant of KillChild: forget the child without a signal. *)
DropChild == child' = None /\ termed' = termed

(* Mutant of KillChild: without the check that there is a child. *)
KillUnchecked == child' = None /\ termed' = termed \cup {child}

KillChild == child' = None /\ termed' = termed \cup ({child} \ {None})

(* The sockets of a process that dies, or that ends its session, reach EOF. *)
Eof(g) == [sock EXCEPT ![g] = IF @ = "open" THEN "eof" ELSE @]

-----------------------------------------------------------------------------
(* Launching *)

(* launch() up to its first await.  Creating the IPC path may fail, which     *)
(* arms the timer; spawning may fail, which is only logged.  The connect loop *)
(* begins either way.                                                         *)
Launch ==
    LET g == generation + 1 IN
    /\ generation' = g
    /\ TeardownClient
    /\ termed' = termed \cup ({child} \ {None})
    /\ \/ /\ Fault
          /\ child' = None
          /\ timer' = TRUE
          /\ UNCHANGED <<proc, conn>>
       \/ /\ \/ proc' = [proc EXCEPT ![g] = "up"] /\ UNCHANGED faults
             \/ SpawnMayFail /\ Fault /\ proc' = [proc EXCEPT ![g] = "failed"]
          /\ child' = g
          /\ conn' = [conn EXCEPT ![g] = "try"]
          /\ timer' = FALSE
    /\ UNCHANGED <<connected, stopping, exitSeen>>

Start ==
    /\ generation = 0
    /\ Launch

(* The restart timer fires; stop() would have disarmed it. *)
Restart ==
    /\ timer
    /\ Launch

(* stop(), on before-quit. *)
Stop ==
    /\ generation > 0
    /\ ~stopping
    /\ stopping' = TRUE
    /\ timer' = FALSE
    /\ generation' = generation + 1
    /\ TeardownClient
    /\ KillChild
    /\ connected' = FALSE
    /\ UNCHANGED <<procVars, conn, faults>>

-----------------------------------------------------------------------------
(* The connect loop of launch g *)

(* The head of the loop: a superseded loop returns.  The kernel decides at    *)
(* once whether the engine accepts; the event comes later.                    *)
TryConnect(g) ==
    /\ conn[g] = "try"
    /\ conn' = [conn EXCEPT ![g] =
                   IF stopping \/ g # generation THEN "done"
                   ELSE IF proc[g] = "listening" THEN "accepted" ELSE "refused"]
    /\ UNCHANGED <<statusVars, child, client, procVars, termed, sock, faults>>

(* Outcomes arrive in the order of the attempts. *)
FirstOutcome(g) == \A h \in Gens : h < g => conn[h] \notin {"accepted", "refused"}

(* Connected: the client is attached, whatever happened meanwhile. *)
Attach(g) ==
    /\ conn[g] = "accepted"
    /\ FirstOutcome(g)
    /\ conn' = [conn EXCEPT ![g] = "done"]
    /\ client' = g
    /\ sock' = [sock EXCEPT ![g] = IF Alive(g) THEN "open" ELSE "eof"]
    /\ UNCHANGED <<statusVars, child, procVars, termed, faults>>

(* Not connected: sleep, then try again. *)
TryAgain(g) ==
    /\ conn[g] = "refused"
    /\ FirstOutcome(g)
    /\ conn' = [conn EXCEPT ![g] = "try"]
    /\ UNCHANGED <<statusVars, child, client, procVars, termed, sock, faults>>

(* Not connected at the last attempt: launch() kills the child, if it is its. *)
GiveUp(g) ==
    /\ conn[g] = "refused"
    /\ FirstOutcome(g)
    /\ Fault
    /\ conn' = [conn EXCEPT ![g] = "done"]
    /\ IF g = generation /\ ~stopping THEN KillChild ELSE UNCHANGED <<child, termed>>
    /\ UNCHANGED <<statusVars, client, procVars, sock>>

-----------------------------------------------------------------------------
(* Callbacks of the client attached by launch g, and of child g *)

(* Mutant of Hello: a hello of any launch counts. *)
HelloOfAny(g) ==
    /\ sock[g] \in {"open", "eof"}
    /\ connected' = TRUE
    /\ UNCHANGED <<generation, timer, stopping, child, client, procVars, termed, conn, sock, faults>>

(* engine.hello arrives, perhaps from an engine that has died since. *)
Hello(g) ==
    /\ sock[g] \in {"open", "eof"}
    /\ connected' = (connected \/ g = generation)
    /\ UNCHANGED <<generation, timer, stopping, child, client, procVars, termed, conn, sock, faults>>

(* Mutant of SocketCloses: the status is left to the child's exit. *)
CloseIgnored(g) ==
    /\ sock[g] = "eof"
    /\ sock' = [sock EXCEPT ![g] = "closed"]
    /\ UNCHANGED <<statusVars, child, client, procVars, termed, conn, faults>>

(* Mutant of SocketCloses: respawns without waiting for the exit. *)
CloseRestarts(g) ==
    /\ sock[g] = "eof"
    /\ sock' = [sock EXCEPT ![g] = "closed"]
    /\ IF g = generation /\ ~stopping
       THEN connected' = FALSE /\ KillChild /\ timer' = TRUE
       ELSE UNCHANGED <<connected, child, termed, timer>>
    /\ UNCHANGED <<generation, stopping, client, procVars, conn, faults>>

(* The socket closes under a live session: kill the child; its exit respawns. *)
SocketCloses(g) ==
    /\ sock[g] = "eof"
    /\ sock' = [sock EXCEPT ![g] = "closed"]
    /\ IF g = generation /\ ~stopping
       THEN connected' = FALSE /\ KillChild
       ELSE UNCHANGED <<connected, child, termed>>
    /\ UNCHANGED <<generation, timer, stopping, client, procVars, conn, faults>>

(* Mutant of ChildExits: the status is set but nothing is scheduled. *)
ExitOnlyNoticed(g) ==
    /\ proc[g] = "dead"
    /\ g \notin exitSeen
    /\ exitSeen' = exitSeen \cup {g}
    /\ IF g = generation
       THEN TeardownClient /\ connected' = FALSE
       ELSE UNCHANGED <<client, sock, connected>>
    /\ UNCHANGED <<generation, timer, stopping, child, proc, termed, conn, faults>>

(* 'exit': respawn after a delay, unless the launch was superseded. *)
ChildExits(g) ==
    /\ proc[g] = "dead"
    /\ g \notin exitSeen
    /\ exitSeen' = exitSeen \cup {g}
    /\ IF g = generation
       THEN TeardownClient /\ connected' = FALSE /\ timer' = (timer \/ ~stopping)
       ELSE UNCHANGED <<client, sock, connected, timer>>
    /\ UNCHANGED <<generation, stopping, child, proc, termed, conn, faults>>

(* A frame main cannot decode: the client closes itself, and its 'close'      *)
(* handler returns early, so the supervisor hears nothing of it.              *)
BadFrame(g) ==
    /\ BadFrames
    /\ sock[g] = "open"
    /\ Fault
    /\ sock' = [sock EXCEPT ![g] = "dropped"]
    /\ UNCHANGED <<statusVars, child, client, procVars, termed, conn>>

-----------------------------------------------------------------------------
(* The engine processes *)

Listen(g) ==
    /\ proc[g] = "up"
    /\ proc' = [proc EXCEPT ![g] = "listening"]
    /\ UNCHANGED <<statusVars, child, client, termed, exitSeen, conn, sock, faults>>

Die(g) ==
    /\ Alive(g)
    /\ proc' = [proc EXCEPT ![g] = "dead"]
    /\ sock' = Eof(g)
    /\ UNCHANGED <<statusVars, child, client, termed, exitSeen, conn>>

(* It crashes (or cannot import its dependencies) ... *)
Crash(g) == Die(g) /\ Fault

(* ... or SIGTERM ends it. *)
Terminate(g) == g \in termed /\ Die(g) /\ UNCHANGED faults

(* client_session ends although the process lives on. *)
SessionEnds(g) ==
    /\ Alive(g)
    /\ sock[g] = "open"
    /\ Fault
    /\ sock' = Eof(g)
    /\ UNCHANGED <<statusVars, child, client, procVars, termed, conn>>

(* The application has quit. *)
Quit == stopping /\ UNCHANGED vars

Loop(g)   == TryConnect(g) \/ Attach(g) \/ TryAgain(g)
Events(g) == SocketCloses(g) \/ ChildExits(g)
Engine(g) == Listen(g) \/ Terminate(g)

Next ==
    \/ Start \/ Restart \/ Stop \/ Quit
    \/ \E g \in Gens :
          \/ Loop(g) \/ GiveUp(g) \/ Hello(g) \/ Events(g) \/ BadFrame(g)
          \/ Engine(g) \/ Crash(g) \/ SessionEnds(g)

(* Node delivers every event, timers fire, SIGTERM ends the engine (it has no *)
(* handler for it), and an engine that runs listens in the end.  Faults and   *)
(* stop() may happen or not.                                                  *)
Fairness ==
    /\ WF_vars(Start) /\ WF_vars(Restart)
    /\ \A g \in Gens :
          WF_vars(Loop(g)) /\ WF_vars(Hello(g)) /\ WF_vars(Events(g)) /\ WF_vars(Engine(g))

Spec == Init /\ [][Next]_vars

FairSpec == Spec /\ Fairness

-----------------------------------------------------------------------------
(* Properties *)

TypeOK ==
    /\ generation \in 0..(MaxFaults + 2)
    /\ child \in Gens \cup {None}
    /\ client \in Gens \cup {None}
    /\ connected \in BOOLEAN /\ timer \in BOOLEAN /\ stopping \in BOOLEAN
    /\ proc \in [Gens -> {"none", "failed", "up", "listening", "dead"}]
    /\ termed \subseteq Gens /\ exitSeen \subseteq Gens
    /\ conn \in [Gens -> {"none", "try", "accepted", "refused", "done"}]
    /\ sock \in [Gens -> {"none", "open", "eof", "closed", "dropped"}]
    /\ faults \in 0..MaxFaults

(* No engine is left behind: one that runs is the child of the supervisor, or *)
(* has been told to end, however its exit, its socket, the connect loop, the  *)
(* timer and stop() interleave (engineSupervisor.ts, killChild in launch,     *)
(* stop, connect failure and onDisconnect).                                   *)
NoOrphan == \A g \in Gens : Alive(g) /\ g \notin termed => g = child

(* Two engines never run at once: they would listen on the same socket path,  *)
(* which is made from main's pid (ipcPath.ts:29), and open the same           *)
(* interfaces.  A launch comes only after the exit of the engine before       *)
(* (engineSupervisor.ts, scheduleRestart in the exit handler).                *)
OneEngine == \A g, h \in Gens : Alive(g) /\ Alive(h) => g = h

(* While the status says connected, a request never goes to a superseded      *)
(* engine: the client is the one of the latest launch (engineSupervisor.ts,   *)
(* the generation checks, against attachClient, which has none).              *)
RequestsReachLatest == connected => client \in {None, generation}

(* The two states nothing leads out of.  A child that could not be spawned    *)
(* never exits, and only an exit respawns (engineSupervisor.ts:244); a client *)
(* that closed itself over a frame it cannot decode tells nobody, and its     *)
(* engine runs on (engineClient.ts:95-101).                                   *)
SpawnFailed == \E g \in Gens : g = generation /\ proc[g] = "failed"
ClosedItself ==
    \E g \in Gens : g = generation /\ sock[g] = "dropped" /\ Alive(g)

(* The engine is respawned: unless the application quits, or is stuck in one  *)
(* of those two states, a status of disconnected is followed by one of        *)
(* connected (docs/hardening.md:54, "EngineSupervisor already respawns on     *)
(* crash"; docs/preload.md:104).                                              *)
Recovers ==
    (~connected ~> connected \/ stopping) \/ <>[]SpawnFailed \/ <>[]ClosedItself

InSession == client # None /\ sock[client] = "open"

(* The status mirrors the connection (docs/preload.md:34, "mirrors IPC        *)
(* engine.hello + connection flag"): it does not stay connected without a     *)
(* session, unless it is stuck in one of those states (engineSupervisor.ts,   *)
(* onDisconnect and the exit handler).                                        *)
DisconnectIsNoticed ==
    (connected /\ ~InSession ~> ~connected \/ InSession)
        \/ <>[]SpawnFailed \/ <>[]ClosedItself
=============================================================================
