----------------------- MODULE EngineSupervisor_proofs -----------------------
(* Proofs of the safety properties of EngineSupervisor, for any number of     *)
(* faults and with every kind of fault.                                       *)
EXTENDS EngineSupervisor, TLAPS

Pending == {"accepted", "refused"}

(* The types the arguments below need. *)
Shape ==
    /\ generation \in Nat
    /\ proc \in [Gens -> {"none", "failed", "up", "listening", "dead"}]
    /\ conn \in [Gens -> {"none", "try", "accepted", "refused", "done"}]
    /\ sock \in [Gens -> {"none", "open", "eof", "closed", "dropped"}]

(* These variables keep their types; the rest of TypeOK comes at the end.     *)
LEMMA ShapeKept == Spec => []Shape
<1>1. Init => Shape
  BY DEF Init, Shape
<1>2. Shape /\ [Next]_vars => Shape'
  <2> SUFFICES ASSUME Shape, [Next]_vars PROVE Shape'
    OBVIOUS
  <2>1. CASE Launch
    <3>1. generation' \in Nat
      BY <2>1 DEF Launch, Shape
    <3>2. sock' \in [Gens -> {"none", "open", "eof", "closed", "dropped"}]
      BY <2>1 DEF Launch, TeardownClient, Destroyed, Shape
    <3>3. proc' \in [Gens -> {"none", "failed", "up", "listening", "dead"}]
      BY <2>1 DEF Launch, Shape
    <3>4. conn' \in [Gens -> {"none", "try", "accepted", "refused", "done"}]
      BY <2>1 DEF Launch, Shape
    <3> QED
      BY <3>1, <3>2, <3>3, <3>4 DEF Shape
  <2>2. CASE Stop
    <3>1. generation' \in Nat
      BY <2>2 DEF Stop, Shape
    <3>2. sock' \in [Gens -> {"none", "open", "eof", "closed", "dropped"}]
      BY <2>2 DEF Stop, TeardownClient, Destroyed, Shape
    <3> QED
      BY <2>2, <3>1, <3>2 DEF Stop, procVars, Shape
  <2>3. ASSUME NEW g \in Gens, Loop(g) \/ GiveUp(g) PROVE Shape'
    BY <2>3 DEF Loop, TryConnect, Attach, TryAgain, GiveUp, statusVars, procVars, Shape
  <2>4. ASSUME NEW g \in Gens, Hello(g) \/ SocketCloses(g) \/ BadFrame(g) PROVE Shape'
    BY <2>4 DEF Hello, SocketCloses, BadFrame, Destroyed, statusVars, procVars, Shape
  <2>5. ASSUME NEW g \in Gens, ChildExits(g) PROVE Shape'
    BY <2>5 DEF ChildExits, TeardownClient, Destroyed, Shape
  <2>6. ASSUME NEW g \in Gens, Engine(g) \/ Crash(g) \/ SessionEnds(g) PROVE Shape'
    BY <2>6 DEF Engine, Listen, Terminate, Crash, Die, SessionEnds, Eof, statusVars, procVars, Shape
  <2>7. CASE UNCHANGED vars
    BY <2>7 DEF vars, Shape
  <2> QED
    BY <2>1, <2>2, <2>3, <2>4, <2>5, <2>6, <2>7
    DEF Next, Start, Restart, Quit, Events
<1> QED
  BY <1>1, <1>2, PTL DEF Spec

-----------------------------------------------------------------------------
(* Engines.  Unless the application is stopping, the engine that runs is the  *)
(* one of the latest launch; a launch (at the start, or by the timer) finds   *)
(* none running, because the timer is armed only once that engine is dead.    *)

LatestRuns  == \A g \in Gens : Alive(g) => g = generation \/ stopping
IdleTimer   == timer => ~stopping /\ \A g \in Gens : ~Alive(g)
NotStarted  == generation = 0 => ~stopping /\ \A g \in Gens : ~Alive(g)

EngineInv == NoOrphan /\ OneEngine /\ LatestRuns /\ IdleTimer /\ NotStarted

(* The launch that Start and Restart share. *)
LEMMA LaunchKeepsEngineInv ==
  ASSUME Shape, EngineInv, Launch, ~stopping, \A g \in Gens : ~Alive(g)
  PROVE  EngineInv'
<1> DEFINE new == generation + 1
<1>1. \A g \in Gens : Alive(g)' => g = new /\ child' = new /\ timer' = FALSE
  BY DEF Launch, Shape, Alive
<1>2. generation' = new /\ new # 0 /\ stopping' = FALSE
  BY DEF Launch, Shape
<1> QED
  BY <1>1, <1>2 DEF EngineInv, NoOrphan, OneEngine, LatestRuns, IdleTimer, NotStarted, Alive

(* A step that leaves the processes, the child, the signals and the control   *)
(* of the launches alone.                                                     *)
LEMMA ElsewhereKeepsEngineInv ==
  ASSUME EngineInv, UNCHANGED <<generation, timer, stopping, proc, child, termed>>
  PROVE  EngineInv'
  BY DEF EngineInv, NoOrphan, OneEngine, LatestRuns, IdleTimer, NotStarted, Alive

(* A kill that leaves the processes and the control of the launches alone.    *)
LEMMA KillKeepsEngineInv ==
  ASSUME EngineInv, KillChild, UNCHANGED <<generation, timer, stopping, proc>>
  PROVE  EngineInv'
<1>1. \A g \in Gens : Alive(g)' /\ g \notin termed' => FALSE
  BY NoneAssumption DEF EngineInv, NoOrphan, KillChild, Alive, Gens
<1> QED
  BY <1>1 DEF EngineInv, NoOrphan, OneEngine, LatestRuns, IdleTimer, NotStarted, Alive

LEMMA EngineInvKept == Spec => []EngineInv
<1>1. Init => EngineInv
  BY DEF Init, EngineInv, NoOrphan, OneEngine, LatestRuns, IdleTimer, NotStarted, Alive
<1>2. Shape /\ EngineInv /\ [Next]_vars => EngineInv'
  <2> SUFFICES ASSUME Shape, EngineInv, [Next]_vars PROVE EngineInv'
    OBVIOUS
  <2>1. CASE Start
    BY <2>1, LaunchKeepsEngineInv DEF Start, EngineInv, NotStarted
  <2>2. CASE Restart
    BY <2>2, LaunchKeepsEngineInv DEF Restart, EngineInv, IdleTimer
  <2>3. CASE Stop
    <3>1. \A g \in Gens : Alive(g)' => g \in termed'
      BY <2>3, NoneAssumption DEF Stop, KillChild, procVars, EngineInv, NoOrphan, Alive, Gens
    <3>2. generation' # 0 /\ stopping' = TRUE /\ timer' = FALSE /\ proc' = proc
      BY <2>3 DEF Stop, procVars, Shape
    <3> QED
      BY <3>1, <3>2 DEF EngineInv, NoOrphan, OneEngine, LatestRuns, IdleTimer, NotStarted, Alive
  <2>4. ASSUME NEW g \in Gens, Loop(g) \/ Hello(g) \/ BadFrame(g) \/ SessionEnds(g)
        PROVE  EngineInv'
    BY <2>4, ElsewhereKeepsEngineInv
    DEF Loop, TryConnect, Attach, TryAgain, Hello, BadFrame, SessionEnds, statusVars, procVars
  <2>5. ASSUME NEW g \in Gens, GiveUp(g) PROVE EngineInv'
    BY <2>5, ElsewhereKeepsEngineInv, KillKeepsEngineInv DEF GiveUp, statusVars, procVars
  <2>6. ASSUME NEW g \in Gens, SocketCloses(g) PROVE EngineInv'
    BY <2>6, ElsewhereKeepsEngineInv, KillKeepsEngineInv DEF SocketCloses, procVars
  <2>7. ASSUME NEW g \in Gens, ChildExits(g) PROVE EngineInv'
    <3>1. CASE g # generation
      BY <2>7, <3>1, ElsewhereKeepsEngineInv DEF ChildExits
    <3>2. CASE g = generation
      <4>1. ~Alive(g) /\ (timer' => timer \/ ~stopping)
        BY <2>7, <3>2 DEF ChildExits, Alive
      <4>2. ~stopping => \A h \in Gens : ~Alive(h)
        BY <3>2, <4>1 DEF EngineInv, LatestRuns
      <4>3. UNCHANGED <<generation, stopping, proc, child, termed>>
        BY <2>7 DEF ChildExits
      <4> QED
        BY <4>1, <4>2, <4>3
        DEF EngineInv, NoOrphan, OneEngine, LatestRuns, IdleTimer, NotStarted, Alive
    <3> QED
      BY <3>1, <3>2
  <2>8. ASSUME NEW g \in Gens, Listen(g) \/ Terminate(g) \/ Crash(g) PROVE EngineInv'
    <3>1. \A h \in Gens : Alive(h)' => Alive(h)
      BY <2>8 DEF Listen, Terminate, Crash, Die, Alive, Shape
    <3>2. UNCHANGED <<generation, timer, stopping, child, termed>>
      BY <2>8 DEF Listen, Terminate, Crash, Die, statusVars
    <3> QED
      BY <3>1, <3>2
      DEF EngineInv, NoOrphan, OneEngine, LatestRuns, IdleTimer, NotStarted, Alive
  <2>9. CASE UNCHANGED vars
    BY <2>9, ElsewhereKeepsEngineInv DEF vars
  <2> QED
    BY <2>1, <2>2, <2>3, <2>4, <2>5, <2>6, <2>7, <2>8, <2>9 DEF Next, Events, Engine, Quit
<1> QED
  BY <1>1, <1>2, ShapeKept, PTL DEF Spec

(* No engine is left behind (killChild in engineSupervisor.ts): whatever      *)
(* fails, and however often.                                                  *)
THEOREM NoEngineOrphaned == Spec => []NoOrphan
<1>1. EngineInv => NoOrphan
  BY DEF EngineInv
<1> QED
  BY <1>1, EngineInvKept, PTL

(* Two engines never run at once, though they share a socket path: no launch  *)
(* precedes the exit of the engine before it (engineSupervisor.ts).           *)
THEOREM OneEngineAtATime == Spec => []OneEngine
<1>1. EngineInv => OneEngine
  BY DEF EngineInv
<1> QED
  BY <1>1, EngineInvKept, PTL

-----------------------------------------------------------------------------
(* Requests.  A hello counts only after the latest launch has attached its    *)
(* client; by then every earlier connect loop has had its last outcome, so    *)
(* none can still attach a client in its place.                               *)

Settled == \A g \in Gens : g # generation => conn[g] \notin Pending

FutureUntouched ==
    \A g \in Gens : (g > generation \/ generation = 0) => conn[g] = "none" /\ sock[g] = "none"
AttachedDone    == \A g \in Gens : sock[g] # "none" => conn[g] = "done"
ClientAttached  == client # None => client \in Gens /\ sock[client] # "none"
AttachedSettles ==
    \A g \in Gens : g = generation /\ sock[g] # "none" => Settled /\ client \in {None, g}
ConnectedSettles ==
    connected =>
        /\ Settled
        /\ generation # 0
        /\ \A g \in Gens : timer /\ g = generation => conn[g] \in {"none", "done"}

ClientInv ==
    /\ FutureUntouched /\ AttachedDone /\ ClientAttached
    /\ AttachedSettles /\ ConnectedSettles /\ RequestsReachLatest

LEMMA LaunchKeepsClientInv ==
  ASSUME Shape, ClientInv, Launch, timer \/ generation = 0
  PROVE  ClientInv'
<1> DEFINE new == generation + 1
<1>1. generation' = new /\ client' = None /\ connected' = connected /\ generation \in Nat /\ new # 0
  BY DEF Launch, TeardownClient, Shape
<1>2. \A g \in Gens : sock[g] = "none" <=> sock'[g] = "none"
  BY DEF Launch, TeardownClient, Destroyed, Shape, ClientInv, ClientAttached
<1>3. \A g \in Gens : g # new => conn'[g] = conn[g]
  BY DEF Launch, Shape
<1>4. timer' => conn' = conn
  BY DEF Launch
<1>5. \A g \in Gens : g >= new => conn[g] = "none" /\ sock[g] = "none"
  BY <1>1 DEF ClientInv, FutureUntouched, Gens
<1>6. FutureUntouched' /\ AttachedDone' /\ ClientAttached'
  BY <1>1, <1>2, <1>3, <1>5 DEF ClientInv, FutureUntouched, AttachedDone, ClientAttached, Gens
<1>7. AttachedSettles'
  BY <1>1, <1>2, <1>5 DEF AttachedSettles, Gens
<1>8. connected => Settled'
  BY <1>1, <1>3 DEF ClientInv, ConnectedSettles, Settled, Pending
<1>9. ConnectedSettles'
  BY <1>1, <1>4, <1>5, <1>8 DEF ConnectedSettles, Gens
<1> QED
  BY <1>1, <1>6, <1>7, <1>9 DEF ClientInv, RequestsReachLatest

(* A step that leaves the connect loops and the client alone, and the sockets *)
(* except that some that exist change state.                                  *)
LEMMA ElsewhereKeepsClientInv ==
  ASSUME ClientInv, UNCHANGED <<generation, conn>>,
         \A g \in Gens : sock[g] = "none" <=> sock'[g] = "none",
         client' \in {client, None},
         connected' => connected, connected' /\ timer' => timer
  PROVE  ClientInv'
<1>1. Settled' <=> Settled
  BY DEF Settled
<1> QED
  BY <1>1 DEF ClientInv, FutureUntouched, AttachedDone, ClientAttached, AttachedSettles,
     ConnectedSettles, RequestsReachLatest

LEMMA ClientInvKept == Spec => []ClientInv
<1>1. Init => ClientInv
  BY NoneAssumption DEF Init, ClientInv, FutureUntouched, AttachedDone, ClientAttached,
     AttachedSettles, ConnectedSettles, RequestsReachLatest, Settled, Gens
<1>2. Shape /\ ClientInv /\ [Next]_vars => ClientInv'
  <2> SUFFICES ASSUME Shape, ClientInv, [Next]_vars PROVE ClientInv'
    OBVIOUS
  <2>1. CASE Start
    BY <2>1, LaunchKeepsClientInv DEF Start
  <2>2. CASE Restart
    BY <2>2, LaunchKeepsClientInv DEF Restart
  <2>3. CASE Stop
    <3>1. \A g \in Gens : sock[g] = "none" <=> sock'[g] = "none"
      BY <2>3 DEF Stop, TeardownClient, Destroyed, Shape, ClientInv, ClientAttached
    <3>2. generation' = generation + 1 /\ conn' = conn /\ client' = None /\ connected' = FALSE
      BY <2>3 DEF Stop, TeardownClient
    <3>3. generation \in Nat
      BY DEF Shape
    <3> QED
      BY <3>1, <3>2, <3>3
      DEF ClientInv, FutureUntouched, AttachedDone, ClientAttached, AttachedSettles,
          ConnectedSettles, RequestsReachLatest, Gens
  <2>4. ASSUME NEW g \in Gens, TryConnect(g) PROVE ClientInv'
    <3>1. UNCHANGED <<generation, client, connected, timer, sock>>
      BY <2>4 DEF TryConnect, statusVars
    <3>2. conn[g] = "try" /\ \A h \in Gens : h # g => conn'[h] = conn[h]
      BY <2>4 DEF TryConnect, Shape
    <3>3. g # generation => conn'[g] = "done"
      BY <2>4 DEF TryConnect, Shape
    <3>4. sock[g] = "none" /\ ~(generation = 0) /\ ~(g > generation)
      BY <3>2 DEF ClientInv, AttachedDone, FutureUntouched
    <3>5. connected /\ timer => g # generation
      BY <3>2 DEF ClientInv, ConnectedSettles
    <3>6. Settled => Settled'
      BY <3>1, <3>2, <3>3 DEF Settled, Pending
    <3>7. FutureUntouched' /\ AttachedDone' /\ ClientAttached'
      BY <3>1, <3>2, <3>4 DEF ClientInv, FutureUntouched, AttachedDone, ClientAttached
    <3>8. AttachedSettles'
      BY <3>1, <3>6 DEF ClientInv, AttachedSettles
    <3>9. ConnectedSettles'
      BY <3>1, <3>2, <3>5, <3>6 DEF ClientInv, ConnectedSettles
    <3> QED
      BY <3>1, <3>7, <3>8, <3>9 DEF ClientInv, RequestsReachLatest
  <2>5. ASSUME NEW g \in Gens, Attach(g) PROVE ClientInv'
    <3>1. UNCHANGED <<generation, connected, timer>> /\ client' = g /\ conn[g] \in Pending
      BY <2>5 DEF Attach, statusVars, Pending
    <3>2. conn'[g] = "done" /\ \A h \in Gens : h # g => conn'[h] = conn[h]
      BY <2>5 DEF Attach, Shape
    <3>3. sock'[g] # "none" /\ \A h \in Gens : h # g => sock'[h] = sock[h]
      BY <2>5 DEF Attach, Shape
    <3>4. ~(generation = 0) /\ ~(g > generation)
      BY <3>1 DEF ClientInv, FutureUntouched, Pending
    <3>5. Settled => Settled' /\ g = generation
      BY <3>1, <3>2 DEF Settled, Pending
    <3>6. g = generation => Settled'
      <4>1. ASSUME g = generation, NEW h \in Gens, h # g PROVE conn'[h] \notin Pending
        <5>1. CASE h < g
          BY <2>5, <3>2, <4>1, <5>1 DEF Attach, FirstOutcome, Pending
        <5>2. CASE h > g
          BY <3>2, <4>1, <5>2 DEF ClientInv, FutureUntouched, Pending
        <5> QED
          BY <4>1, <5>1, <5>2 DEF Gens
      <4> QED
        BY <3>1, <4>1 DEF Settled
    <3>7. FutureUntouched' /\ AttachedDone' /\ ClientAttached'
      BY <3>1, <3>2, <3>3, <3>4 DEF ClientInv, FutureUntouched, AttachedDone, ClientAttached
    <3>8. AttachedSettles'
      BY <3>1, <3>3, <3>5, <3>6 DEF ClientInv, AttachedSettles
    <3>9. ConnectedSettles'
      BY <3>1, <3>2, <3>5 DEF ClientInv, ConnectedSettles
    <3>10. RequestsReachLatest'
      BY <3>1, <3>5 DEF ClientInv, ConnectedSettles, RequestsReachLatest
    <3> QED
      BY <3>7, <3>8, <3>9, <3>10 DEF ClientInv
  <2>6. ASSUME NEW g \in Gens, TryAgain(g) \/ GiveUp(g) PROVE ClientInv'
    <3>1. UNCHANGED <<generation, client, connected, timer, sock>>
      BY <2>6 DEF TryAgain, GiveUp, statusVars
    <3>2. conn[g] = "refused" /\ conn'[g] \in {"try", "done"}
      BY <2>6 DEF TryAgain, GiveUp, Shape
    <3>3. \A h \in Gens : h # g => conn'[h] = conn[h]
      BY <2>6 DEF TryAgain, GiveUp, Shape
    <3>4. Settled => Settled' /\ g = generation
      BY <3>1, <3>2, <3>3 DEF Settled, Pending
    <3>5. FutureUntouched' /\ AttachedDone' /\ ClientAttached'
      BY <3>1, <3>2, <3>3 DEF ClientInv, FutureUntouched, AttachedDone, ClientAttached
    <3>6. AttachedSettles'
      BY <3>1, <3>4 DEF ClientInv, AttachedSettles
    <3>7. ConnectedSettles'
      BY <3>1, <3>2, <3>3, <3>4 DEF ClientInv, ConnectedSettles
    <3> QED
      BY <3>1, <3>5, <3>6, <3>7 DEF ClientInv, RequestsReachLatest
  <2>7. ASSUME NEW g \in Gens, Hello(g) PROVE ClientInv'
    <3>1. UNCHANGED <<generation, client, timer, conn, sock>> /\ sock[g] # "none"
      BY <2>7 DEF Hello
    <3>2. CASE g = generation
      <4>1. Settled /\ client \in {None, generation} /\ conn[g] = "done" /\ generation # 0
        BY <3>1, <3>2 DEF ClientInv, AttachedSettles, AttachedDone, FutureUntouched
      <4>2. Settled' <=> Settled
        BY <3>1 DEF Settled
      <4> QED
        BY <3>1, <3>2, <4>1, <4>2
        DEF ClientInv, FutureUntouched, AttachedDone, ClientAttached, AttachedSettles,
            ConnectedSettles, RequestsReachLatest
    <3>3. CASE g # generation
      <4>1. connected' => connected
        BY <2>7, <3>3, Zenon DEF Hello
      <4>2. client' \in {client, None} /\ (timer' => timer)
        BY <3>1
      <4>3. UNCHANGED <<generation, conn>> /\ \A h \in Gens : sock[h] = "none" <=> sock'[h] = "none"
        BY <3>1
      <4> QED
        BY <4>1, <4>2, <4>3, ElsewhereKeepsClientInv
    <3> QED
      BY <3>2, <3>3
  <2>8. ASSUME NEW g \in Gens, SocketCloses(g) \/ BadFrame(g) \/ SessionEnds(g)
        PROVE  ClientInv'
    <3>1. \A h \in Gens : sock[h] = "none" <=> sock'[h] = "none"
      BY <2>8 DEF SocketCloses, BadFrame, SessionEnds, Destroyed, Eof, Shape
    <3>2. UNCHANGED <<generation, timer, client, conn>> /\ (connected' => connected)
      BY <2>8 DEF SocketCloses, BadFrame, SessionEnds, statusVars
    <3> QED
      BY <3>1, <3>2, ElsewhereKeepsClientInv
  <2>9. ASSUME NEW g \in Gens, ChildExits(g) PROVE ClientInv'
    <3>1. \A h \in Gens : sock[h] = "none" <=> sock'[h] = "none"
      BY <2>9 DEF ChildExits, TeardownClient, Destroyed, Shape, ClientInv, ClientAttached
    <3>2. UNCHANGED <<generation, conn>> /\ client' \in {client, None}
      BY <2>9 DEF ChildExits, TeardownClient
    <3>3. (connected' => connected) /\ (connected' /\ timer' => timer)
      BY <2>9 DEF ChildExits
    <3> QED
      BY <3>1, <3>2, <3>3, ElsewhereKeepsClientInv
  <2>10. ASSUME NEW g \in Gens, Listen(g) \/ Terminate(g) \/ Crash(g) PROVE ClientInv'
    <3>1. \A h \in Gens : sock[h] = "none" <=> sock'[h] = "none"
      BY <2>10 DEF Listen, Terminate, Crash, Die, Eof, Shape
    <3>2. UNCHANGED <<generation, connected, timer, client, conn>>
      BY <2>10 DEF Listen, Terminate, Crash, Die, statusVars
    <3> QED
      BY <3>1, <3>2, ElsewhereKeepsClientInv
  <2>11. CASE UNCHANGED vars
    BY <2>11, ElsewhereKeepsClientInv DEF vars
  <2> QED
    BY <2>1, <2>2, <2>3, <2>4, <2>5, <2>6, <2>7, <2>8, <2>9, <2>10, <2>11
    DEF Next, Loop, Events, Engine, Quit
<1> QED
  BY <1>1, <1>2, ShapeKept, PTL DEF Spec

(* While the status says connected, requests go to the client of the latest   *)
(* launch, although attachClient does not look at the generation              *)
(* (engineSupervisor.ts:327-334).                                             *)
THEOREM RequestsGoToLatest == Spec => []RequestsReachLatest
<1>1. ClientInv => RequestsReachLatest
  BY DEF ClientInv
<1> QED
  BY <1>1, ClientInvKept, PTL

-----------------------------------------------------------------------------
(* Launches are paid for by faults: once the latest launch is in trouble, a   *)
(* fault has happened for it, and without trouble nothing arms the timer.     *)

Troubled(g) == ~Alive(g) \/ g \in termed \/ sock[g] \in {"eof", "closed"}

PaidByFaults ==
    /\ generation <= faults + IF stopping THEN 2 ELSE 1
    /\ \A g \in Gens : g = generation /\ ~stopping /\ Troubled(g) => generation <= faults

KnownLaunches ==
    /\ child # None => child <= generation
    /\ \A g \in termed : g <= generation

LaunchInv == TypeOK /\ PaidByFaults /\ KnownLaunches

LEMMA LaunchKeepsLaunchInv ==
  ASSUME Shape', LaunchInv, ClientInv, EngineInv, Launch, timer \/ generation = 0
  PROVE  LaunchInv'
<1> PICK new : new = generation + 1
  OBVIOUS
<1>0. ~stopping /\ stopping' = stopping /\ generation' = new /\ generation \in Nat
  BY DEF EngineInv, IdleTimer, NotStarted, Launch, LaunchInv, TypeOK
<1>1. MaxFaults \in Nat /\ faults \in 0..MaxFaults /\ faults' \in 0..MaxFaults /\ faults <= faults'
  BY FaultAssumption DEF Launch, Fault, LaunchInv, TypeOK
<1>2. generation <= faults
  <2>1. CASE generation = 0
    BY <2>1, <1>1
  <2>2. CASE timer /\ generation # 0
    <3>1. generation \in Gens
      BY <1>0, <1>1, <2>2 DEF Gens, LaunchInv, PaidByFaults
    <3>2. Troubled(generation)
      BY <2>2, <3>1 DEF Troubled, EngineInv, IdleTimer
    <3> QED
      BY <1>0, <3>1, <3>2 DEF LaunchInv, PaidByFaults
  <2> QED
    BY <2>1, <2>2
<1>3. new \in Gens /\ new <= faults' + 1
  <2>1. PICK g \in Nat, f \in 0..MaxFaults, after \in 0..MaxFaults :
          g = generation /\ f = faults /\ after = faults'
    BY <1>0, <1>1
  <2>2. new = g + 1 /\ g <= f /\ f <= after /\ MaxFaults \in Nat
    BY <1>1, <1>2, <2>1
  <2>3. new \in 1..(MaxFaults + 2) /\ new <= after + 1
    BY <2>2
  <2> QED
    BY <2>1, <2>3 DEF Gens
<1>4. child' \in Gens \cup {None} /\ (child' # None => child' = new)
  BY <1>3 DEF Launch
<1>5. termed' \subseteq Gens /\ \A g \in termed' : g <= generation
  BY DEF Launch, LaunchInv, TypeOK, KnownLaunches
<1>6. PaidByFaults'
  <2>1. SUFFICES ASSUME Troubled(new)' PROVE new <= faults'
    <3>1. faults' \in Nat /\ new \in Nat
      BY <1>0, <1>1
    <3> QED
      BY <1>0, <1>3, <3>1 DEF PaidByFaults
  <2>2. new \notin termed' /\ sock'[new] \notin {"eof", "closed"}
    <3>0. new > generation
      BY <1>0
    <3>1. sock[new] = "none" /\ client # new
      BY <1>3, <3>0, NoneAssumption DEF ClientInv, FutureUntouched, ClientAttached, Gens
    <3>2. sock'[new] = "none"
      BY <3>1 DEF Launch, TeardownClient, Destroyed, LaunchInv, TypeOK
    <3> QED
      BY <1>0, <1>5, <3>2
  <2>3. ~Alive(new)'
    <3>1. ~Alive(new)' \/ new \in termed' \/ sock'[new] \in {"eof", "closed"}
      BY <2>1 DEF Troubled
    <3> QED
      BY <2>2, <3>1
  <2>4. Fault
    <3>1. proc'[new] # "up"
      BY <2>3 DEF Alive
    <3>2. proc' = [proc EXCEPT ![new] = "up"] => proc'[new] = "up"
      BY <1>3 DEF LaunchInv, TypeOK
    <3> QED
      BY <3>1, <3>2 DEF Launch
  <2> QED
    BY <1>0, <1>1, <1>2, <2>4 DEF Fault
<1>7. client' \in Gens \cup {None} /\ connected' \in BOOLEAN /\ timer' \in BOOLEAN
      /\ stopping' \in BOOLEAN /\ exitSeen' \subseteq Gens
  BY Zenon DEF Launch, TeardownClient, LaunchInv, TypeOK
<1>8. generation' \in 0..(MaxFaults + 2)
  BY <1>0, <1>1, <1>2
<1>9. TypeOK'
  BY <1>1, <1>4, <1>5, <1>7, <1>8 DEF Shape, TypeOK
<1>10. KnownLaunches'
  BY <1>0, <1>4, <1>5 DEF KnownLaunches, LaunchInv, TypeOK, Gens
<1> QED
  BY <1>6, <1>9, <1>10 DEF LaunchInv

(* A step of launch g that leaves the generation and the stopping flag alone: *)
(* it is paid for if it brings the latest launch into trouble.                *)
LEMMA ElsewhereKeepsLaunchInv ==
  ASSUME Shape', LaunchInv,
         UNCHANGED <<generation, stopping>>,
         client' \in Gens \cup {None}, connected' \in BOOLEAN, timer' \in BOOLEAN,
         exitSeen' \subseteq Gens,
         child' \in {child, None}, termed' \subseteq termed \cup ({child} \ {None}),
         faults' \in {faults, faults + 1}, faults' <= MaxFaults,
         faults' = faults =>
            \A h \in Gens : h = generation /\ ~stopping /\ Troubled(h)' => Troubled(h)
  PROVE  LaunchInv'
<1>1. faults \in Nat /\ faults' \in 0..MaxFaults /\ generation \in Nat
  BY FaultAssumption DEF LaunchInv, TypeOK
<1>2. TypeOK'
  BY <1>1 DEF Shape, LaunchInv, TypeOK
<1>3. KnownLaunches'
  BY <1>1 DEF LaunchInv, KnownLaunches, TypeOK
<1>4. CASE faults' = faults
  BY <1>1, <1>2, <1>3, <1>4 DEF LaunchInv, PaidByFaults
<1>5. CASE faults' = faults + 1
  BY <1>1, <1>2, <1>3, <1>5 DEF LaunchInv, PaidByFaults
<1> QED
  BY <1>4, <1>5

LEMMA LaunchInvKept == Spec => []LaunchInv
<1>1. Init => LaunchInv
  <2> SUFFICES ASSUME Init PROVE LaunchInv
    OBVIOUS
  <2>1. TypeOK
    <3>1. connected \in BOOLEAN /\ timer \in BOOLEAN /\ stopping \in BOOLEAN
      BY Zenon DEF Init
    <3>2. generation \in 0..(MaxFaults + 2) /\ faults \in 0..MaxFaults
      BY FaultAssumption DEF Init
    <3> QED
      BY <3>1, <3>2 DEF Init, TypeOK
  <2>2. PaidByFaults /\ KnownLaunches
    BY DEF Init, PaidByFaults, KnownLaunches, Gens
  <2> QED
    BY <2>1, <2>2 DEF LaunchInv
<1>2. Shape /\ Shape' /\ EngineInv /\ ClientInv /\ LaunchInv /\ [Next]_vars => LaunchInv'
  <2> SUFFICES ASSUME Shape, Shape', EngineInv, ClientInv, LaunchInv, [Next]_vars
               PROVE  LaunchInv'
    OBVIOUS
  <2>0. /\ faults \in 0..MaxFaults /\ MaxFaults \in Nat /\ generation \in Nat
        /\ client \in Gens \cup {None} /\ connected \in BOOLEAN /\ timer \in BOOLEAN
        /\ exitSeen \subseteq Gens
    BY FaultAssumption DEF LaunchInv, TypeOK
  <2>1. CASE Start
    BY <2>1, LaunchKeepsLaunchInv DEF Start
  <2>2. CASE Restart
    BY <2>2, LaunchKeepsLaunchInv DEF Restart
  <2>3. CASE Stop
    <3>1. PICK g \in Nat, f \in 0..MaxFaults : g = generation /\ f = faults
      BY <2>0
    <3>2. g <= f + 1 /\ g + 1 \in 0..(MaxFaults + 2) /\ g + 1 <= f + 2
      <4>1. g <= f + 1
        BY <2>3, <3>1 DEF Stop, LaunchInv, PaidByFaults
      <4> QED
        BY <4>1, <2>0
    <3>3. generation' = g + 1 /\ faults' = f /\ stopping' = TRUE /\ client' = None
      BY <2>3, <3>1 DEF Stop, TeardownClient
    <3>4. child' = None /\ termed' \subseteq Gens /\ \A h \in termed' : h <= g
      BY <2>3, <3>1 DEF Stop, KillChild, LaunchInv, TypeOK, KnownLaunches
    <3>5. TypeOK'
      BY <2>0, <2>3, <3>2, <3>3, <3>4, <3>1 DEF Stop, procVars, TypeOK, Shape
    <3>6. KnownLaunches'
      BY <3>3, <3>4 DEF KnownLaunches, Gens
    <3>7. PaidByFaults'
      BY <3>2, <3>3 DEF PaidByFaults
    <3> QED
      BY <3>5, <3>6, <3>7 DEF LaunchInv
  <2>4. ASSUME NEW g \in Gens, TryConnect(g) \/ TryAgain(g) \/ Listen(g) PROVE LaunchInv'
    <3>1. UNCHANGED <<generation, stopping, client, connected, timer, exitSeen, child,
                      termed, faults, sock>>
      BY <2>4 DEF TryConnect, TryAgain, Listen, statusVars, procVars
    <3>2. \A h \in Gens : Troubled(h)' => Troubled(h)
      BY <2>4, <3>1 DEF TryConnect, TryAgain, Listen, Troubled, Alive, procVars, Shape
    <3> QED
      BY <2>0, <3>1, <3>2, ElsewhereKeepsLaunchInv
  <2>5. ASSUME NEW g \in Gens, Attach(g) PROVE LaunchInv'
    <3>1. UNCHANGED <<generation, stopping, connected, timer, exitSeen, child,
                      termed, faults, proc>> /\ client' = g
      BY <2>5 DEF Attach, statusVars, procVars
    <3>2. \A h \in Gens : Troubled(h)' => Troubled(h)
      BY <2>5, <3>1 DEF Attach, Troubled, Alive, Shape
    <3> QED
      BY <2>0, <3>1, <3>2, ElsewhereKeepsLaunchInv
  <2>6. ASSUME NEW g \in Gens, GiveUp(g) PROVE LaunchInv'
    <3>1. UNCHANGED <<generation, stopping, client, connected, timer, exitSeen>>
      BY <2>6 DEF GiveUp, statusVars, procVars
    <3>2. child' \in {child, None} /\ termed' \subseteq termed \cup ({child} \ {None})
      BY <2>6 DEF GiveUp, KillChild
    <3> QED
      BY <2>0, <2>6, <3>1, <3>2, ElsewhereKeepsLaunchInv DEF GiveUp, Fault
  <2>7. ASSUME NEW g \in Gens, Hello(g) PROVE LaunchInv'
    <3>1. connected' \in BOOLEAN
      BY <2>7, Zenon DEF Hello
    <3>2. UNCHANGED <<generation, stopping, client, timer, exitSeen, child, termed, faults,
                      proc, sock>>
      BY <2>7 DEF Hello, procVars
    <3>3. \A h \in Gens : Troubled(h)' => Troubled(h)
      BY <3>2 DEF Troubled, Alive
    <3> QED
      BY <2>0, <3>1, <3>2, <3>3, ElsewhereKeepsLaunchInv
  <2>8. ASSUME NEW g \in Gens, SocketCloses(g) PROVE LaunchInv'
    <3>1. UNCHANGED <<generation, stopping, client, timer, exitSeen, faults, proc>>
      BY <2>8 DEF SocketCloses, procVars
    <3>2. child' \in {child, None} /\ termed' \subseteq termed \cup ({child} \ {None})
      BY <2>8 DEF SocketCloses, KillChild
    <3>3. connected' \in BOOLEAN
      BY <2>0, <2>8 DEF SocketCloses
    <3>4. \A h \in Gens : h = generation /\ ~stopping /\ Troubled(h)' => Troubled(h)
      BY <2>8, <3>1 DEF SocketCloses, Troubled, Alive, Shape, KillChild
    <3> QED
      BY <2>0, <3>1, <3>2, <3>3, <3>4, ElsewhereKeepsLaunchInv
  <2>9. ASSUME NEW g \in Gens, ChildExits(g) PROVE LaunchInv'
    <3>1. UNCHANGED <<generation, stopping, faults, proc, child, termed>>
      BY <2>9 DEF ChildExits
    <3>2. client' \in Gens \cup {None} /\ connected' \in BOOLEAN /\ timer' \in BOOLEAN
      BY <2>0, <2>9, Zenon DEF ChildExits, TeardownClient
    <3>3. exitSeen' \subseteq Gens
      BY <2>0, <2>9 DEF ChildExits
    <3>4. \A h \in Gens : h = generation /\ Troubled(h)' => Troubled(h)
      <4>1. CASE g = generation
        BY <2>9, <4>1 DEF ChildExits, Troubled, Alive
      <4>2. CASE g # generation
        BY <2>9, <3>1, <4>2 DEF ChildExits, Troubled, Alive
      <4> QED
        BY <4>1, <4>2
    <3> QED
      BY <2>0, <3>1, <3>2, <3>3, <3>4, ElsewhereKeepsLaunchInv
  <2>10. ASSUME NEW g \in Gens, BadFrame(g) \/ SessionEnds(g) \/ Crash(g) PROVE LaunchInv'
    <3>1. UNCHANGED <<generation, stopping, client, connected, timer, exitSeen, child, termed>>
      BY <2>10 DEF BadFrame, SessionEnds, Crash, Die, statusVars, procVars
    <3>2. Fault
      BY <2>10 DEF BadFrame, SessionEnds, Crash
    <3> QED
      BY <2>0, <3>1, <3>2, ElsewhereKeepsLaunchInv DEF Fault
  <2>11. ASSUME NEW g \in Gens, Terminate(g) PROVE LaunchInv'
    <3>1. UNCHANGED <<generation, stopping, client, connected, timer, exitSeen, child, termed,
                      faults>>
      BY <2>11 DEF Terminate, Die, statusVars
    <3>2. \A h \in Gens : Troubled(h)' => Troubled(h)
      BY <2>11, <3>1 DEF Terminate, Die, Eof, Troubled, Alive, Shape
    <3> QED
      BY <2>0, <3>1, <3>2, ElsewhereKeepsLaunchInv
  <2>12. CASE UNCHANGED vars
    <3>1. \A h \in Gens : Troubled(h)' => Troubled(h)
      BY <2>12 DEF vars, Troubled, Alive
    <3> QED
      BY <2>0, <2>12, <3>1, ElsewhereKeepsLaunchInv DEF vars
  <2> QED
    BY <2>1, <2>2, <2>3, <2>4, <2>5, <2>6, <2>7, <2>8, <2>9, <2>10, <2>11, <2>12
    DEF Next, Loop, Events, Engine, Quit
<1> QED
  BY <1>1, <1>2, ShapeKept, EngineInvKept, ClientInvKept, PTL DEF Spec

(* Every variable of the supervisor keeps its type.  What that says of        *)
(* `generation` is not obvious: a launch needs a fault of the launch before   *)
(* it, since only the exit of a child, or a socket path that cannot be made,  *)
(* arms the timer (engineSupervisor.ts, scheduleRestart), and a child is told *)
(* to end only once its connection has failed.                                *)
THEOREM SupervisorTypes == Spec => []TypeOK
<1>1. LaunchInv => TypeOK
  BY DEF LaunchInv
<1> QED
  BY <1>1, LaunchInvKept, PTL

=============================================================================
