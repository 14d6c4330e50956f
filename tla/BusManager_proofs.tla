------------------------- MODULE BusManager_proofs -------------------------
(* Proofs of the safety properties of BusManager, for any number of buses,    *)
(* interfaces and jobs.                                                       *)
EXTENDS BusManager, TLAPS

(* The steps of close after the bus's pump has left the registry.             *)
Closing == {"join_pump", "clear", "unregister", "shutdown"}

(* Where the asyncio thread is says what it works on.                         *)
HandlerInv ==
    /\ lpc = "idle" => target = None /\ victims = {}
    /\ lpc = "tx_lock" => target \in buses /\ victims = {}
    /\ lpc = "stop_jobs" /\ task = "stop" => target = None
    /\ lpc \in Closing => target \in BusIds /\ target \notin pumps /\ victims = {}
    /\ lpc = "join_pump" => target \in buses

(* What is kept for a bus, at each step of a close.                           *)
RegistryInv ==
    /\ locks = buses
    /\ \A b \in BusIds :
        /\ b \in buses <=> \/ b \in pumps
                           \/ /\ target = b /\ socket[b] = "open"
                              /\ lpc \in {"join_pump", "clear", "unregister"}
        /\ socket[b] = "open" <=> b \in buses \/ (target = b /\ lpc = "shutdown")
        /\ b \in dbc => b \in pumps \/ (target = b /\ lpc \in {"join_pump", "clear"})

(* A job that was started has a bus; one in the map has a bus with a pump     *)
(* that nobody closes, and a close stops the jobs of its bus only.            *)
JobInv ==
    /\ \A j \in JobIds : jpc[j] = "none" <=> jobBus[j] = None
    /\ \A j \in jobs \cup victims : jobBus[j] \in pumps
    /\ target # None /\ lpc # "tx_lock" => \A j \in jobs : jobBus[j] # target
    /\ target # None => \A j \in victims : jobBus[j] = target

(* While joins complete: a thread that lives has a pump or is waited for.     *)
ThreadInv ==
    /\ \A b \in BusIds :
        /\ b \in rates => b \in pumps \/ (target = b /\ lpc \in {"join_pump", "clear"})
        /\ rpc[b] \notin {"none", "dead"} => b \in pumps \/ (target = b /\ lpc = "join_pump")
        /\ socket[b] # "none" => rpc[b] # "none"
    /\ StoppedJobIsSilent

Inv == TypeOK /\ HandlerInv /\ RegistryInv /\ JobInv

(* Requests find the asyncio thread idle, a close goes through its steps in   *)
(* order, and the threads change only their own place, the rates and the      *)
(* queues.                                                                    *)
LEMMA InvKept == Spec => []Inv
<1>1. Init => Inv
  BY NoneAssumption DEF Init, Inv, TypeOK, HandlerInv, RegistryInv, JobInv, Closing
<1>2. Inv /\ [Next]_vars => Inv'
  <2> SUFFICES ASSUME Inv, [Next]_vars PROVE Inv'
    OBVIOUS
  <2> USE DEF Inv, TypeOK, HandlerInv, RegistryInv, JobInv, Closing,
      registryVars, recvVars, jobVars, loopVars, Handling
  <2>1. ASSUME NEW b \in BusIds, NEW i \in Ifaces, Open(b, i) PROVE Inv'
    BY <2>1 DEF Open
  <2>2. ASSUME NEW b \in BusIds, LoadDbc(b) \/ ClearDbc(b) PROVE Inv'
    BY <2>2 DEF LoadDbc, ClearDbc
  <2>3. ASSUME NEW b \in BusIds, TxSend(b) PROVE Inv'
    BY <2>3 DEF TxSend
  <2>4. ASSUME NEW b \in BusIds, Close(b) \/ ExitClose(b) PROVE Inv'
    BY <2>4 DEF Close, ExitClose, CloseFirst
  <2>5. ASSUME NEW j \in JobIds, NEW b \in BusIds, StartCyclic(j, b) PROVE Inv'
    BY <2>5, NoneAssumption DEF StartCyclic
  <2>6. ASSUME NEW j \in JobIds, StopCyclic(j) PROVE Inv'
    BY <2>6 DEF StopCyclic
  <2>7. CASE Exit
    BY <2>7 DEF Exit
  <2>8. CASE TxSendLocked
    BY <2>8 DEF TxSendLocked, RateAndEnqueue
  <2>9. ASSUME NEW j \in JobIds, StopJob(j) PROVE Inv'
    BY <2>9 DEF StopJob
  <2>10. CASE JobJoined \/ JoinTimesOut
    BY <2>10 DEF JobJoined, JoinTimesOut
  <2>11. CASE StopDone
    BY <2>11 DEF StopDone
  <2>12. CASE ClosePump
    BY <2>12 DEF ClosePump
  <2>13. CASE PumpJoined
    BY <2>13 DEF PumpJoined
  <2>14. CASE CloseClear
    BY <2>14 DEF CloseClear
  <2>15. CASE CloseUnregister
    BY <2>15 DEF CloseUnregister, CloseReturns
  <2>16. CASE CloseShutdown
    BY <2>16 DEF CloseShutdown, CloseReturns
  <2>17. CASE DrainRx
    BY <2>17 DEF DrainRx
  <2>18. ASSUME NEW b \in BusIds, Recv(b) PROVE Inv'
    BY <2>18 DEF Recv, RecvCheck, RecvReturns, RecvFrame, RateAndEnqueue
  <2>19. ASSUME NEW j \in JobIds, Job(j) PROVE Inv'
    BY <2>19 DEF Job, JobCheck, JobLookup, JobLock, JobSend, JobEcho, JobRate, JobWait,
           JobGoTo, RateAndEnqueue
  <2>20. CASE UNCHANGED vars
    BY <2>20 DEF vars
  <2> QED
    BY <2>1, <2>2, <2>3, <2>4, <2>5, <2>6, <2>7, <2>8, <2>9, <2>10,
       <2>11, <2>12, <2>13, <2>14, <2>15, <2>16, <2>17, <2>18, <2>19, <2>20
    DEF Next, Request, Continue, Terminated
<1> QED
  BY <1>1, <1>2, PTL DEF Spec

(* Every variable keeps its type, and only a bus with a pump has frames       *)
(* queued (bus.py, the registries of BusManager).                             *)
THEOREM BusTypesCorrect == Spec => []TypeOK
<1>1. Inv => TypeOK
  BY DEF Inv
<1> QED
  BY <1>1, InvKept, PTL

(* However opens and closes are interleaved with the threads, an interface    *)
(* never has two live sockets (bus.py:229): an open finds each live socket    *)
(* under its busId, because close takes the bus out of the registries before  *)
(* the next handler runs.                                                     *)
THEOREM OneLiveSocket == Spec => []OneSocketPerIface
<1>1. Init => OneSocketPerIface
  BY DEF Init, OneSocketPerIface
<1>2. Inv /\ OneSocketPerIface /\ [Next]_vars => OneSocketPerIface'
  <2> SUFFICES ASSUME Inv, OneSocketPerIface, [Next]_vars PROVE OneSocketPerIface'
    OBVIOUS
  <2> USE DEF Inv, TypeOK, HandlerInv, RegistryInv, JobInv, Closing, OneSocketPerIface,
      registryVars, recvVars, jobVars, loopVars, Handling
  <2>1. ASSUME NEW b \in BusIds, NEW i \in Ifaces, Open(b, i) PROVE OneSocketPerIface'
    BY <2>1 DEF Open
  <2>2. CASE CloseShutdown
    BY <2>2 DEF CloseShutdown
  <2>3. CASE UNCHANGED <<iface, socket>>
    BY <2>3
  <2> QED
    BY <2>1, <2>2, <2>3
    DEF Next, Request, Continue, Terminated, LoadDbc, ClearDbc, TxSend, Close, ExitClose,
        CloseFirst, StartCyclic, StopCyclic, Exit, TxSendLocked, StopJob, JobJoined,
        JoinTimesOut, StopDone, ClosePump, PumpJoined, CloseClear, CloseUnregister, DrainRx,
        Recv, RecvCheck, RecvReturns, RecvFrame, Job, JobCheck, JobLookup, JobLock, JobSend,
        JobEcho, JobRate, JobWait, JobGoTo, vars
<1> QED
  BY <1>1, <1>2, InvKept, PTL DEF Spec

(* A handler that works on one bus changes nothing that is kept for another:  *)
(* in particular the jobs a close stops are those of its bus (tx.py,          *)
(* stop_bus), with or without joins that time out.  A rate key is lost only   *)
(* to a frame that is rated at the cap the buses share (rate.py).             *)
THEOREM CloseIsLocal == Spec => BusesAreIsolated
<1>1. Inv /\ [Next]_vars => [OthersAreLeftAlone]_vars
  <2> SUFFICES ASSUME Inv, [Next]_vars PROVE OthersAreLeftAlone
    OBVIOUS
  <2> USE DEF Inv, TypeOK, HandlerInv, RegistryInv, JobInv, Closing, OthersAreLeftAlone,
      registryVars, recvVars, jobVars, loopVars, Handling
  <2>1. ASSUME NEW b \in BusIds, NEW i \in Ifaces, Open(b, i) PROVE OthersAreLeftAlone
    BY <2>1 DEF Open
  <2>2. ASSUME NEW b \in BusIds, LoadDbc(b) \/ ClearDbc(b) PROVE OthersAreLeftAlone
    BY <2>2 DEF LoadDbc, ClearDbc
  <2>3. ASSUME NEW b \in BusIds, TxSend(b) PROVE OthersAreLeftAlone
    BY <2>3 DEF TxSend
  <2>4. ASSUME NEW b \in BusIds, Close(b) \/ ExitClose(b) PROVE OthersAreLeftAlone
    BY <2>4 DEF Close, ExitClose, CloseFirst
  <2>5. ASSUME NEW j \in JobIds, NEW b \in BusIds, StartCyclic(j, b) PROVE OthersAreLeftAlone
    BY <2>5 DEF StartCyclic
  <2>6. ASSUME NEW j \in JobIds, StopCyclic(j) PROVE OthersAreLeftAlone
    BY <2>6 DEF StopCyclic
  <2>7. CASE Exit
    BY <2>7 DEF Exit
  <2>8. CASE TxSendLocked
    BY <2>8 DEF TxSendLocked, RateAndEnqueue
  <2>9. ASSUME NEW j \in JobIds, StopJob(j) PROVE OthersAreLeftAlone
    BY <2>9 DEF StopJob
  <2>10. CASE JobJoined \/ JoinTimesOut
    BY <2>10 DEF JobJoined, JoinTimesOut
  <2>11. CASE StopDone
    BY <2>11 DEF StopDone
  <2>12. CASE ClosePump
    BY <2>12 DEF ClosePump
  <2>13. CASE PumpJoined
    BY <2>13 DEF PumpJoined
  <2>14. CASE CloseClear
    BY <2>14 DEF CloseClear
  <2>15. CASE CloseUnregister
    BY <2>15 DEF CloseUnregister, CloseReturns
  <2>16. CASE CloseShutdown
    BY <2>16 DEF CloseShutdown, CloseReturns
  <2>17. CASE DrainRx
    BY <2>17 DEF DrainRx
  <2>18. ASSUME NEW b \in BusIds, Recv(b) PROVE OthersAreLeftAlone
    BY <2>18 DEF Recv, RecvCheck, RecvReturns, RecvFrame, RateAndEnqueue
  <2>19. ASSUME NEW j \in JobIds, Job(j) PROVE OthersAreLeftAlone
    BY <2>19 DEF Job, JobCheck, JobLookup, JobLock, JobSend, JobEcho, JobRate, JobWait,
           JobGoTo, RateAndEnqueue
  <2>20. CASE UNCHANGED vars
    BY <2>20 DEF vars
  <2> QED
    BY <2>1, <2>2, <2>3, <2>4, <2>5, <2>6, <2>7, <2>8, <2>9, <2>10,
       <2>11, <2>12, <2>13, <2>14, <2>15, <2>16, <2>17, <2>18, <2>19, <2>20
    DEF Next, Request, Continue, Terminated
<1> QED
  BY <1>1, InvKept, PTL DEF Spec, BusesAreIsolated

-----------------------------------------------------------------------------
(* What needs the joins to complete.                                          *)
LEMMA ThreadInvKept ==
  ASSUME ~JoinMayTimeOut
  PROVE  Spec => []ThreadInv
<1>1. Init => ThreadInv
  BY DEF Init, ThreadInv, StoppedJobIsSilent
<1>2. Inv /\ ThreadInv /\ [Next]_vars => ThreadInv'
  <2> SUFFICES ASSUME Inv, ThreadInv, [Next]_vars PROVE ThreadInv'
    OBVIOUS
  <2> USE DEF Inv, TypeOK, HandlerInv, RegistryInv, JobInv, Closing, ThreadInv, StoppedJobIsSilent,
      registryVars, recvVars, jobVars, loopVars, Handling
  <2>1. ASSUME NEW b \in BusIds, NEW i \in Ifaces, Open(b, i) PROVE ThreadInv'
    BY <2>1 DEF Open
  <2>2. ASSUME NEW b \in BusIds, LoadDbc(b) \/ ClearDbc(b) PROVE ThreadInv'
    BY <2>2 DEF LoadDbc, ClearDbc
  <2>3. ASSUME NEW b \in BusIds, TxSend(b) PROVE ThreadInv'
    BY <2>3 DEF TxSend
  <2>4. ASSUME NEW b \in BusIds, Close(b) \/ ExitClose(b) PROVE ThreadInv'
    BY <2>4 DEF Close, ExitClose, CloseFirst
  <2>5. ASSUME NEW j \in JobIds, NEW b \in BusIds, StartCyclic(j, b) PROVE ThreadInv'
    BY <2>5 DEF StartCyclic
  <2>6. ASSUME NEW j \in JobIds, StopCyclic(j) PROVE ThreadInv'
    BY <2>6 DEF StopCyclic
  <2>7. CASE Exit
    BY <2>7 DEF Exit
  <2>8. CASE TxSendLocked
    BY <2>8 DEF TxSendLocked, RateAndEnqueue
  <2>9. ASSUME NEW j \in JobIds, StopJob(j) PROVE ThreadInv'
    BY <2>9 DEF StopJob
  <2>10. CASE JobJoined \/ JoinTimesOut
    BY <2>10 DEF JobJoined, JoinTimesOut
  <2>11. CASE StopDone
    BY <2>11 DEF StopDone
  <2>12. CASE ClosePump
    BY <2>12 DEF ClosePump
  <2>13. CASE PumpJoined
    BY <2>13 DEF PumpJoined
  <2>14. CASE CloseClear
    BY <2>14 DEF CloseClear
  <2>15. CASE CloseUnregister
    BY <2>15 DEF CloseUnregister, CloseReturns
  <2>16. CASE CloseShutdown
    BY <2>16 DEF CloseShutdown, CloseReturns
  <2>17. CASE DrainRx
    BY <2>17 DEF DrainRx
  <2>18. ASSUME NEW b \in BusIds, Recv(b) PROVE ThreadInv'
    BY <2>18 DEF Recv, RecvCheck, RecvReturns, RecvFrame, RateAndEnqueue
  <2>19. ASSUME NEW j \in JobIds, Job(j) PROVE ThreadInv'
    BY <2>19 DEF Job, JobCheck, JobLookup, JobLock, JobSend, JobEcho, JobRate, JobWait,
           JobGoTo, RateAndEnqueue
  <2>20. CASE UNCHANGED vars
    BY <2>20 DEF vars
  <2> QED
    BY <2>1, <2>2, <2>3, <2>4, <2>5, <2>6, <2>7, <2>8, <2>9, <2>10,
       <2>11, <2>12, <2>13, <2>14, <2>15, <2>16, <2>17, <2>18, <2>19, <2>20
    DEF Next, Request, Continue, Terminated
<1> QED
  BY <1>1, <1>2, InvKept, PTL DEF Spec

(* A socket that was shut down is used by no thread, and none is left behind, *)
(* because close stops and joins them first (bus.py:368-384).                 *)
THEOREM ClosedBusIsSilent ==
  ASSUME ~JoinMayTimeOut
  PROVE  Spec => []ClosedIsSilent
<1>1. Inv /\ ThreadInv => ClosedIsSilent
  BY NoneAssumption
  DEF Inv, TypeOK, HandlerInv, RegistryInv, JobInv, Closing, ThreadInv, StoppedJobIsSilent, ClosedIsSilent
<1> QED
  BY <1>1, InvKept, ThreadInvKept, PTL

(* Between handlers every registry has the open buses, and nothing is kept    *)
(* for another: no echo and no late frame brings a rate key back (bus.py).    *)
THEOREM RegistriesAreInStep ==
  ASSUME ~JoinMayTimeOut
  PROVE  Spec => []RegistriesAgree
<1>1. Inv /\ ThreadInv => RegistriesAgree
  BY DEF Inv, TypeOK, HandlerInv, RegistryInv, JobInv, Closing, ThreadInv, RegistriesAgree
<1> QED
  BY <1>1, InvKept, ThreadInvKept, PTL

(* A job that was stopped sends no more (tx.py, stop and stop_bus).           *)
THEOREM StoppedJobEnds ==
  ASSUME ~JoinMayTimeOut
  PROVE  Spec => []StoppedJobIsSilent
<1>1. ThreadInv => StoppedJobIsSilent
  BY DEF ThreadInv
<1> QED
  BY <1>1, ThreadInvKept, PTL

=============================================================================
