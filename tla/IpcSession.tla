----------------------------- MODULE IpcSession -----------------------------
(***************************************************************************)
(* One session between Electron main and the engine: EngineClient           *)
(* (electron/main/engineClient.ts) at one end of the Unix socket,           *)
(* client_session (can_engine/server.py) at the other.                      *)
(*                                                                          *)
(* Main keeps a map of pending requests, each with a timer.  The engine     *)
(* serves requests one at a time; its request handler, its flush loop and   *)
(* its heartbeat share the writer through one asyncio.Lock, whose waiters   *)
(* are served in order, and wait in drain() while too much is unsent.       *)
(* Requests are told apart by what they do to the set of open buses: open,  *)
(* close, or neither.  A bus is named by the request that opened it.        *)
(***************************************************************************)
EXTENDS Integers, Sequences, FiniteSets

CONSTANTS
    MaxPending,     \* MAX_PENDING_REQUESTS
    HighWater,      \* messages the transport may hold unsent before drain() waits
    MayOversize,    \* TRUE: the JSON of a batch may be over MAX_FRAME_BYTES
    None,           \* no bus, no task
    MaxRequests     \* bound: requests main makes

ASSUME MaxPendingAssumption == MaxPending \in Nat \ {0}
ASSUME HighWaterAssumption == HighWater \in Nat
ASSUME MayOversizeAssumption == MayOversize \in BOOLEAN
ASSUME MaxRequestsAssumption == MaxRequests \in Nat

Ids == 1..MaxRequests

ASSUME NoneAssumption == None \notin Ids /\ None \notin {"handler", "flush", "beat"}

Tasks == {"handler", "flush", "beat"}

VARIABLES
    requestSeq,     \* the requests made so far are 1..requestSeq
    type,           \* type[r]: "open", "close", "other"
    arg,            \* arg[r]: the bus a close is for
    pending,        \* keys of EngineClient.pending
    outcome,        \* outcome[r]: how the promise of request r was settled
    closed,         \* EngineClient.closed
    up,             \* requests on the way to the engine
    down,           \* messages on the way to main
    alive,          \* the engine process runs
    ended,          \* the tasks of the session that have ended
    holder,         \* the task that holds write_lock and waits in drain()
    waiting,        \* the tasks waiting for write_lock, each with its message
    openBuses,      \* BusManager._buses
    queued          \* buses with received frames in their queue

clientVars == <<requestSeq, type, arg, pending, outcome, closed>>
writeVars  == <<down, ended, holder, waiting>>
busVars    == <<openBuses, queued>>
vars == <<requestSeq, type, arg, pending, outcome, closed, up, down, alive, ended, holder,
          waiting, openBuses, queued>>

(* The session begins with the engine's hello. *)
Init ==
    /\ requestSeq = 0
    /\ type = [r \in Ids |-> "none"]
    /\ arg = [r \in Ids |-> None]
    /\ pending = {}
    /\ outcome = [r \in Ids |-> "none"]
    /\ closed = FALSE
    /\ up = <<>>
    /\ down = <<[kind |-> "hello"]>>
    /\ alive = TRUE
    /\ ended = {}
    /\ holder = "handler"
    /\ waiting = <<>>
    /\ openBuses = {}
    /\ queued = {}

-----------------------------------------------------------------------------
(* Main: EngineClient *)

(* What main may ask: a bus it closes is one whose open was answered. *)
Askable(t, b) ==
    \/ t \in {"open", "other"} /\ b = None
    \/ t = "close" /\ b \in Ids /\ type[b] = "open" /\ outcome[b] = "resolved"

(* request: refused at the cap (backpressure) and on a closed client. *)
Request(t, b) ==
    /\ ~closed
    /\ Cardinality(pending) < MaxPending
    /\ requestSeq < MaxRequests
    /\ Askable(t, b)
    /\ requestSeq' = requestSeq + 1
    /\ type' = [type EXCEPT ![requestSeq'] = t]
    /\ arg' = [arg EXCEPT ![requestSeq'] = b]
    /\ pending' = pending \cup {requestSeq'}
    /\ outcome' = [outcome EXCEPT ![requestSeq'] = "pending"]
    /\ up' = IF alive THEN Append(up, requestSeq') ELSE up
    /\ UNCHANGED <<closed, alive, writeVars, busVars>>

Settle(r, how) ==
    /\ pending' = pending \ {r}
    /\ outcome' = [outcome EXCEPT ![r] = how]

(* Mutant of Timeout: the entry stays in the map. *)
TimeoutKeepsSlot(r) ==
    /\ r \in pending
    /\ outcome' = [outcome EXCEPT ![r] = "timeout"]
    /\ UNCHANGED <<requestSeq, type, arg, pending, closed, up, alive, writeVars, busVars>>

(* The 8 s timer of a request fires. *)
Timeout(r) ==
    /\ r \in pending
    /\ Settle(r, "timeout")
    /\ UNCHANGED <<requestSeq, type, arg, closed, up, alive, writeVars, busVars>>

(* Mutant of Dispatch: a reply settles the oldest pending request. *)
DispatchOldest(m) ==
    IF m.kind = "reply" /\ pending # {}
    THEN Settle(CHOOSE r \in pending : \A s \in pending : r <= s,
                IF m.ok THEN "resolved" ELSE "refused")
    ELSE UNCHANGED <<pending, outcome>>

(* dispatch: a reply settles the request it names; one whose request has timed *)
(* out, and every other message, settles none.                                 *)
Dispatch(m) ==
    IF m.kind = "reply" /\ m.id \in pending
    THEN Settle(m.id, IF m.ok THEN "resolved" ELSE "refused")
    ELSE UNCHANGED <<pending, outcome>>

Receive ==
    /\ ~closed
    /\ down # <<>>
    /\ Dispatch(Head(down))
    /\ down' = Tail(down)
    /\ UNCHANGED <<requestSeq, type, arg, closed, up, alive, ended, holder, waiting, busVars>>

(* Mutant of RejectPending: the map is emptied, the promises stay. *)
ForgetPending ==
    /\ pending' = {}
    /\ UNCHANGED outcome

RejectPending ==
    /\ pending' = {}
    /\ outcome' = [r \in Ids |-> IF r \in pending THEN "disconnected" ELSE outcome[r]]

(* The socket's 'close' event, after all that arrived was read. *)
SocketCloses ==
    /\ ~closed /\ ~alive
    /\ down = <<>>
    /\ closed' = TRUE
    /\ RejectPending
    /\ UNCHANGED <<requestSeq, type, arg, up, alive, writeVars, busVars>>

(* EngineClient.close: by the supervisor, or on a frame it cannot decode. *)
Close ==
    /\ ~closed
    /\ closed' = TRUE
    /\ RejectPending
    /\ down' = <<>>
    /\ UNCHANGED <<requestSeq, type, arg, up, alive, ended, holder, waiting, busVars>>

-----------------------------------------------------------------------------
(* The engine: client_session *)

Ready(t) ==
    /\ alive
    /\ t \notin ended
    /\ holder # t
    /\ \A i \in DOMAIN waiting : waiting[i].task # t

(* Under the lock: encode and write, then drain.  A batch over MAX_FRAME_BYTES  *)
(* raises out of encode_message: the lock is released and the task ends.        *)
Write(t, m) ==
    \/ /\ holder' = t
       /\ down' = IF closed THEN down ELSE Append(down, m)
       /\ UNCHANGED ended
    \/ /\ MayOversize /\ m.kind = "batch"
       /\ holder' = None
       /\ ended' = ended \cup {t}
       /\ UNCHANGED down

(* Mutant of Send: a waiter is put in front of the others. *)
SendOvertakes(t, m) ==
    IF holder = None /\ waiting = <<>>
    THEN Write(t, m) /\ UNCHANGED waiting
    ELSE /\ waiting' = <<[task |-> t, msg |-> m]>> \o waiting
         /\ UNCHANGED <<down, ended, holder>>

(* send: a lock that is free and not waited for is taken at once. *)
Send(t, m) ==
    IF holder = None /\ waiting = <<>>
    THEN Write(t, m) /\ UNCHANGED waiting
    ELSE /\ waiting' = Append(waiting, [task |-> t, msg |-> m])
         /\ UNCHANGED <<down, ended, holder>>

(* The first waiter gets the lock. *)
Wake ==
    /\ holder = None
    /\ waiting # <<>>
    /\ Write(Head(waiting).task, Head(waiting).msg)
    /\ waiting' = Tail(waiting)
    /\ UNCHANGED <<clientVars, up, alive, busVars>>

(* drain() returns and the lock is released. *)
Drained ==
    /\ holder # None
    /\ Len(down) <= HighWater
    /\ holder' = None
    /\ UNCHANGED <<clientVars, up, down, alive, ended, waiting, busVars>>

(* handle_request: bus.open, refused or done ... *)
ServeOpen(r, ok) ==
    /\ type[r] = "open"
    /\ openBuses' = IF ok THEN openBuses \cup {r} ELSE openBuses
    /\ UNCHANGED queued

(* ... bus.close, also one whose shutdown fails, or that finds no bus ... *)
ServeClose(r, ok) ==
    /\ type[r] = "close"
    /\ ok => arg[r] \in openBuses
    /\ openBuses' = openBuses \ {arg[r]}
    /\ queued' = queued \ {arg[r]}

(* ... and the requests that leave the set of buses alone. *)
ServeOther(r) ==
    /\ type[r] = "other"
    /\ UNCHANGED busVars

(* The handler reads a request, carries it out and sends the answer, all      *)
(* without giving way to another task before it asks for the lock.            *)
Handle ==
    /\ Ready("handler")
    /\ up # <<>>
    /\ \E ok \in BOOLEAN :
          /\ ServeOpen(Head(up), ok) \/ ServeClose(Head(up), ok) \/ ServeOther(Head(up))
          /\ Send("handler", [kind |-> "reply", id |-> Head(up), ok |-> ok])
    /\ up' = Tail(up)
    /\ UNCHANGED <<clientVars, alive>>

(* Mutant of Flush: a batch is given up when the lock is taken. *)
FlushIfFree ==
    /\ Ready("flush")
    /\ queued # {}
    /\ queued' \in SUBSET queued
    /\ IF holder = None THEN Send("flush", [kind |-> "batch", buses |-> queued])
                        ELSE UNCHANGED writeVars
    /\ UNCHANGED <<clientVars, up, alive, openBuses>>

(* rx_flush_loop: a batch has frames of every bus that has some; what is over *)
(* the limit stays queued.                                                    *)
Flush ==
    /\ Ready("flush")
    /\ queued # {}
    /\ queued' \in SUBSET queued
    /\ Send("flush", [kind |-> "batch", buses |-> queued])
    /\ UNCHANGED <<clientVars, up, alive, openBuses>>

Beat ==
    /\ Ready("beat")
    /\ Send("beat", [kind |-> "beat"])
    /\ UNCHANGED <<clientVars, up, alive, busVars>>

(* drain() raises in a loop when main has gone: that task ends. *)
LosesPeer ==
    /\ closed
    /\ holder \in {"flush", "beat"}
    /\ ended' = ended \cup {holder}
    /\ holder' = None
    /\ UNCHANGED <<clientVars, up, down, alive, waiting, busVars>>

(* The handler reads EOF, or drain() raises in it: the session cancels the    *)
(* loops and closes the writer.  A batch that waits for the lock is lost.     *)
EndSession ==
    /\ alive /\ closed
    /\ "handler" \notin ended
    /\ holder = "handler" \/ (Ready("handler") /\ up = <<>>)
    /\ ended' = Tasks
    /\ holder' = None
    /\ waiting' = <<>>
    /\ UNCHANGED <<clientVars, up, down, alive, busVars>>

(* A recv thread enqueues a frame. *)
FrameArrives(b) ==
    /\ alive
    /\ b \in openBuses
    /\ queued' = queued \cup {b}
    /\ UNCHANGED <<clientVars, up, writeVars, alive, openBuses>>

(* The engine process dies; what it had written but not sent is lost. *)
Die ==
    /\ alive
    /\ alive' = FALSE
    /\ \E n \in 0..Len(down) : down' = SubSeq(down, 1, n)
    /\ up' = <<>>
    /\ ended' = Tasks
    /\ holder' = None
    /\ waiting' = <<>>
    /\ openBuses' = {} /\ queued' = {}
    /\ UNCHANGED clientVars

-----------------------------------------------------------------------------
Client ==
    \/ \E t \in {"open", "close", "other"}, b \in Ids \cup {None} : Request(t, b)
    \/ \E r \in Ids : Timeout(r)
    \/ Receive \/ SocketCloses \/ Close

Engine ==
    \/ Handle \/ Flush \/ Beat \/ Wake \/ Drained \/ LosesPeer \/ EndSession
    \/ \E b \in Ids : FrameArrives(b)
    \/ Die

(* Nothing happens in a session that is over at both ends. *)
Over ==
    /\ closed /\ "handler" \in ended
    /\ UNCHANGED vars

Next == Client \/ Engine \/ Over

(* Main reads its socket, and a task of the engine that can run does.  No      *)
(* timer is assumed to fire, no request to be made and no engine to die.       *)
Fairness ==
    /\ WF_vars(Receive) /\ WF_vars(SocketCloses)
    /\ WF_vars(Handle) /\ WF_vars(Flush) /\ WF_vars(Wake) /\ WF_vars(Drained)

Spec == Init /\ [][Next]_vars

FairSpec == Spec /\ Fairness

-----------------------------------------------------------------------------
(* Properties *)

Messages ==
    [kind : {"hello", "beat"}] \cup [kind : {"batch"}, buses : SUBSET Ids]
        \cup [kind : {"reply"}, id : Ids, ok : BOOLEAN]

(* Types, with the two bounds that hold the memory of both ends: the pending   *)
(* map at its cap with one entry per unsettled promise (engineClient.ts,       *)
(* request), and one message over the high-water mark (server.py, send).       *)
TypeOK ==
    /\ requestSeq \in 0..MaxRequests
    /\ type \in [Ids -> {"none", "open", "close", "other"}]
    /\ arg \in [Ids -> Ids \cup {None}]
    /\ outcome \in [Ids -> {"none", "pending", "resolved", "refused", "timeout",
                            "disconnected"}]
    /\ pending = {r \in Ids : outcome[r] = "pending"}
    /\ Cardinality(pending) <= MaxPending
    /\ closed \in BOOLEAN /\ alive \in BOOLEAN
    /\ up \in Seq(Ids)
    /\ down \in Seq(Messages) /\ Len(down) <= HighWater + 1
    /\ ended \subseteq Tasks
    /\ holder \in Tasks \cup {None}
    /\ waiting \in Seq([task : Tasks, msg : Messages])
    /\ openBuses \subseteq Ids
    /\ queued \subseteq openBuses

(* What main was told is so: a bus whose open was answered is open until main  *)
(* asks to close it, one whose open was refused is not, and one whose close    *)
(* was answered, in whatever way, is not (engineClient.ts, dispatch by id;     *)
(* server.py, handle_request), although answers come late and requests time    *)
(* out meanwhile.                                                              *)
AnswersAreTrue ==
    alive =>
        \A r \in Ids :
            /\ type[r] = "open" /\ outcome[r] = "resolved" =>
                  r \in openBuses \/ \E c \in Ids : type[c] = "close" /\ arg[c] = r
            /\ type[r] = "open" /\ outcome[r] = "refused" => r \notin openBuses
            /\ type[r] = "close" /\ outcome[r] \in {"resolved", "refused"} =>
                  arg[r] \notin openBuses

(* A batch has frames of buses main knows: it never arrives before the answer  *)
(* to their open nor after the answer to their close (server.py, the order of  *)
(* drain_rx, the handlers and write_lock).                                     *)
BatchesOfKnownBuses ==
    ~closed /\ down # <<>> /\ Head(down).kind = "batch" =>
        \A b \in Head(down).buses :
            /\ outcome[b] # "pending"
            /\ \A c \in Ids : type[c] = "close" /\ arg[c] = b =>
                  outcome[c] \notin {"resolved", "refused"}

(* Every request is settled, even if no timer fires: answered, or rejected     *)
(* when the engine dies (engineClient.ts, rejectPending).  The handler is not  *)
(* kept from the writer by the flush loop and the heartbeat.                   *)
EverySettles == \A r \in Ids : outcome[r] = "pending" ~> outcome[r] # "pending"

Delivered(b) == down # <<>> /\ Head(down).kind = "batch" /\ b \in Head(down).buses

SessionOver(b) == closed \/ ~alive \/ b \notin openBuses

(* While the flush loop runs, received frames reach main (server.py,           *)
(* rx_flush_loop).                                                             *)
FramesReachMain ==
    \A b \in Ids : b \in queued ~> Delivered(b) \/ SessionOver(b) \/ "flush" \in ended

(* "pending frames never sit longer than 33 ms" (docs/hardening.md:15): in a   *)
(* session that goes on they are sent.                                         *)
PendingFramesFlow == \A b \in Ids : b \in queued ~> Delivered(b) \/ SessionOver(b)
=============================================================================
