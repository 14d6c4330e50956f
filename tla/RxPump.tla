------------------------------- MODULE RxPump -------------------------------
(***************************************************************************)
(* The bounded receive queues of the engine (can_engine/rx.py, class        *)
(* RxPump) and the drain that empties them into one rx.batch                *)
(* (can_engine/bus.py, drain_rx; can_engine/server.py, rx_flush_loop).      *)
(*                                                                          *)
(* A queue has several producers: the bus's own recv thread, the thread of  *)
(* every cyclic job that sends on the bus (its frames are echoed), and the  *)
(* asyncio thread, which echoes one-shot sends.  The asyncio thread is also *)
(* the only consumer.  queue.Queue makes each of full(), get_nowait() and   *)
(* put_nowait() atomic; _enqueue as a whole is not, so it is a sequence of  *)
(* steps here and the threads interleave between them.                      *)
(***************************************************************************)
EXTENDS Integers, Sequences, FiniteSets

CONSTANTS
    Buses,      \* the open buses
    Order,      \* the buses in the order they were opened (dict order of _pumps)
    Threads,    \* every thread that enqueues frames
    Loop,       \* the asyncio thread: echoes one-shot sends, runs the drain
    Feeds,      \* Feeds[t]: the buses thread t enqueues frames for
    NoFrame,    \* held[t] of a thread that is not enqueueing
    Capacity,   \* RX_QUEUE_MAX
    BatchMax,   \* RX_BATCH_MAX_FRAMES
    MaxMade     \* bound: MaxMade[t], the frames thread t makes

ASSUME BusAssumption ==
    /\ Order \in Seq(Buses)
    /\ \A b \in Buses : \E i \in 1..Len(Order) : Order[i] = b
    /\ \A i, j \in 1..Len(Order) : Order[i] = Order[j] => i = j
ASSUME ThreadAssumption ==
    /\ IsFiniteSet(Threads)
    /\ Loop \in Threads
    /\ Feeds \in [Threads -> SUBSET Buses]
ASSUME BoundAssumption ==
    /\ Capacity \in Nat \ {0}
    /\ BatchMax \in Nat \ {0}
    /\ MaxMade \in [Threads -> Nat]

(* A frame is known by its bus, the thread that stamped it, and its number. *)
Frame == [bus : Buses, thread : Threads, n : Nat]

ASSUME NoFrameAssumption == NoFrame \notin Frame

VARIABLES
    queue,      \* queue[b]: RxPump._queue
    dropped,    \* dropped[b]: RxPump._dropped
    pc,         \* where each thread is in _enqueue
    held,       \* the frame each thread is enqueueing
    made,       \* made[t]: frames thread t has stamped
    overtaken,  \* history: threads that have lost the room they saw to another's frame
    phase,      \* where the asyncio thread is in drain_rx
    at,         \* the position in Order the drain has reached
    quota,      \* frames the drain may still take from that pump
    batch,      \* the frames taken so far in this drain
    sawEmpty,   \* history: the buses whose queue this drain found empty
    stamped,    \* history: frames stamped for each bus
    taken,      \* history: frames the drains took from each bus
    lastTaken   \* history: lastTaken[b][t], number of t's last frame taken from b

enqueueVars == <<pc, held, made>>
drainVars   == <<phase, at, quota, batch, sawEmpty, taken, lastTaken>>
vars == <<queue, dropped, pc, held, made, overtaken, phase, at, quota, batch,
          sawEmpty, stamped, taken, lastTaken>>

Lesser(i, j) == IF i < j THEN i ELSE j

(* Mutant of Share: the first bus may take the whole batch. *)
ShareAll == BatchMax

(* The equal first share of each pump. *)
Share == IF BatchMax \div Len(Order) > 1 THEN BatchMax \div Len(Order) ELSE 1

Room == BatchMax - Len(batch)

Init ==
    /\ queue = [b \in Buses |-> <<>>]
    /\ dropped = [b \in Buses |-> 0]
    /\ pc = [t \in Threads |-> "idle"]
    /\ held = [t \in Threads |-> NoFrame]
    /\ made = [t \in Threads |-> 0]
    /\ overtaken = {}
    /\ phase = "idle"
    /\ at = 1
    /\ quota = 0
    /\ batch = <<>>
    /\ sawEmpty = {}
    /\ stamped = [b \in Buses |-> 0]
    /\ taken = [b \in Buses |-> 0]
    /\ lastTaken = [b \in Buses |-> [t \in Threads |-> 0]]

-----------------------------------------------------------------------------
(* Enqueueing, one action per atomic step of _enqueue. *)

GoTo(t, label) == pc' = [pc EXCEPT ![t] = label]

(* The producers that are in _enqueue for bus b. *)
Enqueueing(b) == {t \in Threads : pc[t] # "idle" /\ held[t].bus = b}

(* The thread looks at the queue: what others put before is no matter now. *)
Looks(t) == overtaken' = overtaken \ {t}

(* _enqueue returns: the thread no longer holds a frame. *)
Return(t) ==
    /\ GoTo(t, "idle")
    /\ held' = [held EXCEPT ![t] = NoFrame]

(* A thread stamps a frame and calls _enqueue.  The asyncio thread does so in *)
(* a request handler, which cannot run inside drain_rx (no await there), only *)
(* between drains or while a batch is being written.                          *)
Stamp(t, b) ==
    /\ pc[t] = "idle"
    /\ b \in Feeds[t]
    /\ made[t] < MaxMade[t]
    /\ t = Loop => phase \in {"idle", "sending"}
    /\ GoTo(t, "check")
    /\ held' = [held EXCEPT ![t] = [bus |-> b, thread |-> t, n |-> made[t] + 1]]
    /\ made' = [made EXCEPT ![t] = @ + 1]
    /\ stamped' = [stamped EXCEPT ![b] = @ + 1]
    /\ UNCHANGED <<queue, dropped, overtaken, drainVars>>

(* Mutant of CheckFull: makes room one frame too late. *)
CheckFullLate(t) ==
    /\ pc[t] = "check"
    /\ GoTo(t, IF Len(queue[held[t].bus]) > Capacity THEN "evict" ELSE "put")
    /\ Looks(t)
    /\ UNCHANGED <<queue, dropped, held, made, stamped, drainVars>>

(* if self._queue.full() *)
CheckFull(t) ==
    /\ pc[t] = "check"
    /\ GoTo(t, IF Len(queue[held[t].bus]) >= Capacity THEN "evict" ELSE "put")
    /\ Looks(t)
    /\ UNCHANGED <<queue, dropped, held, made, stamped, drainVars>>

(* self._queue.get_nowait(): the queue may have changed since the check. *)
Evict(t) ==
    LET b == held[t].bus IN
    /\ pc[t] = "evict"
    /\ queue[b] # <<>>
    /\ queue' = [queue EXCEPT ![b] = Tail(@)]
    /\ GoTo(t, "count_evicted")
    /\ Looks(t)
    /\ UNCHANGED <<dropped, held, made, stamped, drainVars>>

(* except queue.Empty: pass *)
EvictFindsEmpty(t) ==
    /\ pc[t] = "evict"
    /\ queue[held[t].bus] = <<>>
    /\ GoTo(t, "put")
    /\ Looks(t)
    /\ UNCHANGED <<queue, dropped, held, made, stamped, drainVars>>

(* Mutant of CountEvicted: the evicted frame is not counted. *)
EvictedNotCounted(t) ==
    /\ pc[t] = "count_evicted"
    /\ GoTo(t, "put")
    /\ UNCHANGED <<queue, dropped, held, made, stamped, overtaken, drainVars>>

(* self._note_drop() for the evicted frame *)
CountEvicted(t) ==
    /\ pc[t] = "count_evicted"
    /\ dropped' = [dropped EXCEPT ![held[t].bus] = @ + 1]
    /\ GoTo(t, "put")
    /\ UNCHANGED <<queue, held, made, stamped, overtaken, drainVars>>

(* Mutant of Put: a queue without maxsize. *)
PutUnbounded(t) ==
    LET b == held[t].bus IN
    /\ pc[t] = "put"
    /\ queue' = [queue EXCEPT ![b] = Append(@, held[t])]
    /\ overtaken' = (overtaken \cup Enqueueing(b)) \ {t}
    /\ Return(t)
    /\ UNCHANGED <<dropped, made, stamped, drainVars>>

(* Mutant of Put: a LifoQueue. *)
PutInFront(t) ==
    LET b == held[t].bus IN
    /\ pc[t] = "put"
    /\ Len(queue[b]) < Capacity
    /\ queue' = [queue EXCEPT ![b] = <<held[t]>> \o @]
    /\ overtaken' = (overtaken \cup Enqueueing(b)) \ {t}
    /\ Return(t)
    /\ UNCHANGED <<dropped, made, stamped, drainVars>>

(* self._queue.put_nowait(frame) *)
Put(t) ==
    LET b == held[t].bus IN
    /\ pc[t] = "put"
    /\ Len(queue[b]) < Capacity
    /\ queue' = [queue EXCEPT ![b] = Append(@, held[t])]
    /\ overtaken' = (overtaken \cup Enqueueing(b)) \ {t}
    /\ Return(t)
    /\ UNCHANGED <<dropped, made, stamped, drainVars>>

(* put_nowait raises queue.Full: another producer took the freed slot. *)
PutFindsFull(t) ==
    /\ pc[t] = "put"
    /\ Len(queue[held[t].bus]) >= Capacity
    /\ GoTo(t, "count_rejected")
    /\ UNCHANGED <<queue, dropped, held, made, stamped, overtaken, drainVars>>

(* self._note_drop() for the frame that did not fit *)
CountRejected(t) ==
    /\ pc[t] = "count_rejected"
    /\ dropped' = [dropped EXCEPT ![held[t].bus] = @ + 1]
    /\ Looks(t)
    /\ Return(t)
    /\ UNCHANGED <<queue, made, stamped, drainVars>>

Enqueue(t) ==
    \/ CheckFull(t)
    \/ Evict(t)
    \/ EvictFindsEmpty(t)
    \/ CountEvicted(t)
    \/ Put(t)
    \/ PutFindsFull(t)
    \/ CountRejected(t)

-----------------------------------------------------------------------------
(* Draining: drain_rx takes up to BatchMax frames in two passes over the      *)
(* pumps.  The producers keep running between two get_nowait calls.           *)

StartDrain ==
    /\ phase = "idle"
    /\ pc[Loop] = "idle"
    /\ Order # <<>>
    /\ phase' = "first"
    /\ at' = 1
    /\ quota' = Lesser(Share, BatchMax)
    /\ sawEmpty' = {}
    /\ UNCHANGED <<queue, dropped, enqueueVars, overtaken, batch, stamped, taken, lastTaken>>

TakeFrame ==
    LET b == Order[at]
        f == Head(queue[b])
    IN  /\ phase \in {"first", "second"}
        /\ quota > 0
        /\ queue[b] # <<>>
        /\ queue' = [queue EXCEPT ![b] = Tail(@)]
        /\ batch' = Append(batch, f)
        /\ quota' = quota - 1
        /\ taken' = [taken EXCEPT ![b] = @ + 1]
        /\ lastTaken' = [lastTaken EXCEPT ![b][f.thread] = f.n]
        /\ UNCHANGED <<dropped, enqueueVars, overtaken, phase, at, sawEmpty, stamped>>

(* This pump's drain(n) returned: its quota is used up or its queue is empty. *)
PumpDone ==
    /\ phase \in {"first", "second"}
    /\ \/ quota = 0 /\ UNCHANGED sawEmpty
       \/ /\ quota > 0
          /\ queue[Order[at]] = <<>>
          /\ sawEmpty' = sawEmpty \cup {Order[at]}
    /\ UNCHANGED <<queue, dropped, enqueueVars, overtaken, batch, stamped, taken, lastTaken>>

(* Mutant of NextPump: the drain ends at the first pump. *)
FirstPumpOnly ==
    /\ PumpDone
    /\ Room > 0
    /\ at < Len(Order)
    /\ phase' = "sending"
    /\ quota' = 0
    /\ UNCHANGED at

(* The next pump of the same pass, as long as the batch has room. *)
NextPump ==
    /\ PumpDone
    /\ Room > 0
    /\ at < Len(Order)
    /\ at' = at + 1
    /\ quota' = IF phase = "first" THEN Lesser(Share, Room) ELSE Room
    /\ UNCHANGED phase

(* The first pass left room: go over the pumps again, without shares. *)
SecondPass ==
    /\ PumpDone
    /\ phase = "first"
    /\ Room > 0
    /\ at = Len(Order)
    /\ phase' = "second"
    /\ at' = 1
    /\ quota' = Room

(* drain_rx returns.  A batch that has frames is written out; with none the   *)
(* flush loop sleeps.  Both leave the asyncio thread free to run handlers.    *)
DrainDone ==
    /\ PumpDone
    /\ Room = 0 \/ (phase = "second" /\ at = Len(Order))
    /\ phase' = "sending"
    /\ quota' = 0
    /\ UNCHANGED at

(* The batch is on the socket, or the sleep is over: drain again. *)
BatchSent ==
    /\ phase = "sending"
    /\ phase' = "idle"
    /\ at' = 1
    /\ batch' = <<>>
    /\ sawEmpty' = {}
    /\ UNCHANGED <<queue, dropped, enqueueVars, overtaken, quota, stamped, taken, lastTaken>>

Drain ==
    \/ StartDrain
    \/ TakeFrame
    \/ NextPump
    \/ SecondPass
    \/ DrainDone
    \/ BatchSent

Next ==
    \/ \E t \in Threads, b \in Buses : Stamp(t, b)
    \/ \E t \in Threads : Enqueue(t)
    \/ Drain

(* The operating system schedules every runnable thread, and the flush loop   *)
(* never blocks in drain_rx.  No fairness on Stamp: traffic may cease.        *)
Fairness ==
    /\ \A t \in Threads : WF_vars(Enqueue(t))
    /\ WF_vars(Drain)

Spec == Init /\ [][Next]_vars

FairSpec == Spec /\ Fairness

-----------------------------------------------------------------------------
(* Properties *)

Labels == {"idle", "check", "evict", "count_evicted", "put", "count_rejected"}

(* Every variable has its type: in particular a queue never holds more than   *)
(* RX_QUEUE_MAX frames and a batch never more than RX_BATCH_MAX_FRAMES.       *)
TypeOK ==
    /\ queue \in [Buses -> Seq(Frame)]
    /\ \A b \in Buses : Len(queue[b]) <= Capacity
    /\ dropped \in [Buses -> Nat]
    /\ pc \in [Threads -> Labels]
    /\ held \in [Threads -> Frame \cup {NoFrame}]
    /\ \A t \in Threads : (pc[t] = "idle") <=> (held[t] = NoFrame)
    /\ made \in [Threads -> Nat]
    /\ overtaken \subseteq Threads
    /\ phase \in {"idle", "first", "second", "sending"}
    /\ at \in Nat \ {0}
    /\ phase \in {"first", "second"} => at <= Len(Order)
    /\ quota \in Nat
    /\ batch \in Seq(Frame)
    /\ phase = "idle" => batch = <<>>
    /\ Len(batch) + quota <= BatchMax
    /\ sawEmpty \subseteq Buses
    /\ stamped \in [Buses -> Nat]
    /\ taken \in [Buses -> Nat]
    /\ lastTaken \in [Buses -> [Threads -> Nat]]

Uncounted(b)  == {t \in Threads : pc[t] = "count_evicted" /\ held[t].bus = b}

(* No frame is lost without being counted, and none is counted twice: of the  *)
(* frames stamped for a bus, each is still with its producer, in the queue,   *)
(* taken by a drain, counted in `dropped`, or evicted and about to be counted *)
(* (rx.py, _enqueue and _note_drop under any interleaving of the producers    *)
(* and the drain).                                                            *)
Accounted ==
    \A b \in Buses :
        stamped[b] = Cardinality(Enqueueing(b)) + Len(queue[b]) + taken[b]
                     + dropped[b] + Cardinality(Uncounted(b))

(* In queue q the frames of one thread are in the order it stamped them, all  *)
(* newer than its last frame already taken.                                   *)
InOrder(q, last) ==
    /\ \A i \in 1..Len(q) : last[q[i].thread] < q[i].n
    /\ \A i, j \in 1..Len(q) :
          i < j /\ q[i].thread = q[j].thread => q[i].n < q[j].n

(* The frames of one thread leave a queue in the order the thread stamped     *)
(* them, whatever was evicted between them and however the producers          *)
(* interleave (rx.py, the FIFO of _queue; the trace relies on it for its time *)
(* axis).                                                                     *)
PerThreadOrder == \A b \in Buses : InOrder(queue[b], lastTaken[b])

(* An arriving frame is discarded only in a race: another producer of the bus *)
(* has put a frame since this one last found or made room in the queue        *)
(* (rx.py:171-172 with the TX echo of bus.py:363).  So on a bus that only     *)
(* receives every frame that is discarded is the oldest.                      *)
DiscardedOnlyIfOvertaken ==
    \A t \in Threads : pc[t] = "count_rejected" => t \in overtaken


Got(b) == Cardinality({i \in 1..Len(batch) : batch[i].bus = b})

(* A hot bus cannot starve another in the same batch (bus.py, drain_rx): when *)
(* the drain is over every bus got its share or was found empty, and a batch  *)
(* with room left means every queue was found empty.                          *)
FairShare ==
    phase = "sending" =>
        /\ \A b \in Buses : Got(b) >= Share \/ b \in sawEmpty
        /\ Len(batch) < BatchMax => sawEmpty = Buses

(* What was queued is flushed: once traffic pauses every queue becomes empty  *)
(* (server.py, rx_flush_loop, over bus.py, drain_rx).                         *)
QueuesEmpty == \A b \in Buses : queue[b] # <<>> ~> queue[b] = <<>>

=============================================================================
